--------------------------------- MODULE Shell ---------------------------------
(***************************************************************************)
(* The shell, src/src/shell.rs, on top of the text-mode writer, _print of  *)
(* src/src/print.rs, which writes to the shell once there is one and to    *)
(* the writer before, and the way of a key to the shell: the keyboard      *)
(* interrupt and the handlers of src/src/events.rs.  Every operation runs  *)
(* under the SHELL and WRITER locks and is one step.                       *)
(***************************************************************************)
EXTENDS Vga

CONSTANTS
    PromptLength,   \* the number of cells of the prompt
    Keys,           \* characters that keys produce, besides '\n' and backspace
    RawNames,       \* lengths of the names that raw keys are printed with
    Outputs,        \* the texts that are printed, up to a '\n' or to their end
    MaxTyped        \* bound on the characters typed on one line

\* The prompt is "Test: " and fits a row; no key and no text shows a cell of the
\* prompt, which are those print_prompt has written, and the name of a raw key is
\* not empty.
ASSUME ShellAssumption ==
    /\ PromptLength \in 0 .. BUFFER_WIDTH
    /\ "prompt" \notin Keys
    /\ RawNames \subseteq Nat \ {0}
    /\ Outputs \subseteq Seq(STRING)
    /\ \A s \in Outputs : \A i \in 1 .. Len(s) : s[i] # "prompt"
    /\ MaxTyped \in Nat

\* The line that is typed fits the screen, with the last row for the cursor.
ASSUME LineAssumption == MaxTyped <= Bottom * BUFFER_WIDTH

VARIABLES
    writer,              \* WRITER
    INITIALIZED,         \* has_shell()
    written_char_count,  \* Shell::written_char_count
    prompt_enabled,      \* Shell::prompt_enabled
    keyboard             \* EVENT_HANDLERS.keyboard: the handlers, all of one kind

vars == <<writer, INITIALIZED, written_char_count, prompt_enabled, keyboard>>

Prompt == [i \in 1 .. PromptLength |-> "prompt"]

\* The screen may hold text of the boot loader, or nothing.
Init ==
    /\ \E cell \in {Blank, "text"} :
         writer = [chars |-> [row \in Rows |-> [col \in Cols |-> cell]], column_position |-> 0]
    /\ INITIALIZED = FALSE
    /\ written_char_count = 0
    /\ prompt_enabled = TRUE
    /\ keyboard = <<>>

\* print! and println! before there is a shell: write_string, '\n' included.
PrintWriter(s) ==
    /\ ~INITIALIZED
    /\ writer' = WriteBytes(writer, s)
    /\ UNCHANGED <<INITIALIZED, written_char_count, prompt_enabled, keyboard>>

PrintlnWriter(s) ==
    /\ ~INITIALIZED
    /\ writer' = NewLine(WriteBytes(writer, s))
    /\ UNCHANGED <<INITIALIZED, written_char_count, prompt_enabled, keyboard>>

\* Shell::init
ShellInit ==
    /\ ~INITIALIZED
    /\ writer' = WriteBytes(IF IsCurrentRowClear(writer) THEN writer ELSE NewLine(writer), Prompt)
    /\ INITIALIZED' = TRUE
    /\ UNCHANGED <<written_char_count, prompt_enabled, keyboard>>

\* init_kb_handler, which kernel_main calls once, after Shell::init:
\* register_keyboard_handler of a closure that calls key_event.
InitKbHandler_Twice ==
    /\ INITIALIZED /\ Len(keyboard) < 2
    /\ keyboard' = Append(keyboard, "key_event")
    /\ UNCHANGED <<writer, INITIALIZED, written_char_count, prompt_enabled>>

InitKbHandler ==
    /\ INITIALIZED /\ keyboard = <<>>
    /\ keyboard' = Append(keyboard, "key_event")
    /\ UNCHANGED <<writer, INITIALIZED, written_char_count, prompt_enabled>>

\* What the operations below change, as a record: st is the shell's state.
State == [writer |-> writer, count |-> written_char_count]
Become(st) == writer' = st.writer /\ written_char_count' = st.count

\* Shell::newline on the writer w, with print_prompt.
Newline_KeepsCount(w) ==
    [writer |-> IF prompt_enabled THEN WriteBytes(NewLine(w), Prompt) ELSE NewLine(w),
     count |-> written_char_count]

Newline(w) ==
    [writer |-> IF prompt_enabled THEN WriteBytes(NewLine(w), Prompt) ELSE NewLine(w),
     count |-> 0]

\* Shell::write and Shell::write_colored of a text without '\n', as print! makes
\* it: written_char_count stays.  A text with a '\n' in it is written as one line
\* after the other.
PrintShell(s) ==
    /\ INITIALIZED
    /\ writer' = WriteBytes(writer, s)
    /\ UNCHANGED <<INITIALIZED, written_char_count, prompt_enabled, keyboard>>

\* Shell::write of a text that ends with '\n', as println! makes it.
PrintlnShell(s) ==
    /\ INITIALIZED
    /\ Become(Newline(WriteBytes(writer, s)))
    /\ UNCHANGED <<INITIALIZED, prompt_enabled, keyboard>>

\* Shell::write_colored of a text that ends with '\n': the prompt follows
\* whether it is enabled or not.
WriteColored(s) ==
    /\ INITIALIZED
    /\ Become([writer |-> WriteBytes(NewLine(WriteBytes(writer, s)), Prompt),
               count |-> 0])
    /\ UNCHANGED <<INITIALIZED, prompt_enabled, keyboard>>

SetEnablePrompt(enabled) ==
    /\ prompt_enabled' = enabled
    /\ UNCHANGED <<writer, INITIALIZED, written_char_count, keyboard>>
-----------------------------------------------------------------------------
(* Keys: a decoded key is a kind and what it shows.                        *)

DecodedKeys == {<<"enter", 0>>, <<"backspace", 0>>, <<"raw_backspace", 0>>}
               \cup ({"char"} \X Keys) \cup ({"raw"} \X RawNames)

KeyChar(st, char) ==
    [st EXCEPT !.writer = WriteByte(@, Shown(char)), !.count = @ + 1]

\* A raw key is written as its name, and counts as one character.
NameOf(length) == [i \in 1 .. length |-> "name"]
KeyRaw(st, length) ==
    [writer |-> WriteBytes(st.writer, NameOf(length)),
     count |-> st.count + 1]

\* The writer one character back, in the previous row if need be.
Back(w) ==
    IF w.column_position > 0
    THEN [w EXCEPT !.column_position = @ - 1]
    ELSE [OldLine(w) EXCEPT !.column_position = BUFFER_WIDTH - 1]

KeyBackspace(st) ==
    IF st.count = 0 THEN st
    ELSE [st EXCEPT !.writer = SetByte(Back(@), Blank), !.count = @ - 1]

\* Backspace as a raw key stays in its row, but counts.
RawBackspace(st) ==
    IF st.count = 0 THEN st
    ELSE [writer |-> IF st.writer.column_position > 0
                     THEN [WriteByte([st.writer EXCEPT !.column_position = @ - 1], Blank)
                             EXCEPT !.column_position = @ - 1]
                     ELSE st.writer,
          count |-> st.count - 1]

\* Shell::key_event
KeyEvent(st, key) ==
    CASE key[1] = "enter"         -> Newline(st.writer)
      [] key[1] = "char"          -> KeyChar(st, key[2])
      [] key[1] = "backspace"     -> KeyBackspace(st)
      [] key[1] = "raw"           -> KeyRaw(st, key[2])
      [] key[1] = "raw_backspace" -> RawBackspace(st)

\* call_keyboard_event: every handler in turn; the closure of init_kb_handler
\* checks has_shell.
CallKeyboardEvent(key) ==
    LET handle(st) == IF INITIALIZED THEN KeyEvent(st, key) ELSE st
        called[i \in 0 .. Len(keyboard)] == IF i = 0 THEN State ELSE handle(called[i - 1])
    IN  called[Len(keyboard)]

\* keyboard_interrupt_handler with a scancode that completes a key; others
\* only change the decoder.
KeyboardInterrupt(key) ==
    /\ key[1] \in {"char", "raw"} => written_char_count < MaxTyped
    /\ Become(CallKeyboardEvent(key))
    /\ UNCHANGED <<INITIALIZED, prompt_enabled, keyboard>>

Next ==
    \/ ShellInit \/ InitKbHandler
    \/ \E s \in Outputs : PrintWriter(s) \/ PrintlnWriter(s)
                          \/ PrintShell(s) \/ PrintlnShell(s) \/ WriteColored(s)
    \/ \E enabled \in BOOLEAN : SetEnablePrompt(enabled)
    \/ \E key \in DecodedKeys : KeyboardInterrupt(key)

Spec == Init /\ [][Next]_vars
-----------------------------------------------------------------------------
Cells == {Blank, "text", "prompt", "name", "fe"} \cup {Shown(char) : char \in Keys}
         \cup UNION {{s[i] : i \in 1 .. Len(s)} : s \in Outputs}

\* The column is one the next write can start from: at most one past the row.
ShellTypeOK ==
    /\ writer \in [chars : [Rows -> [Cols -> Cells]], column_position : 0 .. BUFFER_WIDTH]
    /\ INITIALIZED \in BOOLEAN
    /\ written_char_count \in 0 .. MaxTyped
    /\ prompt_enabled \in BOOLEAN
    /\ keyboard \in {<<>>, <<"key_event">>}

\* The cell that backspace would clear.
EraseTarget ==
    IF writer.column_position > 0
    THEN writer.chars[Bottom][writer.column_position - 1]
    ELSE writer.chars[Bottom - 1][BUFFER_WIDTH - 1]

\* As long as written_char_count lets backspace go on, what it clears is not
\* part of the prompt, and when it goes back a row the row that old_line
\* overwrites is empty.  This needs the count to be reset with every prompt
\* and never to exceed the cells written since.
BackspaceSparesPrompt ==
    written_char_count > 0 =>
        /\ EraseTarget # "prompt"
        /\ writer.column_position = 0 => IsCurrentRowClear(writer)

\* What println! leaves on the screen: the text stands in the row above the
\* last, from the column the cursor was at (test_println_output asserts this
\* of column 0), and the last row is empty but for a prompt.
PrintlnOutput ==
    [][\A s \in Outputs :
          (PrintlnWriter(s) \/ PrintlnShell(s)) /\ writer.column_position + Len(s) <= BUFFER_WIDTH
          => /\ \A i \in 1 .. Len(s) :
                   writer'.chars[Bottom - 1][writer.column_position + i - 1] = s[i]
             /\ \A col \in Cols :
                   writer'.chars[Bottom][col] \in {Blank, "prompt"}]_vars

\* The last n cells before the cursor, the rows read one after the other.
CellAt(i) == writer.chars[i \div BUFFER_WIDTH][i % BUFFER_WIDTH]
BeforeCursor(n) ==
    LET cursor == Bottom * BUFFER_WIDTH + writer.column_position
    IN  [i \in 1 .. n |-> CellAt(cursor - n + i - 1)]

\* A key that is pressed reaches the shell once, and the shell implements the
\* line editor as long as what is typed fits the screen: whatever keys, raw keys
\* and output come after one another, the cells before the cursor that
\* written_char_count counts, the rows read one after the other, are what the
\* line editor has for backspace to take away.
Editor == INSTANCE LineEditor WITH
             Char <- {Shown(char) : char \in Keys},
             Text <- Outputs,
             Name <- {NameOf(length) : length \in RawNames},
             line <- BeforeCursor(written_char_count)

ImplementsLineEditor == Editor!Spec
=============================================================================
