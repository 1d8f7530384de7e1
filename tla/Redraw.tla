------------------------------- MODULE Redraw --------------------------------
(***************************************************************************)
(* The drawing part of console_loop (console/console.c:401): the last rows *)
(* of the text are laid out on a grid of max_rows by max_cols cells, while *)
(* the keyboard interrupt may append to the text or take a character away  *)
(* between any two steps.  A pointer is an index into con_memory; a cell   *)
(* of the screen holds the index of the character drawn in it, a character *)
(* is one of four kinds.  When the text wraps and does not fit, the loop   *)
(* clears the grid, moves start down and draws again.                      *)
(***************************************************************************)
EXTENDS Integers, Sequences, FiniteSets, FiniteSetsExt

CONSTANTS
    Texts,          \* what may have been printed before: sequences of kinds
    Grids,          \* pairs <<max_rows, max_cols>> that setrow and setcol set
    TAB_WDITH,
    Prompt,         \* length of cmdtxt
    MaxKeys,        \* bound on the keys struck
    LIMIT           \* end of the memory that is modelled; beyond, it is lost

VARIABLES
    con_memory,
    mem_end,
    line,           \* characters of the input line, which backspace may take
    max_rows, max_cols,
    update_console,
    pc,
    c, start,       \* the loop's pointers
    row, col,
    screen,         \* cells drawn since fill_screen, on and off the grid
    cursor,
    scrolled,       \* history: this drawing has moved start
    disturbed,      \* history: a key was struck since this drawing began
    keys

text   == <<con_memory, mem_end, line>>
grid   == <<max_rows, max_cols>>
place  == <<c, start, row, col>>
vars   == <<text, grid, update_console, pc, place, screen, cursor, scrolled,
            disturbed, keys>>

Kinds == {"glyph", "newline", "tab", "nul"}

ASSUME RedrawAssumption ==
    /\ {TAB_WDITH, MaxKeys, LIMIT} \subseteq Nat /\ Prompt \in Nat \ {0}
    /\ \A t \in Texts : /\ t \in Seq(Kinds \ {"nul"})
                        /\ Len(t) + Prompt + MaxKeys * (Prompt + 1) < LIMIT
    /\ Grids \subseteq (Nat \ {0}) \X (Nat \ {0})

Cells == (0 .. max_rows - 1) \X (0 .. max_cols - 1)

\* init_console sets the memory to zero; a text has been printed, and then the
\* prompt, with which input is open.
Init ==
    /\ \E t \in Texts :
          /\ con_memory = [i \in 0 .. LIMIT - 1 |->
                IF i < Len(t) THEN t[i + 1]
                ELSE IF i < Len(t) + Prompt THEN "glyph" ELSE "nul"]
          /\ mem_end = Len(t) + Prompt
    /\ line = 0
    /\ \E g \in Grids : max_rows = g[1] /\ max_cols = g[2]
    /\ update_console = TRUE
    /\ pc = "idle"
    /\ c = 0 /\ start = 0 /\ row = 0 /\ col = 0
    /\ screen = <<>> /\ cursor = <<0, 0>>
    /\ scrolled = FALSE /\ disturbed = FALSE /\ keys = 0

Char(i) == IF i < LIMIT THEN con_memory[i] ELSE "nul"

------------------------------------------------------------------------------
(* The loop.                                                                *)

\* "count back rows, ignore column wrap": the drawing starts after the
\* max_rows-th newline from the end, or at the beginning of the text.  The
\* interrupt touches nothing that is counted.
FirstLine ==
    LET newlines == {i \in 0 .. mem_end - 1 : con_memory[i] = "newline"}
        after(i) == Cardinality({j \in newlines : j >= i})
    IN  IF Cardinality(newlines) < max_rows THEN 0
        ELSE 1 + CHOOSE i \in newlines : after(i) = max_rows

fill_screen == screen' = <<>>

console_loop ==
    /\ pc = "idle" /\ update_console
    /\ pc' = "test"
    /\ fill_screen
    /\ row' = 0 /\ col' = 0
    /\ c' = FirstLine /\ start' = FirstLine
    /\ scrolled' = FALSE /\ disturbed' = FALSE
    /\ UNCHANGED <<text, grid, update_console, cursor, keys>>

\* The loop's condition, c != mem_end.
test ==
    /\ pc = "test"
    /\ pc' = IF c = mem_end THEN "cursor" ELSE "draw"
    /\ UNCHANGED <<text, grid, update_console, place, screen, cursor, scrolled,
                   disturbed, keys>>

\* A newline and a tab leave no glyph.
draw_char ==
    IF Char(c) \in {"newline", "tab"} THEN screen
    ELSE [cell \in DOMAIN screen \cup {<<row, col>>} |->
             IF cell = <<row, col>> THEN c ELSE screen[cell]]

\* The column after the character at c.
Column == col + 1 + IF Char(c) = "tab" THEN TAB_WDITH ELSE 0

\* Mutant of EndsRow: one column too many.
EndsRowLate == Char(c) = "newline" \/ Column = max_cols + 1

\* The column is compared for equality: a tab may carry it past max_cols.
EndsRow == Char(c) = "newline" \/ Column = max_cols

\* Mutant of SkipLine: the newline itself is not passed.
SkipLineStays ==
    start + Min({k \in 0 .. max_cols : k = max_cols \/ Char(start + k) = "newline"})

\* "skip start by 1 line": up to a newline or by max_cols characters, and one more.
SkipLine ==
    start + 1 + Min({k \in 0 .. max_cols : k = max_cols \/ Char(start + k) = "newline"})

draw ==
    /\ pc = "draw" /\ c < LIMIT
    /\ ~ EndsRow
    /\ screen' = draw_char
    /\ col' = Column
    /\ c' = c + 1 /\ pc' = "test"
    /\ UNCHANGED <<text, grid, update_console, start, row, cursor, scrolled,
                   disturbed, keys>>

next_row ==
    /\ pc = "draw" /\ c < LIMIT
    /\ EndsRow /\ row + 1 # max_rows
    /\ screen' = draw_char
    /\ col' = 0 /\ row' = row + 1
    /\ c' = c + 1 /\ pc' = "test"
    /\ UNCHANGED <<text, grid, update_console, start, cursor, scrolled,
                   disturbed, keys>>

\* Mutant of clear_grid: the old rows stay.
clear_gridNot == UNCHANGED screen

\* draw_rect over the grid.
clear_grid == screen' = [cell \in DOMAIN screen \ Cells |-> screen[cell]]

\* Mutant of scroll: c is not moved back.
scrollOnward ==
    /\ pc = "draw" /\ c < LIMIT
    /\ EndsRow /\ row + 1 = max_rows
    /\ clear_grid
    /\ col' = 0 /\ row' = 0
    /\ start' = SkipLine /\ scrolled' = TRUE
    /\ c' = c + 1 /\ pc' = "test"
    /\ UNCHANGED <<text, grid, update_console, cursor, disturbed, keys>>

\* The last row is full: from the second line on everything is drawn again.
\* c = ++start, and then the loop's own c++.
scroll ==
    /\ pc = "draw" /\ c < LIMIT
    /\ EndsRow /\ row + 1 = max_rows
    /\ clear_grid
    /\ col' = 0 /\ row' = 0
    /\ start' = SkipLine /\ scrolled' = TRUE
    /\ c' = SkipLine + 1 /\ pc' = "test"
    /\ UNCHANGED <<text, grid, update_console, cursor, disturbed, keys>>

\* c has left the memory that is modelled and will not come back.
leave_memory ==
    /\ pc = "draw" /\ c >= LIMIT
    /\ pc' = "lost"
    /\ UNCHANGED <<text, grid, update_console, place, screen, cursor, scrolled,
                   disturbed, keys>>

draw_cursor ==
    /\ pc = "cursor" /\ pc' = "drawn"
    /\ cursor' = <<row, col>>
    /\ UNCHANGED <<text, grid, update_console, place, screen, scrolled,
                   disturbed, keys>>

\* The last line of console_loop.
drawn ==
    /\ pc = "drawn" /\ pc' = "idle"
    /\ update_console' = FALSE
    /\ UNCHANGED <<text, grid, place, screen, cursor, scrolled, disturbed, keys>>

MainStep == \/ console_loop \/ test \/ draw \/ next_row \/ scroll \/ leave_memory
            \/ draw_cursor \/ drawn

------------------------------------------------------------------------------
(* The keyboard interrupt, with input open.                                 *)

KeyStruck ==
    /\ keys < MaxKeys /\ keys' = keys + 1
    /\ disturbed' = TRUE
    /\ update_console' = TRUE
    /\ UNCHANGED <<grid, pc, place, screen, cursor, scrolled>>

kprintf(str) ==
    /\ con_memory' = [i \in DOMAIN con_memory |->
          IF i \in mem_end .. mem_end + Len(str) - 1 THEN str[i - mem_end + 1]
          ELSE con_memory[i]]
    /\ mem_end' = mem_end + Len(str)

type_char == KeyStruck /\ kprintf(<<"glyph">>) /\ line' = line + 1

\* An Enter that starts no command prints a newline and the prompt.
enter ==
    /\ KeyStruck
    /\ kprintf(<<"newline">> \o [i \in 1 .. Prompt |-> "glyph"])
    /\ line' = 0

backspace ==
    /\ line > 0
    /\ KeyStruck
    /\ line' = line - 1
    /\ mem_end' = mem_end - 1
    /\ con_memory' = [con_memory EXCEPT ![mem_end - 1] = "nul"]

Next == MainStep \/ type_char \/ enter \/ backspace

Spec == Init /\ [][Next]_vars /\ WF_vars(MainStep)

------------------------------------------------------------------------------
(* Properties.                                                              *)

\* The layout that a reader expects of the characters from first on: a row
\* ends with a newline, and after every max_cols characters of a line.
LineOf(first, i) ==
    Max({first} \cup {j + 1 : j \in {k \in first .. i - 1 : con_memory[k] = "newline"}})

Column0(first, i) == (i - LineOf(first, i)) % max_cols

RowEnds(first, i) ==
    {j \in first .. i - 1 :
        con_memory[j] = "newline" \/ Column0(first, j) = max_cols - 1}

Cell(first, i) == <<Cardinality(RowEnds(first, i)), Column0(first, i)>>

Glyphs(first) == {i \in first .. mem_end - 1 : con_memory[i] = "glyph"}

\* The first character of the last drawing.  After scrolling it is not start:
\* console.c:459 sets c to start, and the loop then increments it.
First == IF scrolled THEN start + 1 ELSE start

NoTab == \A i \in DOMAIN con_memory : con_memory[i] # "tab"

\* A drawing that no key disturbed shows the text from First to its end, every
\* glyph in its cell and nothing else, and the cursor after the last one,
\* however often it had to start again; and no line was scrolled away for
\* nothing: from a row earlier on, the text would not have fitted.
ScreenIsTail ==
    pc = "drawn" /\ ~ disturbed /\ NoTab =>
        /\ scrolled => Cell(Max({0, start - 1 - max_cols}), mem_end)[1] >= max_rows
        /\ cursor = Cell(First, mem_end)
        /\ screen = [cell \in {Cell(First, i) : i \in Glyphs(First)} |->
                        CHOOSE i \in Glyphs(First) : Cell(First, i) = cell]

\* Only a tab before it in the text, on its own line if no key was struck since,
\* carries a character off the grid, and then to the right of it: no drawing is
\* below the last row.
OnlyTabsLeaveGrid ==
    \A cell \in DOMAIN screen \ Cells :
        /\ cell[1] < max_rows
        /\ \E j \in 0 .. screen[cell] - 1 :
              /\ Char(j) = "tab"
              /\ disturbed \/ \A k \in j .. screen[cell] : Char(k) # "newline"

\* A drawing that no key disturbs stays within the text, unless the grid is so
\* small (setrow, setcol) that the next row may begin behind the character that
\* filled the last one.  A character taken away meanwhile makes the loop run past
\* mem_end, but by no more than a screenful as long as the line that it skips
\* next is within the text: it then scrolls back.  Beside the grid (a tab) it
\* finds no end of a row.
NeverLost ==
    NoTab =>
        /\ ~ disturbed /\ (max_rows > 2 \/ (max_rows = 2 /\ max_cols > 1)) => c <= mem_end
        /\ c > mem_end + max_rows * max_cols => SkipLine >= mem_end

\* And unless it is lost, every drawing ends.
RedrawEnds == (pc = "test") ~> (pc \in {"idle", "lost"})

==============================================================================
