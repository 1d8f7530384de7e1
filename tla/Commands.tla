------------------------------ MODULE Commands -------------------------------
(***************************************************************************)
(* What a line of input does: handle_commands and add_pending_command      *)
(* split it (console/console.c), run_pending_command runs the command      *)
(* (console/commands.c), with atoi and itoa of stdlib/stdlib.c.  A line is *)
(* a sequence of tokens: a blank, a digit, a sign or another piece of text.*)
(* Commands whose effects belong to other modules only print some text     *)
(* here; the order of these steps and of the keyboard's is in Console.     *)
(***************************************************************************)
EXTENDS Integers, Sequences, SequencesExt

CONSTANTS
    INT_BITS,               \* width of an int: 32
    Lines,                  \* Lines[k]: the lines that may be entered k-th
    FitRows, FitCols,       \* what "fit" computes from the screen and the font
    None

VARIABLES
    input_mode,
    pending_command,        \* its name and argv, or None
    blocks,                 \* blocks of the heap held for lines and commands
    max_rows, max_cols,
    cpu,                    \* "runs", "exception", then "halted"
    line,                   \* history: the last line entered
    out,                    \* the last thing printed
    entered

vars == <<input_mode, pending_command, blocks, max_rows, max_cols, cpu, line,
          out, entered>>

Digits == <<"0", "1", "2", "3", "4", "5", "6", "7", "8", "9">>

ASSUME CommandsAssumption ==
    /\ INT_BITS \in Nat \ {0}
    /\ FitRows \in Nat \ {0} /\ FitCols \in Nat \ {0}

------------------------------------------------------------------------------
(* Numbers.                                                                 *)

WORD == 2 ^ INT_BITS

\* Two's complement: what an int holds of n.
Int32(n) == ((n + WORD \div 2) % WORD) - (WORD \div 2)

\* An int as uint32_t or size_t; of the latter only that it is huge matters.
Unsigned(n) == n % WORD

IsDigit(ch) == ch \in ToSet(Digits)
DigitOf(ch) == (CHOOSE k \in 1 .. 10 : Digits[k] = ch) - 1

HasSign(s) == s # <<>> /\ s[1] \in {"+", "-"}

\* The digits that follow the sign, up to the first other character.
Numeral(s) ==
    LET rest == IF HasSign(s) THEN Tail(s) ELSE s
        ends == {k \in 0 .. Len(rest) : \A j \in 1 .. k : IsDigit(rest[j])}
    IN  SubSeq(rest, 1, CHOOSE k \in ends : \A j \in ends : j <= k)

\* The arithmetic of an int wraps.  (No argument begins with a blank.)
atoi(s) ==
    LET num == FoldLeft(LAMBDA n, ch : Int32(n * 10 + DigitOf(ch)), 0, Numeral(s))
    IN  Int32(IF HasSign(s) /\ s[1] = "-" THEN -num ELSE num)

Decimal[v \in 0 .. WORD] ==
    IF v < 10 THEN <<Digits[v + 1]>>
    ELSE Append(Decimal[v \div 10], Digits[(v % 10) + 1])

\* Mutant of itoa: the smallest int has no positive counterpart.
itoaSigned(n) ==
    IF n < 0 THEN <<"-">> \o Decimal[(-n) % (WORD \div 2)] ELSE Decimal[n]

\* The digits of the unsigned value, which holds the negation of every int.
itoa(n) == IF n < 0 THEN <<"-">> \o Decimal[Unsigned(-n)] ELSE Decimal[n]

\* Division of C: truncated.
Quotient(a, b) ==
    LET abs(n) == IF n < 0 THEN -n ELSE n
        q      == abs(a) \div abs(b)
    IN  IF (a < 0) = (b < 0) THEN q ELSE -q

------------------------------------------------------------------------------
(* The line, within the interrupt of the Enter key.                         *)

At(s, k) == IF k \in DOMAIN s THEN s[k] ELSE "nul"

\* The text from position k up to the first blank, all of which are zero now.
TextFrom(s, k) ==
    LET ends == {e \in k .. Len(s) + 1 : At(s, e) \in {" ", "nul"}}
    IN  SubSeq(s, k, (CHOOSE e \in ends : \A f \in ends : e <= f) - 1)

\* Mutant of StartsArg: a blank at the end of the line begins an argument.
StartsArgAtEnd(s, k) == s[k] = " " /\ At(s, k + 1) # " "

\* *tmp == ' ' && *(tmp + 1) != ' ' && *(tmp + 1) != 0
StartsArg(s, k) == s[k] = " " /\ At(s, k + 1) \notin {" ", "nul"}

\* argv: the text behind each blank that begins an argument, copied.
Args(s) ==
    LET starts == SelectSeq([k \in 1 .. Len(s) |-> k], LAMBDA k : StartsArg(s, k))
    IN  [j \in 1 .. Len(starts) |-> TextFrom(s, starts[j] + 1)]

Printed(kind, s) == [kind |-> kind, text |-> s]

Opens == input_mode /\ cpu = "runs" /\ entered < Len(Lines)

Entered(s) ==
    /\ entered' = entered + 1
    /\ line' = s
    /\ UNCHANGED <<max_rows, max_cols, cpu>>

Arithmetic == {"add", "sub", "mul", "div"}
Others     == {"print", "setrow", "setcol", "memdump", "write", "logpci", "rdisk"}

\* The commands whose functions are modelled elsewhere or only print: hello,
\* clear, help, ... are one name.
Names == Arithmetic \cup Others \cup {"hello"}

Known(name) == Len(name) = 1 /\ name[1] \in Names

enter_empty(s) ==
    /\ Entered(s) /\ s = <<>>
    /\ out' = Printed("none", <<>>)
    /\ UNCHANGED <<input_mode, pending_command, blocks>>

enter_unknown(s) ==
    /\ Entered(s) /\ s # <<>> /\ ~Known(TextFrom(s, 1))
    /\ out' = Printed("error", <<>>)
    /\ UNCHANGED <<input_mode, pending_command, blocks>>

\* The blocks of a command with n arguments: one for the copy of argv and one
\* for each; kmalloc(0) is NULL, so one without arguments has none.
BlocksOf(n) == IF n = 0 THEN 0 ELSE n + 1

\* The first argv, whose strings lie in the line, is freed before this ends.
enter_command(s) ==
    /\ Entered(s) /\ s # <<>> /\ Known(TextFrom(s, 1))
    /\ input_mode' = FALSE
    /\ pending_command' = [name |-> TextFrom(s, 1)[1], argv |-> Args(s)]
    /\ blocks' = blocks + BlocksOf(Len(Args(s)))
    /\ out' = Printed("none", <<>>)

------------------------------------------------------------------------------
(* The command, in the main loop.                                           *)

argv == pending_command.argv
argc == Len(argv)

Runs(names) ==
    /\ cpu = "runs" /\ pending_command # None
    /\ pending_command.name \in names

\* The rest of run_pending_command; kfree(NULL) frees nothing.
Freed == BlocksOf(argc)

Returns(printed) ==
    /\ out' = printed
    /\ blocks' = blocks - Freed
    /\ pending_command' = None
    /\ input_mode' = TRUE
    /\ UNCHANGED <<cpu, line, entered>>

KeepsGrid == UNCHANGED <<max_rows, max_cols>>

\* A division error or a page fault, in the middle of the command.
Faults ==
    /\ cpu' = "exception"
    /\ UNCHANGED <<input_mode, pending_command, blocks, max_rows, max_cols,
                   line, out, entered>>

Error  == Printed("error", <<>>)
Number(n) == Printed("number", itoa(n))

\* The value of an int after op has been applied with every further argument.
Folded(op(_, _)) ==
    FoldLeft(LAMBDA sum, s : Int32(op(sum, atoi(s))), atoi(argv[1]), Tail(argv))

add_sub_mul ==
    /\ Runs(Arithmetic \ {"div"}) /\ KeepsGrid
    /\ Returns(IF argc < 2 THEN Error
               ELSE CASE pending_command.name = "add" -> Number(Folded(LAMBDA a, b : a + b))
                      [] pending_command.name = "sub" -> Number(Folded(LAMBDA a, b : a - b))
                      [] pending_command.name = "mul" -> Number(Folded(LAMBDA a, b : a * b)))

\* The processor refuses to divide by zero, and a quotient out of range.
NoQuotient == WORD
Divided ==
    FoldLeft(LAMBDA sum, s :
                LET d == atoi(s)
                IN  IF sum = NoQuotient \/ d = 0 THEN NoQuotient
                    ELSE IF Quotient(sum, d) # Int32(Quotient(sum, d)) THEN NoQuotient
                    ELSE Quotient(sum, d),
             atoi(argv[1]), Tail(argv))

div ==
    /\ Runs({"div"})
    /\ IF argc < 2 THEN Returns(Error) /\ KeepsGrid
       ELSE IF Divided = NoQuotient THEN Faults
       ELSE Returns(Number(Divided)) /\ KeepsGrid

\* Each argument and a blank.
print ==
    /\ Runs({"print"}) /\ KeepsGrid
    /\ Returns(Printed("text", FlattenSeq([k \in 1 .. argc |-> Append(argv[k], " ")])))

\* size > 0
Suits(size) == size > 0

\* The new size of one side of the grid: from is what it is now.
Sized(from, fit) ==
    IF argv[1] = <<"fit">> THEN fit
    ELSE IF Suits(Unsigned(atoi(argv[1]))) THEN Unsigned(atoi(argv[1])) ELSE from

SizeError ==
    argv[1] # <<"fit">> /\ ~Suits(Unsigned(atoi(argv[1])))

SizePrinted == IF SizeError THEN Error ELSE Printed("none", <<>>)

setrow ==
    /\ Runs({"setrow"}) /\ argc > 0
    /\ max_rows' = Sized(max_rows, FitRows) /\ UNCHANGED max_cols
    /\ Returns(SizePrinted)

setcol ==
    /\ Runs({"setcol"}) /\ argc > 0
    /\ max_cols' = Sized(max_cols, FitCols) /\ UNCHANGED max_rows
    /\ Returns(SizePrinted)

\* argv[0] is read although argv is NULL.  Address 0 is mapped; the word there is
\* taken for the address of a text, which may be mapped or not and may say anything.
set_without_argument ==
    /\ Runs({"setrow", "setcol"}) /\ argc = 0
    /\ \/ Faults
       \/ Returns(Error) /\ KeepsGrid
       \/ \E n \in {1, WORD - 1} :
             /\ IF pending_command.name = "setrow" THEN max_rows' = n /\ UNCHANGED max_cols
                                                   ELSE max_cols' = n /\ UNCHANGED max_rows
             /\ Returns(Printed("none", <<>>))

\* A dump of some bytes in columns: memdump of what may not be mapped, rdisk
\* of a sector that may not be readable.
Dumps(columns, bytes) ==
    \/ bytes > 0 /\ columns = 0 /\ Faults
    \/ (bytes = 0 \/ columns # 0) /\ Returns(Printed("dump", <<>>)) /\ KeepsGrid

memdump ==
    /\ Runs({"memdump"})
    /\ IF argc # 3 THEN Returns(Error) /\ KeepsGrid
       ELSE \/ Dumps(atoi(argv[2]), Unsigned(atoi(argv[1])))
            \/ Unsigned(atoi(argv[1])) > 0 /\ Faults

rdisk ==
    /\ Runs({"rdisk"})
    /\ IF argc # 2 THEN Returns(Error) /\ KeepsGrid
       ELSE \/ Dumps(atoi(argv[2]), 512)
            \/ Returns(Error) /\ KeepsGrid

\* strcmp returns 0 for equal strings, so the first test that differs wins:
\* "byte" writes a word and anything else a byte; never more, never an error.
\* The destination may not be mapped.
write ==
    /\ Runs({"write"})
    /\ IF argc # 3 THEN Returns(Error) /\ KeepsGrid
       ELSE \/ Faults
            \/ /\ KeepsGrid
               /\ Returns(Printed("written", IF argv[1] = <<"byte">> THEN <<"word">>
                                                                     ELSE <<"byte">>))

\* Lists at least one device, if there is one; pci.c is in module Pci.
logpci ==
    /\ Runs({"logpci"}) /\ KeepsGrid
    /\ Returns(IF argc > 1 THEN Error ELSE Printed("text", <<>>))

hello ==
    /\ Runs({"hello"}) /\ KeepsGrid
    /\ Returns(Printed("text", <<>>))

\* The screen of registers, then cli and hlt.
isr_handler ==
    /\ cpu = "exception" /\ cpu' = "halted"
    /\ UNCHANGED <<input_mode, pending_command, blocks, max_rows, max_cols,
                   line, out, entered>>

run_pending_command ==
    \/ add_sub_mul \/ div \/ print \/ setrow \/ setcol \/ set_without_argument
    \/ memdump \/ rdisk \/ write \/ logpci \/ hello

Init ==
    /\ input_mode = TRUE /\ pending_command = None /\ blocks = 0
    /\ max_rows = FitRows /\ max_cols = FitCols
    /\ cpu = "runs" /\ line = <<>> /\ out = Printed("none", <<>>)
    /\ entered = 0

Next ==
    \/ /\ Opens
       /\ \E s \in Lines[entered + 1] : enter_empty(s) \/ enter_unknown(s) \/ enter_command(s)
    \/ run_pending_command
    \/ isr_handler

Spec == Init /\ [][Next]_vars

------------------------------------------------------------------------------
(* Properties.                                                              *)

\* The pieces of a line between its blanks.
Pieces(s) ==
    FoldLeft(LAMBDA words, ch :
                IF ch = " " THEN Append(words, <<>>)
                ELSE [words EXCEPT ![Len(words)] = Append(@, ch)],
             <<<<>>>>, s)

\* The words behind the first piece.
Words(s) == SelectSeq(Tail(Pieces(s)), LAMBDA word : word # <<>>)

\* A command is called with the words of its line, however many blanks are
\* between and behind them, and while it waits and runs the heap holds a block
\* for each of them and one for argv, or none if there are no words, and nothing
\* when it has returned.
CommandIsLine ==
    IF pending_command = None THEN blocks = 0
    ELSE /\ <<pending_command.name>> = Pieces(line)[1]
         /\ argv = Words(line)
         /\ blocks = Len(Words(line)) + (IF Words(line) = <<>> THEN 0 ELSE 1)

\* The number that a text begins with, however large.
Exact(s) ==
    LET n == FoldLeft(LAMBDA m, ch : m * 10 + DigitOf(ch), 0, Numeral(s))
    IN  IF HasSign(s) /\ s[1] = "-" THEN -n ELSE n

\* The same result up to a multiple of 2^INT_BITS.
Congruent(m, n) == (m - n) % WORD = 0

InRange(n) == n = Int32(n)

\* Sums and products of whole numbers, with the divisors of a division.
Total(s)   == FoldLeft(LAMBDA n, w : n + Exact(w), 0, s)
Product(s) == FoldLeft(LAMBDA n, w : n * Exact(w), 1, s)

\* The grid that the drawing loop of Redraw relies on.
GridHasCells == max_rows > 0 /\ max_cols > 0

\* The digits that a command prints, read back, are the exact result: modulo
\* 2^INT_BITS for add, sub and mul whatever overflows in between, and the
\* exact quotient for div when its arguments are in range; the machine stops
\* at a division only when a divisor is zero or there is no such quotient.
\* What setrow and setcol take for a size leaves the grid a row and a column.
AnswerIsExact ==
    LET words == Words(line)
        first == Exact(words[1])
        name  == Pieces(line)[1]
        fits  == \A k \in DOMAIN words : InRange(Exact(words[k]))
    IN  /\ out.kind = "number" =>
              /\ InRange(Exact(out.text))
              /\ name = <<"add">> => Congruent(Exact(out.text), Total(words))
              /\ name = <<"sub">> => Congruent(Exact(out.text), first - Total(Tail(words)))
              /\ name = <<"mul">> => Congruent(Exact(out.text), Product(words))
              /\ name = <<"div">> /\ fits =>
                    Exact(out.text) = Quotient(first, Product(Tail(words)))
        /\ cpu # "runs" /\ name = <<"div">> /\ fits =>
              \/ Product(Tail(words)) = 0
              \/ \E k \in 2 .. Len(words) :
                    ~InRange(Quotient(first, Product(SubSeq(words, 2, k))))
        /\ GridHasCells
==============================================================================
