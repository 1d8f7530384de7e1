------------------------------- MODULE Console -------------------------------
(***************************************************************************)
(* The terminal (console/console.c): the kernel's main loop, which redraws *)
(* and runs commands, and the keyboard interrupt, which edits the input    *)
(* line and hands commands over.  The interrupt may come between any two   *)
(* steps of the main loop and runs to its end before the main loop goes on *)
(* (interrupt gates, idt.c).  The two share the text buffer, the flags and *)
(* the heap; input_mode is the only thing that keeps them apart.           *)
(*                                                                         *)
(* The main loop is at pc.  kprintch's *mem_end++ and *cmem_end++ are a    *)
(* load and a store each; characters themselves are left out.              *)
(***************************************************************************)
EXTENDS Integers

CONSTANTS
    Commands,       \* the commands of commands.c
    Outputs,        \* how many characters a run of a command may print
    Banner,         \* characters that kernel_main prints before the prompt
    PROMPT,         \* the length of cmdtxt
    ERROR,          \* the length of the "not found" message
    MaxLine,        \* bound on the input line, below INPUT_BUFFER_SIZE
    MaxKeys,        \* bound on the keys struck
    NoCommand

VARIABLES
    pc,             \* where the main loop is
    left,           \* the characters that kprintf has still to print
    after,          \* where the main loop goes after kprintf
    reg,            \* the pointer loaded by kprintch
    mem_end,        \* characters in con_memory
    cmem_end,       \* colors in color_memory
    buffer_len,     \* buffer_ptr - input_buffer
    input_mode,
    update_console,
    has_initalised,
    hasCommand,
    pending,        \* pending_command.command
    prompt_end,     \* history: where the text after the last prompt begins
    keys            \* history: keys struck so far

screen == <<mem_end, cmem_end>>
flags  == <<input_mode, update_console, has_initalised>>
queue  == <<hasCommand, pending>>
vars   == <<pc, left, after, reg, screen, buffer_len, flags, queue,
            prompt_end, keys>>

ASSUME ConsoleAssumption ==
    /\ NoCommand \notin Commands
    /\ Outputs \subseteq Nat
    /\ {Banner, PROMPT, ERROR, MaxLine, MaxKeys} \subseteq Nat

Init ==
    /\ pc = "init_console"
    /\ left = 0 /\ after = "init_console" /\ reg = 0
    /\ mem_end = 0 /\ cmem_end = 0
    /\ buffer_len = 0
    /\ input_mode = FALSE /\ update_console = FALSE /\ has_initalised = FALSE
    /\ hasCommand = FALSE /\ pending = NoCommand
    /\ prompt_end = 0 /\ keys = 0

------------------------------------------------------------------------------
(* The main loop.                                                           *)

Go(from, to) == pc = from /\ pc' = to

\* kprintf will print n characters, then the main loop goes on at label.
kprintf(n, label) == left' = n /\ after' = label

\* The two kmallocs, then the text and color pointers; kprintf is a no-op and
\* console_loop returns until has_initalised is set.
init_console ==
    /\ Go("init_console", "kprintf")
    /\ mem_end' = 0 /\ cmem_end' = 0
    /\ has_initalised' = TRUE
    /\ kprintf(Banner, "boot_input")
    /\ UNCHANGED <<reg, buffer_len, input_mode, update_console, queue,
                   prompt_end, keys>>

load_mem_end ==
    /\ left > 0
    /\ Go("kprintf", "mem_end")
    /\ reg' = mem_end
    /\ UNCHANGED <<left, after, screen, buffer_len, flags, queue, prompt_end, keys>>

store_mem_end ==
    /\ Go("mem_end", "kprintch")
    /\ mem_end' = reg + 1
    /\ UNCHANGED <<left, after, reg, cmem_end, buffer_len, flags, queue,
                   prompt_end, keys>>

load_cmem_end ==
    /\ Go("kprintch", "cmem_end")
    /\ reg' = cmem_end
    /\ UNCHANGED <<left, after, screen, buffer_len, flags, queue, prompt_end, keys>>

store_cmem_end ==
    /\ Go("cmem_end", "kprintf")
    /\ cmem_end' = reg + 1
    /\ update_console' = TRUE
    /\ left' = left - 1
    /\ UNCHANGED <<after, reg, mem_end, buffer_len, input_mode, has_initalised,
                   queue, prompt_end, keys>>

kprintf_returns ==
    /\ left = 0
    /\ Go("kprintf", after)
    /\ UNCHANGED <<left, after, reg, screen, buffer_len, flags, queue,
                   prompt_end, keys>>

\* Mutant of enable_input: input is opened before the prompt is printed.
enable_inputEarly ==
    /\ \/ Go("boot_input", "kprintf") /\ kprintf(PROMPT, "open_boot")
       \/ Go("enable_input", "kprintf") /\ kprintf(PROMPT, "open_input")
    /\ input_mode' = TRUE
    /\ UNCHANGED <<reg, screen, buffer_len, update_console, has_initalised,
                   queue, prompt_end, keys>>

\* enable_input prints the prompt; its second line is open_input.  kernel_main
\* calls it at the end of the boot, run_pending_command after a command.
enable_input ==
    /\ \/ Go("boot_input", "kprintf") /\ kprintf(PROMPT, "open_boot")
       \/ Go("enable_input", "kprintf") /\ kprintf(PROMPT, "open_input")
    /\ UNCHANGED <<reg, screen, buffer_len, flags, queue, prompt_end, keys>>

open_input ==
    /\ \/ Go("open_boot", "console_loop")
       \/ Go("open_input", "redraw")
    /\ input_mode' = TRUE
    /\ prompt_end' = mem_end
    /\ UNCHANGED <<left, after, reg, screen, buffer_len, update_console,
                   has_initalised, queue, keys>>

console_loop ==
    /\ update_console /\ has_initalised
    /\ Go("console_loop", "run_pending_command")
    /\ UNCHANGED <<left, after, reg, screen, buffer_len, flags, queue,
                   prompt_end, keys>>

\* console_loop returns at once, and kernel_main calls it again.
nothing_to_update ==
    /\ ~ (update_console /\ has_initalised)
    /\ Go("console_loop", "console_loop")
    /\ UNCHANGED <<left, after, reg, screen, buffer_len, flags, queue,
                   prompt_end, keys>>

run_pending_command ==
    /\ pc = "run_pending_command"
    /\ pc' = IF hasCommand THEN "command" ELSE "redraw"
    /\ UNCHANGED <<left, after, reg, screen, buffer_len, flags, queue,
                   prompt_end, keys>>

\* A command works on the heap, prints, and returns.
command ==
    /\ Go("command", "kprintf")
    /\ \E n \in Outputs : kprintf(n, "free_args")
    /\ UNCHANGED <<reg, screen, buffer_len, flags, queue, prompt_end, keys>>

\* The command clear empties the text.
clear ==
    /\ Go("command", "free_args")
    /\ mem_end' = 0 /\ cmem_end' = 0
    /\ UNCHANGED <<left, after, reg, buffer_len, flags, queue, prompt_end, keys>>

\* The arguments are freed, then the slot.
free_args ==
    /\ Go("free_args", "free_slot")
    /\ pending' = NoCommand
    /\ UNCHANGED <<left, after, reg, screen, buffer_len, flags, hasCommand,
                   prompt_end, keys>>

\* Mutants of free_slot: hasCommand stays set; the prompt is not printed.
free_slotKept ==
    /\ Go("free_slot", "enable_input")
    /\ UNCHANGED <<left, after, reg, screen, buffer_len, flags, queue,
                   prompt_end, keys>>

free_slotSilent ==
    /\ Go("free_slot", "redraw")
    /\ hasCommand' = FALSE
    /\ UNCHANGED <<left, after, reg, screen, buffer_len, flags, pending,
                   prompt_end, keys>>

free_slot ==
    /\ Go("free_slot", "enable_input")
    /\ hasCommand' = FALSE
    /\ UNCHANGED <<left, after, reg, screen, buffer_len, flags, pending,
                   prompt_end, keys>>

\* Everything between run_pending_command and the last line of console_loop.
redraw ==
    /\ Go("redraw", "redrawn")
    /\ UNCHANGED <<left, after, reg, screen, buffer_len, flags, queue,
                   prompt_end, keys>>

redrawn ==
    /\ Go("redrawn", "console_loop")
    /\ update_console' = FALSE
    /\ UNCHANGED <<left, after, reg, screen, buffer_len, input_mode,
                   has_initalised, queue, prompt_end, keys>>

MainStep ==
    \/ init_console \/ load_mem_end \/ store_mem_end \/ load_cmem_end
    \/ store_cmem_end \/ kprintf_returns \/ enable_input \/ open_input
    \/ console_loop \/ nothing_to_update \/ run_pending_command \/ command
    \/ clear \/ free_args \/ free_slot \/ redraw \/ redrawn

------------------------------------------------------------------------------
(* The keyboard interrupt: console_keyboard returns unless input_mode.      *)

KeyStruck ==
    /\ input_mode
    /\ keys < MaxKeys /\ keys' = keys + 1
    /\ UNCHANGED <<pc, left, after, reg, has_initalised>>

clear_buffer == buffer_len' = 0

add_pending_command(c) == pending' = c /\ hasCommand' = TRUE

\* kprintf of n characters in the interrupt.
Echo(n) ==
    /\ mem_end' = mem_end + n /\ cmem_end' = cmem_end + n
    /\ update_console' = TRUE

type_char ==
    /\ KeyStruck
    /\ buffer_len < MaxLine
    /\ Echo(1)
    /\ buffer_len' = buffer_len + 1
    /\ UNCHANGED <<input_mode, queue, prompt_end>>

backspace ==
    /\ KeyStruck
    /\ buffer_len > 0
    /\ buffer_len' = buffer_len - 1
    /\ update_console' = TRUE
    /\ mem_end' = mem_end - 1 /\ cmem_end' = cmem_end - 1
    /\ UNCHANGED <<input_mode, queue, prompt_end>>

\* An empty line gets a new prompt.
enter_empty ==
    /\ KeyStruck
    /\ buffer_len = 0
    /\ Echo(1 + PROMPT)
    /\ prompt_end' = mem_end'
    /\ UNCHANGED <<buffer_len, input_mode, queue>>

\* Mutant of enter_unknown: the buffer is not cleared.
enter_unknownKeepsLine ==
    /\ KeyStruck
    /\ buffer_len > 0
    /\ Echo(1 + ERROR + PROMPT)
    /\ prompt_end' = mem_end'
    /\ UNCHANGED <<buffer_len, input_mode, queue>>

\* So does a line that names no command, after a message.
enter_unknown ==
    /\ KeyStruck
    /\ buffer_len > 0
    /\ Echo(1 + ERROR + PROMPT)
    /\ prompt_end' = mem_end'
    /\ clear_buffer
    /\ UNCHANGED <<input_mode, queue>>

\* Mutant of enter_command: input stays open.
enter_commandOpen(c) ==
    /\ KeyStruck
    /\ buffer_len > 0
    /\ Echo(1)
    /\ add_pending_command(c)
    /\ clear_buffer
    /\ prompt_end' = mem_end'
    /\ UNCHANGED input_mode

\* The arguments are copied on the heap, and the command is left to the main
\* loop.  Input stays closed until the command has run.
enter_command(c) ==
    /\ KeyStruck
    /\ buffer_len > 0
    /\ Echo(1)
    /\ input_mode' = FALSE
    /\ add_pending_command(c)
    /\ clear_buffer
    /\ UNCHANGED prompt_end

Interrupt ==
    \/ type_char \/ backspace \/ enter_empty \/ enter_unknown
    \/ \E c \in Commands : enter_command(c)

Next == MainStep \/ Interrupt

\* The main loop never waits, and commands end; nobody has to strike keys.
Spec == Init /\ [][Next]_vars /\ WF_vars(MainStep)

------------------------------------------------------------------------------
(* Properties.                                                              *)

Labels == {"init_console", "kprintf", "mem_end", "kprintch", "cmem_end",
           "boot_input", "open_boot", "enable_input", "open_input",
           "console_loop", "run_pending_command", "command", "free_args",
           "free_slot", "redraw", "redrawn"}

TypeOK ==
    /\ pc \in Labels
    /\ after \in {"init_console", "boot_input", "open_boot", "open_input",
                 "free_args"}
    /\ {left, reg, mem_end, cmem_end, buffer_len, prompt_end, keys} \subseteq Nat
    /\ input_mode \in BOOLEAN /\ update_console \in BOOLEAN
    /\ has_initalised \in BOOLEAN /\ hasCommand \in BOOLEAN
    /\ pending \in Commands \cup {NoCommand}

\* Where the main loop is in kprintf, or in the heap, or about to be.
MainOwns == {"init_console", "kprintf", "mem_end", "kprintch", "cmem_end",
             "boot_input", "open_boot", "enable_input", "open_input", "command",
             "free_args", "free_slot"}

\* The interrupt calls kprintf, kmalloc and kfree only while input_mode is set,
\* and then the main loop is in none of them: neither has a lock.
Exclusion == input_mode => pc \notin MainOwns

\* A pointer that kprintch has loaded is still current when it is stored, so
\* no character the interrupt prints is overwritten.
LoadedPointerCurrent ==
    /\ pc = "mem_end" => reg = mem_end
    /\ pc = "cmem_end" => reg = cmem_end

\* Every character has its color: the two pointers move together.
ColorsInStep ==
    mem_end = cmem_end + (IF pc \in {"kprintch", "cmem_end"} THEN 1 ELSE 0)

\* While input is open, what stands after the prompt is the input line, so
\* backspace never eats the prompt.
LineIsOnScreen == input_mode => mem_end = prompt_end + buffer_len

\* A command is handed over only to a free slot and stays there until it ran:
\* the slot holds one command.
SlotFree ==
    /\ input_mode => ~ hasCommand
    /\ pc = "command" => hasCommand /\ pending # NoCommand

\* The prompt comes back after a command that has been started.
PromptReturns == (pc = "command") ~> input_mode

\* README.MD:5 promises "a terminal for running commands": a command that was
\* entered is run.
CommandRuns == hasCommand ~> (pc = "command")

==============================================================================
