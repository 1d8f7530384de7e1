---------------------------- MODULE ConsoleProofs ----------------------------
(***************************************************************************)
(* Proofs that input_mode keeps the keyboard interrupt and the main loop   *)
(* apart, for every set of commands, every output length and every number  *)
(* of keys.                                                                *)
(***************************************************************************)
EXTENDS Console, TLAPS

Printing == {"kprintf", "mem_end", "kprintch", "cmem_end"}

\* Where the main loop is, a kprintf counted as part of what follows it.
Stage == IF pc \in Printing THEN after ELSE pc

\* A command occupies the slot from Enter until free_slot, and no prompt is
\* printed in between.
SlotInv ==
    /\ Stage \in {"command", "free_args", "free_slot"} => hasCommand
    /\ Stage \in {"init_console", "boot_input", "open_boot", "enable_input",
                  "open_input"} => ~ hasCommand
    /\ hasCommand /\ pc # "free_slot" => pending # NoCommand
    /\ input_mode => ~ hasCommand

\* The input line is empty while input is closed.
LineInv == ~ input_mode => buffer_len = 0

\* kprintch is called only for a character that is left to print.
PrintInv == pc \in {"mem_end", "kprintch", "cmem_end"} => left > 0

\* Why each of the properties survives a step of either actor: the interrupt
\* acts only when input_mode is set, the main loop prints only when it is not.
IInv ==
    /\ TypeOK /\ Exclusion /\ LoadedPointerCurrent /\ ColorsInStep
    /\ LineIsOnScreen /\ SlotInv /\ LineInv /\ PrintInv

\* The boot starts in the invariant.
LEMMA InitIInv == Init => IInv
<1> SUFFICES ASSUME Init PROVE IInv
  OBVIOUS
<1>1. TypeOK
  <2>1. pc \in Labels /\ after = "init_console" /\ pending = NoCommand
    BY DEF Init, Labels
  <2>2. {left, reg, mem_end, cmem_end, buffer_len, prompt_end, keys} \subseteq Nat
    BY DEF Init
  <2>3. /\ input_mode \in BOOLEAN /\ update_console \in BOOLEAN
        /\ has_initalised \in BOOLEAN /\ hasCommand \in BOOLEAN
    BY Zenon DEF Init
  <2>4. QED
    BY <2>1, <2>2, <2>3 DEF TypeOK
<1>2. Exclusion /\ LineIsOnScreen /\ LineInv
  BY DEF Init, Exclusion, LineIsOnScreen, LineInv
<1>3. LoadedPointerCurrent /\ ColorsInStep /\ PrintInv
  BY DEF Init, LoadedPointerCurrent, ColorsInStep, PrintInv
<1>4. SlotInv
  BY DEF Init, SlotInv, Stage, Printing
<1>5. QED
  BY <1>1, <1>2, <1>3, <1>4 DEF IInv

\* The interrupt finds the main loop outside kprintf and outside the heap.
LEMMA InterruptIInv == IInv /\ Interrupt => IInv'
<1> SUFFICES ASSUME IInv, Interrupt PROVE IInv'
  OBVIOUS
<1> USE ConsoleAssumption
        DEF IInv, TypeOK, Exclusion, LoadedPointerCurrent, ColorsInStep,
            LineIsOnScreen, SlotInv, LineInv, PrintInv, Stage, Printing,
            Labels, MainOwns, KeyStruck, Echo, clear_buffer, add_pending_command,
            queue
<1>1. CASE type_char
  BY <1>1 DEF type_char
<1>2. CASE backspace
  BY <1>2 DEF backspace
<1>3. CASE enter_empty
  BY <1>3 DEF enter_empty
<1>4. CASE enter_unknown
  BY <1>4 DEF enter_unknown
<1>5. ASSUME NEW c \in Commands, enter_command(c)
      PROVE  IInv'
  <2>1. pc \notin MainOwns /\ pc' = pc /\ after' = after
    BY <1>5 DEF enter_command
  <2>2. SlotInv'
    BY <1>5, <2>1 DEF enter_command
  <2>3. TypeOK'
    <3>1. pc' \in Labels /\ after' = after /\ pending' \in Commands
      BY <1>5 DEF enter_command
    <3>2. {left', reg', mem_end', cmem_end', buffer_len', prompt_end', keys'}
              \subseteq Nat
      BY <1>5 DEF enter_command
    <3>3. /\ input_mode' \in BOOLEAN /\ update_console' \in BOOLEAN
          /\ has_initalised' \in BOOLEAN /\ hasCommand' \in BOOLEAN
      BY <1>5, Zenon DEF enter_command
    <3>4. QED
      BY <3>1, <3>2, <3>3
  <2>4. Exclusion' /\ LineIsOnScreen' /\ LineInv'
    BY <1>5 DEF enter_command
  <2>5. LoadedPointerCurrent' /\ ColorsInStep' /\ PrintInv'
    BY <1>5, <2>1 DEF enter_command
  <2>6. QED
    BY <2>2, <2>3, <2>4, <2>5
<1>6. QED
  BY <1>1, <1>2, <1>3, <1>4, <1>5 DEF Interrupt

\* The main loop opens input only when it has printed the prompt.
LEMMA MainIInv == IInv /\ MainStep => IInv'
<1> SUFFICES ASSUME IInv, MainStep PROVE IInv'
  OBVIOUS
<1> USE ConsoleAssumption
        DEF IInv, TypeOK, Exclusion, LoadedPointerCurrent, ColorsInStep,
            LineIsOnScreen, SlotInv, LineInv, PrintInv, Stage, Printing,
            Labels, MainOwns, Go, kprintf, screen, flags, queue
<1>1. CASE init_console
  BY <1>1 DEF init_console
<1>2. CASE load_mem_end
  BY <1>2 DEF load_mem_end
<1>3. CASE store_mem_end
  BY <1>3 DEF store_mem_end
<1>4. CASE load_cmem_end
  BY <1>4 DEF load_cmem_end
<1>5. CASE store_cmem_end
  BY <1>5 DEF store_cmem_end
<1>6. CASE kprintf_returns
  BY <1>6 DEF kprintf_returns
<1>7. CASE enable_input
  BY <1>7 DEF enable_input
<1>8. CASE open_input
  BY <1>8 DEF open_input
<1>9. CASE console_loop
  BY <1>9 DEF console_loop
<1>10. CASE nothing_to_update
  BY <1>10 DEF nothing_to_update
<1>11. CASE run_pending_command
  BY <1>11 DEF run_pending_command
<1>12. CASE command
  BY <1>12 DEF command
<1>13. CASE clear
  BY <1>13 DEF clear
<1>14. CASE free_args
  BY <1>14 DEF free_args
<1>15. CASE free_slot
  BY <1>15 DEF free_slot
<1>16. CASE redraw
  BY <1>16 DEF redraw
<1>17. CASE redrawn
  BY <1>17 DEF redrawn
<1>18. QED
  BY <1>1, <1>2, <1>3, <1>4, <1>5, <1>6, <1>7, <1>8, <1>9, <1>10, <1>11,
     <1>12, <1>13, <1>14, <1>15, <1>16, <1>17
  DEF MainStep

\* The invariant holds in every reachable state.
THEOREM Invariance == Spec => []IInv
<1>1. IInv /\ UNCHANGED vars => IInv'
  BY DEF IInv, TypeOK, Exclusion, LoadedPointerCurrent, ColorsInStep,
         LineIsOnScreen, SlotInv, LineInv, PrintInv, Stage, vars, screen,
         flags, queue
<1>2. IInv /\ [Next]_vars => IInv'
  BY <1>1, InterruptIInv, MainIInv DEF Next
<1>3. QED
  BY InitIInv, <1>2, PTL DEF Spec

\* The interrupt and the main loop are never both in kprintf or in the heap.
THEOREM MutualExclusion == Spec => []Exclusion
<1>1. IInv => Exclusion
  BY DEF IInv
<1>2. QED
  BY <1>1, Invariance, PTL

\* No interrupt moves the text pointers between their load and their store,
\* and every character gets the color that was set for it.
THEOREM PrintingIsAtomic == Spec => [](LoadedPointerCurrent /\ ColorsInStep)
<1>1. IInv => LoadedPointerCurrent /\ ColorsInStep
  BY DEF IInv
<1>2. QED
  BY <1>1, Invariance, PTL

\* The input line is the text after the prompt, so that backspace, which moves
\* both ends back, never eats the prompt.
THEOREM BackspaceSparesPrompt == Spec => []LineIsOnScreen
<1>1. IInv => LineIsOnScreen
  BY DEF IInv
<1>2. QED
  BY <1>1, Invariance, PTL

\* A command is stored only in a free slot, and the one that runs is there.
THEOREM OneCommandAtATime == Spec => []SlotFree
<1>1. IInv => SlotFree
  BY DEF IInv, SlotInv, SlotFree, Stage, Printing
<1>2. QED
  BY <1>1, Invariance, PTL

==============================================================================
