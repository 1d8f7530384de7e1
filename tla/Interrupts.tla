----------------------------- MODULE Interrupts ------------------------------
(***************************************************************************)
(* Interrupts from the line of a device to its handler: the two interrupt  *)
(* controllers (hardware, outside the code), their set-up by init_idt and  *)
(* init_pic (interrupts/idt.c), the dispatcher (interrupts/handlers.c) and *)
(* the timer (drivers/timer.c).  The firmware leaves the controllers with  *)
(* its own vectors, which are those of exceptions.                         *)
(***************************************************************************)
EXTENDS Integers, Sequences, FiniteSets, FiniteSetsExt

CONSTANTS
    Lines,          \* the lines (0 to 15) on which devices interrupt
    MaxRaised,      \* bound on interrupts other than the timer's
    MaxSpurious,    \* bound on spurious interrupts
    None

VARIABLES
    pic,            \* the two controllers
    raised, spurious,
    IF_flag,        \* whether the processor takes interrupts
    vector,         \* the interrupt whose handler runs, or None
    stage,          \* what irq_handler does next: "call" or "eoi"
    handlers,       \* handlers[], by vector
    pc, i,          \* where kernel_main is; its loop counter
    after,          \* where it goes on after wait_ticks
    masks,          \* mask_1 and mask_2 of init_pic
    to_go           \* stop - time of wait_ticks

hardware == <<pic, raised, spurious>>
cpu      == <<IF_flag, vector, stage>>
int_vars == <<hardware, cpu, handlers, pc, i, after, masks, to_go>>

Chips == {"PIC1", "PIC2"}
Levels == 0 .. 7
CASCADE == 2            \* PIC2 interrupts through this line of PIC1

ASSUME InterruptsAssumption ==
    /\ Lines \subseteq (0 .. 15) \ {CASCADE}
    /\ MaxRaised \in Nat /\ MaxSpurious \in Nat
    /\ None \notin Int

IDT == 0 .. 47          \* the entries that init_idt fills
Exceptions == 0 .. 31   \* those that lead to isr_handler
IRQ0 == 32

\* The firmware's vectors and some masks of its own; interrupts are off.
InterruptsInit ==
    /\ \E m \in {{}, Levels} :
          pic = [chip \in Chips |->
                    [offset |-> IF chip = "PIC1" THEN 8 ELSE 112, icw |-> 0,
                     imr |-> m, irr |-> {}, isr |-> {}]]
    /\ raised = 0 /\ spurious = 0
    /\ IF_flag = FALSE /\ vector = None /\ stage = "call"
    /\ handlers = [v \in IDT |-> None]
    /\ pc = "mask" /\ i = 0 /\ after = "loop"
    /\ masks = <<{}, {}>>
    /\ to_go = 0

Chip(irq)  == IF irq < 8 THEN "PIC1" ELSE "PIC2"
Level(irq) == irq % 8

------------------------------------------------------------------------------
(* External: the controllers, after the data sheet of the 8259.             *)

\* The requests that a controller would pass on: unmasked and above what is
\* in service.
Waiting(chip, irr) ==
    {l \in irr \ pic[chip].imr : \A s \in pic[chip].isr : l < s}

Slave == Waiting("PIC2", pic["PIC2"].irr)

Master == Waiting("PIC1", pic["PIC1"].irr \cup IF Slave = {} THEN {} ELSE {CASCADE})

Raise(irq) ==
    /\ pic' = [pic EXCEPT ![Chip(irq)].irr = @ \cup {Level(irq)}]
    /\ UNCHANGED <<spurious, cpu, handlers, pc, i, after, masks, to_go>>

DeviceRaises(irq) ==
    /\ raised < MaxRaised /\ raised' = raised + 1
    /\ Raise(irq)

\* The timer ticks on and on; its handler is done before the next tick.
Tick ==
    /\ vector # IRQ0 /\ 0 \notin pic["PIC1"].irr
    /\ Raise(0) /\ UNCHANGED raised

\* What a write does to a controller.  The first initialisation word clears
\* it; it then expects three more.
Written(chip, port, value) ==
    CASE port = "command" /\ value = "INIT" ->
            [pic[chip] EXCEPT !.icw = 2, !.imr = {}, !.irr = {}, !.isr = {}]
      [] port = "command" /\ value = "EOI" ->
            [pic[chip] EXCEPT !.isr = IF @ = {} THEN @ ELSE @ \ {Min(@)}]
      [] port = "data" /\ pic[chip].icw = 0 -> [pic[chip] EXCEPT !.imr = value]
      [] port = "data" /\ pic[chip].icw = 2 ->
            [pic[chip] EXCEPT !.offset = value, !.icw = 3]
      [] port = "data" /\ pic[chip].icw \in 3 .. 4 ->
            [pic[chip] EXCEPT !.icw = (@ + 1) % 5]

out(chip, port, value) ==
    /\ pic' = [pic EXCEPT ![chip] = Written(chip, port, value)]
    /\ UNCHANGED <<raised, spurious>>

\* The processor acknowledges the highest request and jumps to its vector.
Enter(v) ==
    /\ vector' = v /\ stage' = "call" /\ IF_flag' = FALSE
    /\ UNCHANGED <<raised, handlers, pc, i, after, masks, to_go>>

Serve(chip, level) ==
    [pic[chip] EXCEPT !.irr = @ \ {level}, !.isr = @ \cup {level}]

Deliver(irq) ==
    /\ IF_flag
    /\ \/ /\ irq < 8 /\ Master # {} /\ Min(Master) = irq
          /\ pic' = [pic EXCEPT !["PIC1"] = Serve("PIC1", irq)]
       \/ /\ irq >= 8 /\ Master # {} /\ Min(Master) = CASCADE
          /\ Slave # {} /\ Min(Slave) = Level(irq)
          /\ pic' = [pic EXCEPT !["PIC1"] = Serve("PIC1", CASCADE),
                                !["PIC2"] = Serve("PIC2", Level(irq))]
    /\ Enter(pic[Chip(irq)].offset + Level(irq))
    /\ UNCHANGED spurious

\* A request that went away is acknowledged as the lowest line, with nothing
\* in service at the controller that it came from.
SpuriousInterrupt(chip) ==
    /\ IF_flag /\ Master = {} /\ CASCADE \notin pic["PIC1"].imr
    /\ spurious < MaxSpurious /\ spurious' = spurious + 1
    /\ pic' = IF chip = "PIC1" THEN pic
              ELSE [pic EXCEPT !["PIC1"] = Serve("PIC1", CASCADE)]
    /\ Enter(pic[chip].offset + 7)

------------------------------------------------------------------------------
(* The handlers.  An exception has none here: its vector leads to           *)
(* isr_handler, which stops the machine (module Commands).                  *)

inc_time == to_go' = IF to_go = 0 THEN 0 ELSE to_go - 1

call_handler ==
    /\ vector \in IDT \ Exceptions /\ stage = "call"
    /\ IF handlers[vector] = "inc_time" THEN inc_time ELSE UNCHANGED to_go
    /\ stage' = "eoi"
    /\ UNCHANGED <<hardware, IF_flag, vector, handlers, pc, i, after, masks>>

\* Mutant of FromSlave: one vector too many.
FromSlaveLate == vector > 40

\* if(status.interrupt_number >= 40) // IRQ 8
FromSlave == vector >= 40

\* The end of irq_handler, and iret.
end_of_interrupt ==
    /\ vector # None /\ stage = "eoi"
    /\ pic' = [pic EXCEPT
          !["PIC2"] = IF FromSlave THEN Written("PIC2", "command", "EOI") ELSE @,
          !["PIC1"] = Written("PIC1", "command", "EOI")]
    /\ vector' = None /\ stage' = "call" /\ IF_flag' = TRUE
    /\ UNCHANGED <<raised, spurious, handlers, pc, i, after, masks, to_go>>

Handler == call_handler \/ end_of_interrupt

------------------------------------------------------------------------------
(* init_idt, with interrupts off.                                           *)

InMain(label) == pc = label /\ vector = None

\* pic_mask_irq: for each irq in turn.
pic_mask_irq ==
    /\ InMain("mask")
    /\ out(Chip(i), "data", pic[Chip(i)].imr \cup {Level(i)})
    /\ i' = (i + 1) % 16
    /\ pc' = IF i = 15 THEN "save_masks" ELSE "mask"
    /\ UNCHANGED <<cpu, handlers, after, masks, to_go>>

save_masks ==
    /\ InMain("save_masks") /\ pc' = "init_pic" /\ i' = 1
    /\ masks' = <<pic["PIC1"].imr, pic["PIC2"].imr>>
    /\ UNCHANGED <<hardware, cpu, handlers, after, to_go>>

\* Mutant of InitWords: the first controller keeps the firmware's vectors.
InitWordsAt8 ==
    << <<"PIC1", "command", "INIT">>, <<"PIC2", "command", "INIT">>,
       <<"PIC1", "data", 8>>,         <<"PIC2", "data", 40>>,
       <<"PIC1", "data", 4>>,         <<"PIC2", "data", 2>>,
       <<"PIC1", "data", 1>>,         <<"PIC2", "data", 1>>,
       <<"PIC1", "data", masks[1]>>,  <<"PIC2", "data", masks[2]>> >>

\* The writes of init_pic(0x20, 0x28), in order.
InitWords ==
    << <<"PIC1", "command", "INIT">>, <<"PIC2", "command", "INIT">>,
       <<"PIC1", "data", 32>>,        <<"PIC2", "data", 40>>,
       <<"PIC1", "data", 4>>,         <<"PIC2", "data", 2>>,
       <<"PIC1", "data", 1>>,         <<"PIC2", "data", 1>>,
       <<"PIC1", "data", masks[1]>>,  <<"PIC2", "data", masks[2]>> >>

init_pic ==
    /\ InMain("init_pic")
    /\ out(InitWords[i][1], InitWords[i][2], InitWords[i][3])
    /\ IF i = Len(InitWords) THEN pc' = "unmask" /\ i' = 0
                             ELSE pc' = "init_pic" /\ i' = i + 1
    /\ UNCHANGED <<cpu, handlers, after, masks, to_go>>

Unmasked == pic[Chip(i)].imr \ {Level(i)}

pic_unmask_irq ==
    /\ InMain("unmask")
    /\ out(Chip(i), "data", Unmasked)
    /\ i' = (i + 1) % 16
    /\ pc' = IF i = 15 THEN "sti" ELSE "unmask"
    /\ UNCHANGED <<cpu, handlers, after, masks, to_go>>

sti ==
    /\ InMain("sti") /\ pc' = "init_keyboard"
    /\ IF_flag' = TRUE
    /\ UNCHANGED <<hardware, vector, stage, handlers, i, after, masks, to_go>>

init_idt == pic_mask_irq \/ save_masks \/ init_pic \/ pic_unmask_irq \/ sti

------------------------------------------------------------------------------
(* What kernel_main does with interrupts.                                   *)

add_handler(v, handler) == handlers' = [handlers EXCEPT ![v] = handler]

init_keyboard ==
    /\ InMain("init_keyboard") /\ pc' = "init_timer"
    /\ add_handler(IRQ0 + 1, "handle_key")
    /\ UNCHANGED <<hardware, cpu, i, after, masks, to_go>>

\* Mutant of TimerVector: the line instead of its vector.
TimerLine == 0

TimerVector == IRQ0

init_timer ==
    /\ InMain("init_timer") /\ pc' = "scrn_test"
    /\ add_handler(TimerVector, "inc_time")
    /\ UNCHANGED <<hardware, cpu, i, after, masks, to_go>>

\* wait_ticks(n), called by kernel_main at from, which goes on at label: it
\* spins until time reaches stop.
wait_ticks(from, n, label) ==
    /\ InMain(from)
    /\ to_go' = n /\ after' = label /\ pc' = "wait"
    /\ UNCHANGED <<hardware, cpu, handlers, masks>>

wait_ends ==
    /\ InMain("wait") /\ to_go = 0
    /\ pc' = after
    /\ UNCHANGED <<hardware, cpu, handlers, i, after, masks, to_go>>

==============================================================================
