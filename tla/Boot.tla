-------------------------------- MODULE Boot ---------------------------------
(***************************************************************************)
(* kernel_main (kernel.c) from init_idt to its endless loop: interrupts    *)
(* arrive from the moment they are enabled, kernel_main waits for the      *)
(* timer, scans the PCI buses and lets the disk drivers look for their     *)
(* controllers.  What the other parts do in between is in their modules.   *)
(***************************************************************************)
EXTENDS Interrupts, Pci

CONSTANT MaxTicks       \* bound on the ticks of a wait: 250 and 150 in the code

ASSUME BootAssumption == MaxTicks \in Nat \ {0}

vars == <<int_vars, pci_vars>>

Init == InterruptsInit /\ PciInit

------------------------------------------------------------------------------
\* The two pictures of scrn_test, each shown for a while.
scrn_test ==
    /\ \/ wait_ticks("scrn_test", MaxTicks, "hello_world") /\ i' = i
       \/ wait_ticks("hello_world", MaxTicks, "pci") /\ i' = i
    /\ UNCHANGED pci_vars

pci_begins ==
    /\ InMain("pci") /\ pc' = "buses"
    /\ Machine
    /\ UNCHANGED <<hardware, cpu, handlers, i, after, masks, to_go>>

pci_check_all_busses ==
    /\ InMain("buses")
    /\ IF MoreToCheck THEN pci_check_device /\ pc' = "buses"
                      ELSE pc' = "ahci" /\ UNCHANGED pci_vars
    /\ UNCHANGED <<hardware, cpu, handlers, i, after, masks, to_go>>

\* The ports of the controller are in module Ahci.
init_ahci ==
    /\ InMain("ahci") /\ pc' = "ata"
    /\ find_sata
    /\ UNCHANGED <<hardware, cpu, handlers, i, after, masks, to_go>>

init_ata ==
    /\ InMain("ata") /\ find_ide
    /\ pc' = IF ide' = <<>> THEN "loop" ELSE "ide"
    /\ i' = 0
    /\ UNCHANGED <<hardware, cpu, handlers, after, masks, to_go>>

\* Each of the two drives is selected, then asked to identify itself, with
\* one tick to answer, and one more if it answers as a packet device (module
\* Ata has what is said).
ide_init ==
    /\ \/ i + 1 >= 4 /\ wait_ticks("ide", 1, "loop")
       \/ i + 1 < 6  /\ wait_ticks("ide", 1, "ide")
    /\ i' = i + 1
    /\ UNCHANGED pci_vars

\* console_loop and the progress bar, forever.
main_loop == InMain("loop") /\ UNCHANGED vars

Main ==
    \/ /\ init_idt \/ init_keyboard \/ init_timer \/ wait_ends
       /\ UNCHANGED pci_vars
    \/ scrn_test \/ pci_begins \/ pci_check_all_busses \/ init_ahci \/ init_ata \/ ide_init
    \/ main_loop

DeliverAny == \E irq \in Lines : Deliver(irq)

Hardware ==
    \/ Tick \/ DeliverAny
    \/ \E irq \in Lines \ {0} : DeviceRaises(irq)
    \/ \E chip \in Chips : SpuriousInterrupt(chip)

Next ==
    \/ Main
    \/ (Handler \/ Hardware) /\ UNCHANGED pci_vars

\* The timer ticks, an interrupt that the processor may take is taken, and a
\* handler goes on.  A handler is done long before the next tick, so that
\* kernel_main, interrupted again and again, still goes on in between.
Fairness ==
    /\ SF_vars(Main)
    /\ WF_vars(Handler /\ UNCHANGED pci_vars)
    /\ WF_vars(Tick /\ UNCHANGED pci_vars)
    /\ WF_vars(DeliverAny /\ UNCHANGED pci_vars)

Spec == Init /\ [][Next]_vars /\ Fairness

------------------------------------------------------------------------------
(* Properties.                                                              *)

InSetup == pc \in {"mask", "save_masks", "init_pic", "unmask", "sti"}

\* An interrupt of a device, a late or a spurious one, never arrives as an
\* exception: isr_handler, which stops the machine, is for exceptions only.
NoIrqIsException == vector # None => vector \in IDT \ Exceptions

\* When no handler runs nothing is left in service, at either controller, so
\* that no line is blocked by one that was not acknowledged at both.
NothingInService ==
    ~InSetup /\ vector = None => \A chip \in Chips : pic[chip].isr = {}

\* Booting reaches the main loop: every wait for the timer ends, whatever
\* other interrupts arrive.
BootEnds == <>(pc = "loop")

\* With a host controller of one function, the scan lists every function of
\* bus 0 once, in order, and each driver has the first controller of its
\* class, if there is one.
ScanIsComplete ==
    pc \in {"ide", "loop"} /\ SingleHost =>
        /\ ToSet(device_list) = OnBus0(Classes)
        /\ \A j, k \in DOMAIN device_list :
              j < k => Earlier(device_list[j], device_list[k])
        /\ IsFirst(sata, SATA)
        /\ IsFirst(ide, IDE)
==============================================================================
