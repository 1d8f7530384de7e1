----------------------------- MODULE BootProofs ------------------------------
(***************************************************************************)
(* Proofs about interrupts during and after the boot, for any lines and    *)
(* devices: none arrives under the vector of an exception, and none stays  *)
(* in service when its handler is done.  And, for any machine with a host  *)
(* controller of one function, about the scan of the PCI buses.            *)
(***************************************************************************)
EXTENDS Boot, WellFoundedInduction, TLAPS

\* The interrupt in service is the only one there is to acknowledge.
LEMMA MinOfOne ==
    ASSUME NEW x \in Int
    PROVE  {x} \ {Min({x})} = {}
BY DEF Min

------------------------------------------------------------------------------
(* The invariant.                                                           *)

\* What the controllers are, as far as the proofs need it.
Registers == [offset : Int, icw : 0 .. 4, imr : SUBSET Levels,
              irr : SUBSET Levels, isr : SUBSET Levels]

PicType == pic \in [Chips -> Registers]

\* How far the initialisation of each controller has come at each of the
\* writes of init_pic.
Icw1 == <<0, 2, 2, 3, 3, 4, 4, 0, 0, 0>>
Icw2 == <<0, 0, 2, 2, 3, 3, 4, 4, 0, 0>>

SetUp ==
    IF pc = "init_pic"
    THEN /\ i \in 1 .. 10
         /\ pic["PIC1"].icw = Icw1[i] /\ pic["PIC2"].icw = Icw2[i]
         /\ i > 3 => pic["PIC1"].offset = 32
         /\ i > 4 => pic["PIC2"].offset = 40
    ELSE pic["PIC1"].icw = 0 /\ pic["PIC2"].icw = 0

\* From init_pic on the vectors are those of init_pic's arguments.
Vectors ==
    pc \notin {"mask", "save_masks", "init_pic"} =>
        pic["PIC1"].offset = 32 /\ pic["PIC2"].offset = 40

\* Interrupts are off during the set-up and while a handler runs.
Disabled ==
    /\ IF_flag \in BOOLEAN
    /\ InSetup => IF_flag = FALSE
    /\ InSetup => vector = None
    /\ vector # None => IF_flag = FALSE

\* Where kernel_main is within its loops.
Control ==
    /\ pc \in {"mask", "unmask"} => i \in 0 .. 15
    /\ after \in {"hello_world", "pci", "ide", "loop"}
    /\ masks[1] \subseteq Levels /\ masks[2] \subseteq Levels

\* What is in service is the interrupt whose handler runs, at the controllers
\* to which its end will be sent; of a spurious one there is nothing.
Service ==
    IF vector = None
    THEN pic["PIC1"].isr = {} /\ pic["PIC2"].isr = {}
    ELSE \/ /\ vector \in 32 .. 39
            /\ pic["PIC1"].isr \in {{}, {vector - 32}} /\ pic["PIC2"].isr = {}
         \/ /\ vector \in 40 .. 47
            /\ pic["PIC1"].isr = {CASCADE} /\ pic["PIC2"].isr \in {{}, {vector - 40}}

\* The labels of kernel_main after the set-up.
MainLabels == {"init_keyboard", "init_timer", "scrn_test", "hello_world", "pci",
               "buses", "ahci", "ata", "ide", "wait", "loop"}

IInv == PicType /\ SetUp /\ Vectors /\ Disabled /\ Control /\ Service

\* The firmware's vectors and the first step of init_idt satisfy the invariant.
LEMMA InitIInv == Init => IInv
<1> SUFFICES ASSUME Init PROVE IInv
  OBVIOUS
<1>1. PICK m \in {{}, Levels} :
          pic = [chip \in Chips |->
                    [offset |-> IF chip = "PIC1" THEN 8 ELSE 112, icw |-> 0,
                     imr |-> m, irr |-> {}, isr |-> {}]]
  BY DEF Init, InterruptsInit
<1>2. /\ pc = "mask" /\ i = 0 /\ after = "loop"
      /\ IF_flag = FALSE /\ vector = None /\ masks = <<{}, {}>>
  BY DEF Init, InterruptsInit
<1>3. PicType
  BY <1>1 DEF PicType, Registers, Chips, Levels
<1>4. SetUp /\ Service
  BY <1>1, <1>2 DEF SetUp, Service, Chips
<1>5. Vectors /\ Control
  BY <1>2 DEF Vectors, Control
<1>6. Disabled
  BY <1>2, Zenon DEF Disabled
<1>7. QED
  BY <1>3, <1>4, <1>5, <1>6 DEF IInv

------------------------------------------------------------------------------
(* kernel_main.                                                             *)

\* A step of kernel_main after the set-up that leaves the controllers and the
\* processor alone.
LEMMA QuietStep ==
    ASSUME IInv, ~ InSetup, pc' \in MainLabels,
           after' \in {"hello_world", "pci", "ide", "loop"},
           UNCHANGED <<pic, IF_flag, vector, masks>>
    PROVE  IInv'
<1>1. pc' \notin {"mask", "save_masks", "init_pic", "unmask", "sti"}
  BY DEF MainLabels
<1>2. pc \notin {"mask", "save_masks", "init_pic"}
  BY DEF InSetup
<1>3. PicType' /\ SetUp' /\ Vectors' /\ Control'
  BY <1>1, <1>2 DEF IInv, PicType, SetUp, Vectors, Control
<1>4. Disabled'
  BY <1>1, Zenon DEF IInv, Disabled, InSetup
<1>5. Service'
  BY DEF IInv, Service
<1>6. QED
  BY <1>3, <1>4, <1>5 DEF IInv

------------------------------------------------------------------------------
(* init_idt.                                                                *)

\* What each kind of write does to a controller.
LEMMA WriteInit ==
    ASSUME NEW chip \in Chips
    PROVE  Written(chip, "command", "INIT") =
              [pic[chip] EXCEPT !.icw = 2, !.imr = {}, !.irr = {}, !.isr = {}]
BY DEF Written

\* A write to a controller's data port outside an initialisation sets the mask.
LEMMA WriteMask ==
    ASSUME NEW chip \in Chips, NEW m, pic[chip].icw = 0
    PROVE  Written(chip, "data", m) = [pic[chip] EXCEPT !.imr = m]
BY DEF Written

\* The first word after the command of init_pic is the vector offset.
LEMMA WriteOffset ==
    ASSUME NEW chip \in Chips, NEW v, pic[chip].icw = 2
    PROVE  Written(chip, "data", v) = [pic[chip] EXCEPT !.offset = v, !.icw = 3]
BY DEF Written

\* The words after it only bring the initialisation forward.
LEMMA WriteWord ==
    ASSUME NEW chip \in Chips, NEW v, pic[chip].icw \in 3 .. 4
    PROVE  Written(chip, "data", v) = [pic[chip] EXCEPT !.icw = (@ + 1) % 5]
BY DEF Written

\* And it leaves a controller of the same type.
LEMMA RegistersAfterMask ==
    ASSUME NEW r \in Registers, NEW m \in SUBSET Levels
    PROVE  LET w == [r EXCEPT !.imr = m]
           IN  w \in Registers /\ w.icw = r.icw /\ w.isr = r.isr /\ w.offset = r.offset
BY DEF Registers

\* What such a word leaves of the registers.
LEMMA RegistersAfterWord ==
    ASSUME NEW r \in Registers, NEW n \in 0 .. 4
    PROVE  LET w == [r EXCEPT !.icw = n]
           IN  w \in Registers /\ w.icw = n /\ w.isr = r.isr /\ w.offset = r.offset
BY DEF Registers

\* What the offset leaves of the registers.
LEMMA RegistersAfterOffset ==
    ASSUME NEW r \in Registers, NEW v \in Int
    PROVE  LET w == [r EXCEPT !.offset = v, !.icw = 3]
           IN  w \in Registers /\ w.icw = 3 /\ w.isr = r.isr /\ w.offset = v
<1> DEFINE q == [r EXCEPT !.offset = v]
<1>1. q \in Registers /\ q.isr = r.isr /\ q.offset = v
  BY DEF Registers
<1> HIDE DEF q
<1>2. LET w == [q EXCEPT !.icw = 3]
      IN  w \in Registers /\ w.icw = 3 /\ w.isr = r.isr /\ w.offset = v
  <2>1. 3 \in 0 .. 4
    OBVIOUS
  <2>2. QED
    BY <1>1, <2>1, RegistersAfterWord
<1>3. QED
  BY <1>2 DEF q

\* What the command that begins an initialisation leaves of the registers.
LEMMA RegistersAfterInit ==
    ASSUME NEW r \in Registers
    PROVE  LET w == [r EXCEPT !.icw = 2, !.imr = {}, !.irr = {}, !.isr = {}]
           IN  w \in Registers /\ w.icw = 2 /\ w.isr = {} /\ w.offset = r.offset
<1> DEFINE p == [r EXCEPT !.icw = 2]
           q == [p EXCEPT !.imr = {}]
           t == [q EXCEPT !.irr = {}]
           w == [t EXCEPT !.isr = {}]
<1>1. p \in Registers /\ p.icw = 2 /\ p.offset = r.offset
  <2>1. 2 \in 0 .. 4
    OBVIOUS
  <2>2. QED
    BY <2>1, RegistersAfterWord
<1> HIDE DEF p
<1>2. q \in Registers /\ q.icw = 2 /\ q.offset = r.offset
  BY <1>1, RegistersAfterMask
<1> HIDE DEF q
<1>3. t \in Registers /\ t.icw = 2 /\ t.offset = r.offset
  BY <1>2 DEF Registers
<1> HIDE DEF t
<1>4. w \in Registers /\ w.icw = 2 /\ w.isr = {} /\ w.offset = r.offset
  BY <1>3 DEF Registers
<1>5. QED
  BY <1>4 DEF p, q, t

\* A step of the set-up leaves the processor alone, with interrupts off.
LEMMA SetupControl ==
    ASSUME IInv, InSetup, UNCHANGED <<IF_flag, vector>>
    PROVE  Disabled'
BY Zenon DEF IInv, Disabled, InSetup

\* Masking or unmasking a line changes one mask only.
LEMMA MaskStep ==
    ASSUME IInv, pc \in {"mask", "unmask"},
           UNCHANGED <<IF_flag, vector, masks, after>>,
           NEW m \in SUBSET Levels, out(Chip(i), "data", m),
           i' = (i + 1) % 16,
           \/ pc = "mask" /\ pc' \in {"mask", "save_masks"}
           \/ pc = "unmask" /\ pc' \in {"unmask", "sti"}
    PROVE  IInv'
<1>1. Chip(i) \in Chips /\ i \in 0 .. 15
  BY DEF IInv, Control, Chip, Chips
<1>2. pic[Chip(i)].icw = 0
  BY <1>1 DEF IInv, SetUp, Chips
<1>3. pic' = [pic EXCEPT ![Chip(i)] = [pic[Chip(i)] EXCEPT !.imr = m]]
  BY <1>1, <1>2, WriteMask DEF out
<1>4. PicType'
  BY <1>1, <1>3, RegistersAfterMask DEF IInv, PicType
<1>5. \A chip \in Chips : /\ pic'[chip].icw = pic[chip].icw
                          /\ pic'[chip].offset = pic[chip].offset
                          /\ pic'[chip].isr = pic[chip].isr
  BY <1>1, <1>3 DEF IInv, PicType
<1>6. SetUp' /\ Vectors'
  BY <1>5 DEF IInv, SetUp, Vectors, Chips
<1>7. PICK j \in 0 .. 15 : i' = j
  BY <1>1
<1>8. Control'
  BY <1>7 DEF IInv, Control
<1>9. Disabled'
  BY SetupControl, Zenon DEF InSetup
<1>10. Service'
  BY <1>5 DEF IInv, Service, Chips
<1>11. QED
  BY <1>4, <1>6, <1>8, <1>9, <1>10 DEF IInv

\* Each of the sixteen lines is a level of one controller.
LEMMA LevelType ==
    ASSUME NEW k \in 0 .. 15
    PROVE  Level(k) \in Levels /\ Chip(k) \in Chips
BY DEF Level, Levels, Chip, Chips

\* Masking a line in init_idt preserves the invariant.
LEMMA pic_mask_irqIInv ==
    ASSUME IInv, pic_mask_irq
    PROVE  IInv'
<1>1. i \in 0 .. 15 /\ pc = "mask"
  BY DEF IInv, Control, pic_mask_irq, InMain
<1>2. pic[Chip(i)].imr \cup {Level(i)} \in SUBSET Levels
  BY <1>1, LevelType DEF IInv, PicType, Registers
<1>3. QED
  BY <1>1, <1>2, MaskStep DEF pic_mask_irq, cpu

\* Unmasking a line in init_idt preserves the invariant.
LEMMA pic_unmask_irqIInv ==
    ASSUME IInv, pic_unmask_irq
    PROVE  IInv'
<1>1. i \in 0 .. 15 /\ pc = "unmask"
  BY DEF IInv, Control, pic_unmask_irq, InMain
<1>2. Unmasked \in SUBSET Levels
  BY <1>1, LevelType DEF IInv, PicType, Registers, Unmasked
<1>3. QED
  BY <1>1, <1>2, MaskStep DEF pic_unmask_irq, cpu

\* Reading the masks in init_pic preserves the invariant.
LEMMA save_masksIInv ==
    ASSUME IInv, save_masks
    PROVE  IInv'
<1>1. /\ pc = "save_masks" /\ pc' = "init_pic" /\ i' = 1
      /\ masks' = <<pic["PIC1"].imr, pic["PIC2"].imr>>
      /\ UNCHANGED <<pic, IF_flag, vector, after>>
  BY DEF save_masks, InMain, hardware, cpu
<1>2. PicType' /\ Service'
  BY <1>1 DEF IInv, PicType, Service
<1>3. SetUp' /\ Vectors'
  BY <1>1 DEF IInv, SetUp, Vectors, Icw1, Icw2
<1>4. Control'
  BY <1>1 DEF IInv, PicType, Registers, Control, Chips
<1>5. Disabled'
  BY <1>1, SetupControl, Zenon DEF InSetup
<1>6. QED
  BY <1>2, <1>3, <1>4, <1>5 DEF IInv

\* Enabling interrupts preserves the invariant: the set-up is complete.
LEMMA stiIInv ==
    ASSUME IInv, sti
    PROVE  IInv'
<1>1. /\ pc = "sti" /\ pc' = "init_keyboard" /\ IF_flag' = TRUE /\ vector = None
      /\ UNCHANGED <<pic, vector, i, after, masks>>
  BY DEF sti, InMain, hardware
<1>2. PicType' /\ Service' /\ SetUp' /\ Vectors' /\ Control'
  BY <1>1 DEF IInv, PicType, Service, SetUp, Vectors, Control
<1>3. Disabled'
  BY <1>1, Zenon DEF Disabled, InSetup
<1>4. QED
  BY <1>2, <1>3 DEF IInv

\* The writes of init_pic go to one controller each and follow the order in
\* which it expects them.
LEMMA init_picIInv ==
    ASSUME IInv, init_pic
    PROVE  IInv'
<1>1. /\ pc = "init_pic" /\ i \in 1 .. 10
      /\ pic["PIC1"].icw = Icw1[i] /\ pic["PIC2"].icw = Icw2[i]
      /\ i > 3 => pic["PIC1"].offset = 32
      /\ i > 4 => pic["PIC2"].offset = 40
      /\ pic["PIC1"].isr = {} /\ pic["PIC2"].isr = {} /\ vector = None
  BY Zenon DEF IInv, SetUp, Service, init_pic, InMain
<1> DEFINE chip == InitWords[i][1]
           word == Written(chip, InitWords[i][2], InitWords[i][3])
<1>2. pic' = [pic EXCEPT ![chip] = word]
  BY DEF init_pic, out
<1>3. /\ UNCHANGED <<IF_flag, vector, masks, after>>
      /\ IF i = 10 THEN pc' = "unmask" /\ i' = 0 ELSE pc' = "init_pic" /\ i' = i + 1
  BY DEF init_pic, InitWords, cpu
<1>4. /\ chip \in Chips
      /\ chip = IF i \in {1, 3, 5, 7, 9} THEN "PIC1" ELSE "PIC2"
      /\ InitWords[i][2] = IF i \in {1, 2} THEN "command" ELSE "data"
      /\ i \in {1, 2} => InitWords[i][3] = "INIT"
      /\ i \in {9, 10} => InitWords[i][3] = masks[i - 8]
      /\ i = 3 => InitWords[i][3] = 32
      /\ i = 4 => InitWords[i][3] = 40
  BY <1>1 DEF InitWords, Chips
<1>5. /\ word.isr = {}
      /\ word \in Registers
      /\ word.icw = IF chip = "PIC1" THEN <<0, 2, 2, 3, 3, 4, 4, 0, 0, 0, 0>>[i + 1]
                                     ELSE <<0, 0, 2, 2, 3, 3, 4, 4, 0, 0, 0>>[i + 1]
      /\ word.offset = IF i = 3 THEN 32 ELSE IF i = 4 THEN 40 ELSE pic[chip].offset
  <2>1. CASE i \in {1, 2}
    <3> HIDE DEF chip
    <3>0. word = Written(chip, "command", "INIT")
      BY <1>4, <2>1
    <3> HIDE DEF word
    <3>1. word = [pic[chip] EXCEPT !.icw = 2, !.imr = {}, !.irr = {}, !.isr = {}]
      BY <1>4, <3>0, WriteInit
    <3>2. pic[chip] \in Registers
      BY <1>4 DEF IInv, PicType
    <3>3. /\ word.isr = {} /\ word.icw = 2 /\ word.offset = pic[chip].offset
          /\ word \in Registers
      BY <3>1, <3>2, RegistersAfterInit
    <3>4. QED
      BY <1>1, <1>4, <2>1, <3>3 DEF Icw1, Icw2
  <2>2. CASE i \in {3, 4}
    <3>1. pic[chip].icw = 2
      BY <1>1, <1>4, <2>2 DEF Icw1, Icw2
    <3> HIDE DEF chip
    <3>2. word = Written(chip, "data", InitWords[i][3])
      BY <1>4, <2>2
    <3> HIDE DEF word
    <3>3. word = [pic[chip] EXCEPT !.offset = InitWords[i][3], !.icw = 3]
      BY <1>4, <3>1, <3>2, WriteOffset
    <3>4. pic[chip] \in Registers
      BY <1>4 DEF IInv, PicType
    <3>5. /\ word.isr = pic[chip].isr /\ word.icw = 3 /\ word.offset = InitWords[i][3]
          /\ word \in Registers
      <4>1. InitWords[i][3] \in Int
        BY <1>4, <2>2
      <4>2. QED
        BY <3>3, <3>4, <4>1, RegistersAfterOffset
    <3>6. QED
      BY <1>1, <1>4, <2>2, <3>5 DEF Icw1, Icw2
  <2>3. CASE i \in 5 .. 8
    <3>1. pic[chip].icw = IF i < 7 THEN 3 ELSE 4
      BY <1>1, <1>4, <2>3 DEF Icw1, Icw2
    <3> HIDE DEF chip
    <3>2. word = Written(chip, "data", InitWords[i][3])
      BY <1>4, <2>3
    <3> HIDE DEF word
    <3>3. word = [pic[chip] EXCEPT !.icw = (pic[chip].icw + 1) % 5]
      BY <1>4, <2>3, <3>1, <3>2, WriteWord
    <3>4. pic[chip] \in Registers /\ (pic[chip].icw + 1) % 5 = IF i < 7 THEN 4 ELSE 0
      BY <1>4, <2>3, <3>1 DEF IInv, PicType
    <3>5. /\ word.isr = pic[chip].isr /\ word.icw = (IF i < 7 THEN 4 ELSE 0)
          /\ word.offset = pic[chip].offset /\ word \in Registers
      <4>1. (IF i < 7 THEN 4 ELSE 0) \in 0 .. 4
        OBVIOUS
      <4>2. QED
        BY <3>3, <3>4, <4>1, RegistersAfterWord
    <3>6. QED
      BY <1>1, <1>4, <2>3, <3>5 DEF Icw1, Icw2
  <2>4. CASE i \in {9, 10}
    <3>1. pic[chip].icw = 0
      BY <1>1, <1>4, <2>4 DEF Icw1, Icw2
    <3> HIDE DEF chip
    <3>2. word = Written(chip, "data", InitWords[i][3])
      BY <1>4, <2>4
    <3> HIDE DEF word
    <3>3. word = [pic[chip] EXCEPT !.imr = InitWords[i][3]]
      BY <1>4, <3>1, <3>2, WriteMask
    <3>4. pic[chip] \in Registers /\ InitWords[i][3] \in SUBSET Levels
      BY <1>4, <2>4 DEF IInv, PicType, Control
    <3>5. /\ word.isr = pic[chip].isr /\ word.icw = pic[chip].icw
          /\ word.offset = pic[chip].offset /\ word \in Registers
      BY <3>3, <3>4, RegistersAfterMask
    <3>6. QED
      BY <1>1, <1>4, <2>4, <3>1, <3>5 DEF Icw1, Icw2
  <2>5. QED
    BY <1>1, <2>1, <2>2, <2>3, <2>4
<1> HIDE DEF chip, word
<1>6. PicType'
  BY <1>2, <1>4, <1>5 DEF IInv, PicType
<1>7. Service'
  BY <1>1, <1>2, <1>3, <1>4, <1>5 DEF IInv, PicType, Service, Chips
<1>8. Disabled'
  BY <1>1, <1>3, SetupControl, Zenon DEF InSetup
<1>9. /\ pic'["PIC1"].icw = <<0, 2, 2, 3, 3, 4, 4, 0, 0, 0, 0>>[i + 1]
      /\ pic'["PIC2"].icw = <<0, 0, 2, 2, 3, 3, 4, 4, 0, 0, 0>>[i + 1]
      /\ i + 1 > 3 => pic'["PIC1"].offset = 32
      /\ i + 1 > 4 => pic'["PIC2"].offset = 40
  BY <1>1, <1>2, <1>4, <1>5 DEF IInv, PicType, Chips, Icw1, Icw2
<1>10. SetUp' /\ Vectors' /\ Control'
  <2>1. CASE i = 10
    BY <1>3, <1>9, <2>1 DEF IInv, SetUp, Vectors, Control
  <2>2. CASE i # 10
    <3>1. PICK j \in 2 .. 10 : j = i + 1 /\ i' = j
      BY <1>1, <1>3, <2>2
    <3>2. pic'["PIC1"].icw = Icw1[j] /\ pic'["PIC2"].icw = Icw2[j]
      BY <1>9, <3>1 DEF Icw1, Icw2
    <3>3. QED
      BY <1>3, <1>9, <2>2, <3>1, <3>2 DEF IInv, SetUp, Vectors, Control
  <2>3. QED
    BY <2>1, <2>2
<1>11. QED
  BY <1>6, <1>7, <1>8, <1>10 DEF IInv

\* The set-up keeps the invariant.
LEMMA init_idtIInv ==
    ASSUME IInv, init_idt
    PROVE  IInv'
BY pic_mask_irqIInv, save_masksIInv, init_picIInv, pic_unmask_irqIInv, stiIInv
   DEF init_idt

\* So does everything that kernel_main does after it.
LEMMA MainIInv ==
    ASSUME IInv, Main
    PROVE  IInv'
<1> USE DEF cpu, hardware, InMain
<1>1. CASE init_idt
  BY <1>1, init_idtIInv
<1>2. CASE init_keyboard \/ init_timer
  BY <1>2, QuietStep DEF IInv, Control, init_keyboard, init_timer, InSetup, MainLabels
<1>3. CASE wait_ends
  BY <1>3, QuietStep DEF IInv, Control, wait_ends, InSetup, MainLabels
<1>4. CASE scrn_test
  BY <1>4, QuietStep DEF scrn_test, wait_ticks, InSetup, MainLabels
<1>5. CASE pci_begins \/ pci_check_all_busses \/ init_ahci
  BY <1>5, QuietStep DEF IInv, Control, pci_begins, pci_check_all_busses, init_ahci,
                         InSetup, MainLabels
<1>6. CASE init_ata
  BY <1>6, QuietStep DEF IInv, Control, init_ata, InSetup, MainLabels
<1>7. CASE ide_init
  BY <1>7, QuietStep DEF ide_init, wait_ticks, InSetup, MainLabels
<1>8. CASE main_loop
  BY <1>8, QuietStep DEF IInv, Control, main_loop, vars, int_vars, InSetup, MainLabels
<1>9. QED
  BY <1>1, <1>2, <1>3, <1>4, <1>5, <1>6, <1>7, <1>8 DEF Main

------------------------------------------------------------------------------
(* Interrupts and their handlers.                                           *)

\* A request at a controller changes nothing that the invariant is about.
LEMMA RaiseIInv ==
    ASSUME IInv, NEW irq \in 0 .. 15, Raise(irq)
    PROVE  IInv'
<1>1. /\ pic' = [pic EXCEPT ![Chip(irq)].irr = @ \cup {Level(irq)}]
      /\ UNCHANGED <<IF_flag, vector, pc, i, after, masks>>
  BY DEF Raise, cpu
<1>2. Level(irq) \in Levels /\ Chip(irq) \in Chips
  BY LevelType
<1>3. \A r \in Registers :
        LET w == [r EXCEPT !.irr = @ \cup {Level(irq)}]
        IN  w \in Registers /\ w.icw = r.icw /\ w.isr = r.isr /\ w.offset = r.offset
  BY <1>2 DEF Registers
<1>4. /\ pic' \in [Chips -> Registers]
      /\ \A chip \in Chips : /\ pic'[chip].icw = pic[chip].icw
                             /\ pic'[chip].offset = pic[chip].offset
                             /\ pic'[chip].isr = pic[chip].isr
  BY <1>1, <1>2, <1>3 DEF IInv, PicType
<1>5. PicType' /\ SetUp' /\ Vectors' /\ Control' /\ Service'
  BY <1>1, <1>4 DEF IInv, PicType, SetUp, Vectors, Control, Service, Chips
<1>6. Disabled'
  BY <1>1, Zenon DEF IInv, Disabled, InSetup
<1>7. QED
  BY <1>5, <1>6 DEF IInv

\* What the acknowledgement of a request does to a controller.
LEMMA Served ==
    ASSUME IInv, NEW chip \in Chips, NEW l \in Levels, pic[chip].isr = {}
    PROVE  LET w == Serve(chip, l)
           IN  /\ w \in Registers /\ w.icw = pic[chip].icw
               /\ w.offset = pic[chip].offset /\ w.isr = {l}
<1> DEFINE r == pic[chip]
           q == [r EXCEPT !.irr = @ \ {l}]
           w == [q EXCEPT !.isr = @ \cup {l}]
<1>1. r \in Registers /\ r.isr = {}
  BY DEF IInv, PicType
<1>2. Serve(chip, l) = w
  BY DEF Serve
<1> HIDE DEF r
<1>3. q \in Registers /\ q.icw = r.icw /\ q.isr = {} /\ q.offset = r.offset
  BY <1>1 DEF Registers
<1> HIDE DEF q
<1>4. w \in Registers /\ w.icw = r.icw /\ w.isr = {l} /\ w.offset = r.offset
  BY <1>3 DEF Registers
<1>5. QED
  BY <1>2, <1>4 DEF r

\* When the processor takes interrupts the set-up is over and nothing is in
\* service.
LEMMA Enabled ==
    ASSUME IInv, IF_flag
    PROVE  /\ ~ InSetup /\ vector = None
           /\ pic["PIC1"].offset = 32 /\ pic["PIC2"].offset = 40
           /\ pic["PIC1"].isr = {} /\ pic["PIC2"].isr = {}
           /\ pic["PIC1"].icw = 0 /\ pic["PIC2"].icw = 0
<1>1. ~ InSetup /\ vector = None
  BY Zenon DEF IInv, Disabled
<1>2. QED
  BY <1>1 DEF IInv, InSetup, Vectors, Service, SetUp

\* The processor enters a handler with interrupts off.
LEMMA EnterIInv ==
    ASSUME IInv, IF_flag, NEW v \in 32 .. 47, Enter(v),
           PicType',
           \A chip \in Chips : pic'[chip].icw = 0 /\ pic'[chip].offset = pic[chip].offset,
           \/ v < 40 /\ pic'["PIC1"].isr \in {{}, {v - 32}} /\ pic'["PIC2"].isr = {}
           \/ /\ v >= 40 /\ pic'["PIC1"].isr = {CASCADE}
              /\ pic'["PIC2"].isr \in {{}, {v - 40}}
    PROVE  IInv'
<1>1. vector' = v /\ IF_flag' = FALSE /\ UNCHANGED <<pc, i, after, masks>>
  BY DEF Enter
<1>2. ~ InSetup /\ pic["PIC1"].offset = 32 /\ pic["PIC2"].offset = 40
  BY Enabled
<1>3. SetUp' /\ Vectors' /\ Control'
  BY <1>1, <1>2 DEF IInv, SetUp, Vectors, Control, Chips, InSetup
<1>4. Disabled'
  BY <1>1, <1>2, Zenon DEF Disabled, InSetup
<1>5. vector' # None
  BY <1>1, InterruptsAssumption
<1>6. Service'
  BY <1>1, <1>5 DEF Service
<1>7. QED
  BY <1>3, <1>4, <1>6 DEF IInv

\* The delivery of an interrupt preserves the invariant: its vector tells where
\* it is in service.
LEMMA DeliverIInv ==
    ASSUME IInv, NEW irq \in Lines, Deliver(irq)
    PROVE  IInv'
<1>1. /\ irq \in 0 .. 15 /\ IF_flag
      /\ Enter(pic[Chip(irq)].offset + Level(irq))
  BY InterruptsAssumption DEF Deliver
<1>2. /\ pic["PIC1"].offset = 32 /\ pic["PIC2"].offset = 40
      /\ pic["PIC1"].isr = {} /\ pic["PIC2"].isr = {}
      /\ pic["PIC1"].icw = 0 /\ pic["PIC2"].icw = 0
  BY <1>1, Enabled
<1>3. pic \in [Chips -> Registers] /\ "PIC1" \in Chips /\ "PIC2" \in Chips
  BY DEF IInv, PicType, Chips
<1>4. CASE irq < 8
  <2>1. /\ Level(irq) = irq /\ irq \in Levels /\ Chip(irq) = "PIC1"
        /\ pic' = [pic EXCEPT !["PIC1"] = Serve("PIC1", irq)]
    BY <1>1, <1>4 DEF Deliver, Level, Levels, Chip
  <2>2. /\ Serve("PIC1", irq) \in Registers /\ Serve("PIC1", irq).icw = 0
        /\ Serve("PIC1", irq).offset = 32 /\ Serve("PIC1", irq).isr = {irq}
    BY <1>2, <1>3, <2>1, Served
  <2>3. PICK v \in 32 .. 39 : v = 32 + irq
    BY <1>1, <1>4
  <2>4. Enter(v) /\ v - 32 = irq /\ v < 40 /\ v \in 32 .. 47
    BY <1>1, <1>2, <2>1, <2>3
  <2>5. /\ PicType'
        /\ \A chip \in Chips : pic'[chip].icw = 0 /\ pic'[chip].offset = pic[chip].offset
        /\ pic'["PIC1"].isr = {irq} /\ pic'["PIC2"].isr = {}
    BY <1>2, <1>3, <2>1, <2>2 DEF PicType, Chips
  <2>6. QED
    BY <1>1, <2>4, <2>5, EnterIInv
<1>5. CASE irq >= 8
  <2>1. PICK l \in Levels : l = irq - 8
    BY <1>1, <1>5 DEF Levels
  <2>2. /\ Level(irq) = l /\ Chip(irq) = "PIC2" /\ CASCADE \in Levels
        /\ pic' = [pic EXCEPT !["PIC1"] = Serve("PIC1", CASCADE),
                              !["PIC2"] = Serve("PIC2", l)]
    BY <1>1, <1>5, <2>1 DEF Deliver, Level, Levels, Chip, CASCADE
  <2>3. /\ Serve("PIC1", CASCADE) \in Registers /\ Serve("PIC1", CASCADE).icw = 0
        /\ Serve("PIC1", CASCADE).offset = 32 /\ Serve("PIC1", CASCADE).isr = {CASCADE}
    BY <1>2, <1>3, <2>2, Served
  <2>4. /\ Serve("PIC2", l) \in Registers /\ Serve("PIC2", l).icw = 0
        /\ Serve("PIC2", l).offset = 40 /\ Serve("PIC2", l).isr = {l}
    BY <1>2, <1>3, <2>1, Served
  <2>5. PICK v \in 40 .. 47 : v = 40 + l
    BY <2>1 DEF Levels
  <2>6. Enter(v) /\ v - 40 = l /\ v >= 40 /\ v \in 32 .. 47
    BY <1>1, <1>2, <2>1, <2>2, <2>5 DEF Levels
  <2>7. /\ PicType'
        /\ \A chip \in Chips : pic'[chip].icw = 0 /\ pic'[chip].offset = pic[chip].offset
        /\ pic'["PIC1"].isr = {CASCADE} /\ pic'["PIC2"].isr = {l}
    BY <1>2, <1>3, <2>2, <2>3, <2>4 DEF PicType, Chips
  <2>8. QED
    BY <1>1, <2>6, <2>7, EnterIInv
<1>6. QED
  BY <1>1, <1>4, <1>5

\* So does that of a spurious one, which is in service at most as the cascade.
LEMMA SpuriousIInv ==
    ASSUME IInv, NEW chip \in Chips, SpuriousInterrupt(chip)
    PROVE  IInv'
<1>1. IF_flag /\ Enter(pic[chip].offset + 7)
  BY DEF SpuriousInterrupt
<1>2. /\ pic["PIC1"].offset = 32 /\ pic["PIC2"].offset = 40
      /\ pic["PIC1"].isr = {} /\ pic["PIC2"].isr = {}
      /\ pic["PIC1"].icw = 0 /\ pic["PIC2"].icw = 0
  BY <1>1, Enabled
<1>3. pic \in [Chips -> Registers] /\ "PIC1" \in Chips /\ "PIC2" \in Chips
  BY DEF IInv, PicType, Chips
<1>4. CASE chip = "PIC1"
  <2>1. pic' = pic /\ Enter(39) /\ 39 \in 32 .. 47 /\ 39 < 40
    BY <1>1, <1>2, <1>4 DEF SpuriousInterrupt
  <2>2. PicType' /\ pic'["PIC1"].isr = {} /\ pic'["PIC2"].isr = {}
    BY <1>2, <2>1 DEF IInv, PicType
  <2>3. \A c \in Chips : pic'[c].icw = 0 /\ pic'[c].offset = pic[c].offset
    BY <1>2, <2>1 DEF Chips
  <2>4. QED
    BY <1>1, <2>1, <2>2, <2>3, EnterIInv
<1>5. CASE chip = "PIC2"
  <2>1. /\ pic' = [pic EXCEPT !["PIC1"] = Serve("PIC1", CASCADE)]
        /\ Enter(47) /\ 47 \in 32 .. 47 /\ 47 >= 40 /\ CASCADE \in Levels
    BY <1>1, <1>2, <1>5 DEF SpuriousInterrupt, CASCADE, Levels
  <2>2. /\ Serve("PIC1", CASCADE) \in Registers /\ Serve("PIC1", CASCADE).icw = 0
        /\ Serve("PIC1", CASCADE).offset = 32 /\ Serve("PIC1", CASCADE).isr = {CASCADE}
    BY <1>2, <1>3, <2>1, Served
  <2>3. /\ PicType'
        /\ \A c \in Chips : pic'[c].icw = 0 /\ pic'[c].offset = pic[c].offset
        /\ pic'["PIC1"].isr = {CASCADE} /\ pic'["PIC2"].isr = {}
    BY <1>2, <1>3, <2>1, <2>2 DEF PicType, Chips
  <2>4. QED
    BY <1>1, <2>1, <2>3, EnterIInv
<1>6. QED
  BY <1>4, <1>5 DEF Chips

\* The end of an interrupt to a controller: nothing is in service afterwards
\* if at most one thing was.
LEMMA Acknowledge ==
    ASSUME IInv, NEW chip \in Chips, pic[chip].icw = 0,
           \/ pic[chip].isr = {}
           \/ \E l \in Levels : pic[chip].isr = {l}
    PROVE  LET w == Written(chip, "command", "EOI")
           IN  /\ w \in Registers /\ w.icw = 0
               /\ w.offset = pic[chip].offset /\ w.isr = {}
<1> DEFINE r == pic[chip]
           left == IF r.isr = {} THEN r.isr ELSE r.isr \ {Min(r.isr)}
<1>1. r \in Registers /\ r.icw = 0
  BY DEF IInv, PicType
<1>2. left = {}
  <2>1. CASE r.isr = {}
    BY <2>1
  <2>2. CASE \E l \in Levels : r.isr = {l}
    BY <2>2, MinOfOne DEF Levels
  <2>3. QED
    BY <2>1, <2>2
<1>3. Written(chip, "command", "EOI") = [r EXCEPT !.isr = left]
  BY Zenon DEF Written
<1> HIDE DEF r, left
<1>4. LET w == [r EXCEPT !.isr = left]
      IN  w \in Registers /\ w.icw = 0 /\ w.offset = r.offset /\ w.isr = {}
  BY <1>1, <1>2 DEF Registers
<1>5. QED
  BY <1>3, <1>4 DEF r

\* The steps of irq_handler preserve the invariant.
LEMMA HandlerIInv ==
    ASSUME IInv, Handler
    PROVE  IInv'
<1>1. CASE call_handler
  <2>1. UNCHANGED <<pic, IF_flag, vector, pc, i, after, masks>>
    BY <1>1 DEF call_handler, hardware
  <2>2. PicType' /\ SetUp' /\ Vectors' /\ Control' /\ Service'
    BY <2>1 DEF IInv, PicType, SetUp, Vectors, Control, Service
  <2>3. Disabled'
    BY <2>1, Zenon DEF IInv, Disabled, InSetup
  <2>4. QED
    BY <2>2, <2>3 DEF IInv
<1>2. CASE end_of_interrupt
  <2> DEFINE e1 == Written("PIC1", "command", "EOI")
             e2 == Written("PIC2", "command", "EOI")
  <2>1. /\ vector # None /\ vector' = None /\ IF_flag' = TRUE
        /\ pic' = [pic EXCEPT !["PIC2"] = IF FromSlave THEN e2 ELSE @, !["PIC1"] = e1]
        /\ UNCHANGED <<pc, i, after, masks>>
    BY <1>2 DEF end_of_interrupt
  <2>2. ~ InSetup
    BY <2>1, Zenon DEF IInv, Disabled
  <2>3. /\ pic["PIC1"].icw = 0 /\ pic["PIC2"].icw = 0
        /\ pic \in [Chips -> Registers] /\ "PIC1" \in Chips /\ "PIC2" \in Chips
    BY <2>2 DEF IInv, SetUp, InSetup, PicType, Chips
  <2>4. \/ /\ vector \in 32 .. 39
           /\ pic["PIC1"].isr \in {{}, {vector - 32}} /\ pic["PIC2"].isr = {}
        \/ /\ vector \in 40 .. 47
           /\ pic["PIC1"].isr = {CASCADE} /\ pic["PIC2"].isr \in {{}, {vector - 40}}
    BY <2>1 DEF IInv, Service
  <2>5. e1 \in Registers /\ e1.icw = 0 /\ e1.offset = pic["PIC1"].offset /\ e1.isr = {}
    <3>1. pic["PIC1"].isr = {} \/ \E l \in Levels : pic["PIC1"].isr = {l}
      <4>1. CASE vector \in 32 .. 39 /\ pic["PIC1"].isr \in {{}, {vector - 32}}
        <5>1. vector - 32 \in Levels
          BY <4>1 DEF Levels
        <5>2. QED
          BY <4>1, <5>1
      <4>2. CASE pic["PIC1"].isr = {CASCADE}
        BY <4>2 DEF CASCADE, Levels
      <4>3. QED
        BY <2>4, <4>1, <4>2
    <3>2. QED
      BY <2>3, <3>1, Acknowledge
  <2>6. e2 \in Registers /\ e2.icw = 0 /\ e2.offset = pic["PIC2"].offset /\ e2.isr = {}
    <3>1. pic["PIC2"].isr = {} \/ \E l \in Levels : pic["PIC2"].isr = {l}
      <4>1. CASE vector \in 40 .. 47 /\ pic["PIC2"].isr \in {{}, {vector - 40}}
        <5>1. vector - 40 \in Levels
          BY <4>1 DEF Levels
        <5>2. QED
          BY <4>1, <5>1
      <4>2. QED
        BY <2>4, <4>1
    <3>2. QED
      BY <2>3, <3>1, Acknowledge
  <2>7. FromSlave \/ pic["PIC2"].isr = {}
    BY <2>4 DEF FromSlave
  <2> HIDE DEF e1, e2
  <2>8. /\ PicType'
        /\ \A c \in Chips : /\ pic'[c].icw = 0 /\ pic'[c].offset = pic[c].offset
                            /\ pic'[c].isr = {}
    BY <2>1, <2>3, <2>5, <2>6, <2>7 DEF PicType, Chips
  <2>9. SetUp' /\ Vectors' /\ Control' /\ Service'
    BY <2>1, <2>2, <2>8 DEF IInv, InSetup, SetUp, Vectors, Control, Service, Chips
  <2>10. Disabled'
    BY <2>1, <2>2, Zenon DEF Disabled, InSetup
  <2>11. QED
    BY <2>8, <2>9, <2>10 DEF IInv
<1>3. QED
  BY <1>1, <1>2 DEF Handler

------------------------------------------------------------------------------
(* The theorems.                                                            *)

\* The steps of devices, timer and controllers preserve the invariant.
LEMMA HardwareIInv ==
    ASSUME IInv, Hardware
    PROVE  IInv'
<1>1. CASE Tick
  BY <1>1, RaiseIInv DEF Tick
<1>2. CASE DeliverAny
  BY <1>2, DeliverIInv DEF DeliverAny
<1>3. CASE \E irq \in Lines \ {0} : DeviceRaises(irq)
  BY <1>3, RaiseIInv, InterruptsAssumption DEF DeviceRaises
<1>4. CASE \E chip \in Chips : SpuriousInterrupt(chip)
  BY <1>4, SpuriousIInv
<1>5. QED
  BY <1>1, <1>2, <1>3, <1>4 DEF Hardware

\* Every step preserves the invariant.
LEMMA NextIInv == IInv /\ [Next]_vars => IInv'
<1> SUFFICES ASSUME IInv, [Next]_vars PROVE IInv'
  OBVIOUS
<1>1. CASE Main
  BY <1>1, MainIInv
<1>2. CASE Handler \/ Hardware
  BY <1>2, HandlerIInv, HardwareIInv
<1>3. CASE UNCHANGED vars
  <2>1. UNCHANGED <<pic, IF_flag, vector, pc, i, after, masks>>
    BY <1>3 DEF vars, int_vars, hardware, cpu
  <2>2. PicType' /\ SetUp' /\ Vectors' /\ Control' /\ Service'
    BY <2>1 DEF IInv, PicType, SetUp, Vectors, Control, Service
  <2>3. Disabled'
    BY <2>1, Zenon DEF IInv, Disabled, InSetup
  <2>4. QED
    BY <2>2, <2>3 DEF IInv
<1>4. QED
  BY <1>1, <1>2, <1>3 DEF Next

\* The controllers, the processor and kernel_main agree on how far the set-up
\* has come and on what is being handled (init_idt, init_pic, irq_handler).
THEOREM Invariance == Spec => []IInv
BY InitIInv, NextIInv, PTL DEF Spec

\* No interrupt of any line, late or spurious, arrives under the vector of an
\* exception: interrupts are enabled only after init_pic has moved both
\* controllers above the first 32.
THEOREM NoIrqsAreExceptions == Spec => []NoIrqIsException
<1>1. IInv => NoIrqIsException
  BY DEF IInv, Service, NoIrqIsException, IDT, Exceptions
<1>2. QED
  BY <1>1, Invariance, PTL

\* irq_handler acknowledges each interrupt at every controller at which it is
\* in service: none is left when no handler runs, after spurious ones either.
THEOREM Acknowledged == Spec => []NothingInService
<1>1. IInv => NothingInService
  BY DEF IInv, Service, NothingInService, Chips
<1>2. QED
  BY <1>1, Invariance, PTL

------------------------------------------------------------------------------
(* The scan of the PCI buses.                                               *)

\* Where kernel_main is, or goes on after its wait.
At == IF pc = "wait" THEN after ELSE pc

\* The labels of kernel_main before the scan.
Before == {"mask", "save_masks", "init_pic", "unmask", "sti", "init_keyboard",
           "init_timer", "scrn_test", "hello_world", "pci"}

\* The counters of the loops; of a device with several functions the first is
\* there and says so.
Counters ==
    /\ bus \in Nat /\ device \in 0 .. DEVICE_PER_BUS - 1 /\ function \in Functions
    /\ bus > 0 => device = 0 /\ function = 0
    /\ function > 0 => Present(<<bus, device, 0>>) /\ Multi(<<bus, device, 0>>)

\* The loops have passed p.
Visited(p) == bus > 0 \/ Earlier(p, Here)

\* The list has the functions of bus 0 that the loops have passed, in order.
Listed ==
    /\ device_list \in Seq(OnBus0(Classes))
    /\ \A k \in DOMAIN device_list : Visited(device_list[k])
    /\ \A p \in OnBus0(Classes) :
          Visited(p) => \E k \in DOMAIN device_list : device_list[k] = p
    /\ \A j, k \in DOMAIN device_list :
          j < k => Earlier(device_list[j], device_list[k])

\* What the scan and the two drivers have found when kernel_main is at label.
Found(label) ==
    /\ config \in Machines
    /\ SingleHost =>
          /\ Counters /\ Listed
          /\ label # "buses" => bus > 0
          /\ label \in {"ata", "ide", "loop"} => IsFirst(sata, SATA)
          /\ label \in {"ide", "loop"} => IsFirst(ide, IDE)

ScanInv ==
    \/ At \in Before /\ device_list = <<>> /\ bus = 0 /\ device = 0 /\ function = 0
    \/ At \in {"buses", "ahci", "ata", "ide", "loop"} /\ Found(At)

\* The scan has not begun at boot.
LEMMA InitScan == Init => ScanInv
BY DEF Init, InterruptsInit, PciInit, ScanInv, At, Before

\* A step that leaves the scan alone.
LEMMA ScanKept ==
    ASSUME ScanInv, UNCHANGED pci_vars,
           \/ At' = At
           \/ At \in Before /\ At' \in Before
           \/ At \in {"ide", "loop"} /\ At' \in {"ide", "loop"}
    PROVE  ScanInv'
<1>1. /\ config' = config /\ device_list' = device_list /\ bus' = bus /\ device' = device
      /\ function' = function /\ sata' = sata /\ ide' = ide
  BY DEF pci_vars
<1>2. /\ Counters' = Counters /\ Listed' = Listed /\ SingleHost' = SingleHost
      /\ IsFirst(sata, SATA)' = IsFirst(sata, SATA) /\ IsFirst(ide, IDE)' = IsFirst(ide, IDE)
  BY <1>1 DEF Counters, Listed, SingleHost, Present, Multi, Visited, Here, OnBus0, IsFirst
<1>3. CASE At' = At
  BY <1>1, <1>2, <1>3 DEF ScanInv, Found
<1>4. CASE At \in Before /\ At' \in Before
  <2>1. At \notin {"buses", "ahci", "ata", "ide", "loop"}
    BY <1>4 DEF Before
  <2>2. QED
    BY <1>1, <1>4, <2>1 DEF ScanInv
<1>5. CASE At \in {"ide", "loop"} /\ At' \in {"ide", "loop"}
  <2>1. At \notin Before
    BY <1>5 DEF Before
  <2>2. Found(At)
    BY <2>1 DEF ScanInv
  <2>3. Found("ide") /\ Found("loop")
    BY <1>5, <2>2 DEF Found
  <2>4. Found("ide")' /\ Found("loop")'
    BY <1>1, <1>2, <2>3 DEF Found
  <2>5. Found(At)'
    <3>1. CASE At' = "ide"
      BY <2>4, <3>1, Zenon DEF Found
    <3>2. CASE At' = "loop"
      BY <2>4, <3>2, Zenon DEF Found
    <3>3. QED
      BY <1>5, <3>1, <3>2
  <2>6. QED
    BY <1>5, <2>5 DEF ScanInv
<1>6. QED
  BY <1>3, <1>4, <1>5

\* The functions of a machine have places, and those of a device with more
\* than one a first that says so.
LEMMA PlaceOf ==
    ASSUME NEW m \in Machines, NEW p \in DOMAIN m, p[1] = 0
    PROVE  /\ p = <<0, p[2], p[3]>>
           /\ p[2] \in 0 .. DEVICE_PER_BUS - 1 /\ p[3] \in 0 .. FUNCTIONS - 1
           /\ p[3] # 0 => <<0, p[2], 0>> \in DOMAIN m /\ m[<<0, p[2], 0>>].multi
           /\ m[p].class \in Classes
<1>1. p \in Places /\ Conforms(m) /\ m[p] \in [class : Classes, multi : BOOLEAN]
  BY PciAssumption
<1>2. /\ p[2] \in 0 .. DEVICE_PER_BUS - 1 /\ p[3] \in 0 .. FUNCTIONS - 1
      /\ p = <<p[1], p[2], p[3]>>
  BY <1>1 DEF Places, Functions
<1>3. p[3] # 0 => <<0, p[2], 0>> \in DOMAIN m /\ m[<<0, p[2], 0>>].multi
  BY <1>1 DEF Conforms
<1>4. QED
  BY <1>1, <1>2, <1>3

\* The counter of the devices turns over after the last.
LEMMA NextDevice ==
    ASSUME NEW n \in Nat \ {0}, NEW d \in 0 .. n - 1
    PROVE  (d + 1) % n = IF d + 1 = n THEN 0 ELSE d + 1
OBVIOUS

\* pci_check_device goes past one function of bus 0 and lists it.
LEMMA VisitKeepsList ==
    ASSUME config \in Machines, SingleHost, Counters, Listed, pci_check_device
    PROVE  Counters' /\ Listed'
<1> DEFINE D == DEVICE_PER_BUS
<1>1. bus = 0 /\ device \in 0 .. D - 1 /\ function \in 0 .. FUNCTIONS - 1
  BY DEF Counters, Functions, pci_check_device, MoreToCheck, BusIsNext
<1>2. D \in Nat \ {0} /\ FUNCTIONS \in Nat \ {0}
  BY PciAssumption
<1>3. config' = config
  BY DEF pci_check_device
<1>4. \/ ~ DeviceIsDone /\ bus' = 0 /\ device' = device /\ function' = function + 1
      \/ DeviceIsDone /\ device + 1 < D /\ bus' = 0 /\ device' = device + 1 /\ function' = 0
      \/ DeviceIsDone /\ device + 1 = D /\ bus' = 1 /\ device' = 0 /\ function' = 0
  <2>1. (device + 1) % D = IF device + 1 = D THEN 0 ELSE device + 1
    BY <1>1, <1>2, NextDevice
  <2>2. CASE DeviceIsDone
    <3>1. /\ function' = 0 /\ device' = (device + 1) % D
          /\ bus' = IF device' = 0 THEN bus + 1 ELSE bus
      BY <2>2 DEF pci_check_device
    <3>2. CASE device + 1 = D
      BY <1>1, <2>1, <2>2, <3>1, <3>2
    <3>3. CASE device + 1 < D
      BY <1>1, <2>1, <2>2, <3>1, <3>3
    <3>4. QED
      BY <1>1, <1>2, <3>2, <3>3
  <2>3. CASE ~ DeviceIsDone
    BY <1>1, <2>3 DEF pci_check_device
  <2>4. QED
    BY <2>2, <2>3
<1>5. DeviceIsDone => \/ function = FUNCTIONS - 1
                      \/ function = 0 /\ ~ (Present(Here) /\ Multi(Here))
  BY <1>1, <1>2 DEF DeviceIsDone, LastFunction
<1>6. ~ DeviceIsDone => /\ function + 1 < FUNCTIONS
                        /\ Present(<<0, device, 0>>) /\ Multi(<<0, device, 0>>)
  BY <1>1, <1>2 DEF DeviceIsDone, LastFunction, Counters, Here
<1>7. Counters'
  <2>1. CASE ~ DeviceIsDone
    <3>1. bus' = 0 /\ device' = device /\ function' = function + 1
      BY <1>4, <2>1
    <3>2. Present(<<0, device, 0>>)' /\ Multi(<<0, device, 0>>)'
      BY <1>3, <1>6, <2>1, <3>1 DEF Present, Multi
    <3>3. function' \in Functions
      BY <1>1, <1>2, <1>6, <2>1, <3>1 DEF Functions
    <3>4. Present(<<bus, device, 0>>)' /\ Multi(<<bus, device, 0>>)'
      BY <3>1, <3>2, Zenon
    <3>5. QED
      BY <1>1, <3>1, <3>3, <3>4 DEF Counters
  <2>2. CASE DeviceIsDone
    BY <1>1, <1>2, <1>4, <2>2 DEF Counters, Functions
  <2>3. QED
    BY <2>1, <2>2
<1>8. Here = <<0, device, function>>
  BY <1>1 DEF Here
<1>9. \A p \in OnBus0(Classes) : Visited(p)' <=> Visited(p) \/ p = Here
  <2> TAKE p \in OnBus0(Classes)
  <2>1. p \in DOMAIN config /\ p[1] = 0
    BY DEF OnBus0
  <2>2. /\ p = <<0, p[2], p[3]>>
        /\ p[2] \in 0 .. D - 1 /\ p[3] \in 0 .. FUNCTIONS - 1
        /\ p[3] # 0 => <<0, p[2], 0>> \in DOMAIN config /\ config[<<0, p[2], 0>>].multi
    BY <2>1, PlaceOf
  <2>3. PICK d \in 0 .. D - 1, f \in 0 .. FUNCTIONS - 1 :
            /\ p = <<0, d, f>> /\ p[2] = d /\ p[3] = f
            /\ f # 0 => Present(<<0, d, 0>>) /\ Multi(<<0, d, 0>>)
    BY <2>2 DEF Present, Multi
  <2>4. Visited(p) <=> d < device \/ (d = device /\ f < function)
    BY <1>1, <1>8, <2>3 DEF Visited, Earlier
  <2>5. Visited(p)' <=> bus' > 0 \/ d < device' \/ (d = device' /\ f < function')
    BY <2>3 DEF Visited, Earlier, Here
  <2>6. p = Here <=> d = device /\ f = function
    BY <1>8, <2>3
  <2>7. DeviceIsDone /\ d = device => f <= function
    BY <1>1, <1>2, <1>5, <1>8, <2>3
  <2>8. QED
    BY <1>1, <1>2, <1>4, <2>3, <2>4, <2>5, <2>6, <2>7
<1>10. OnBus0(Classes)' = OnBus0(Classes)
  BY <1>3 DEF OnBus0
<1>11. CASE Present(Here)
  <2>1. device_list' = Append(device_list, Here)
    BY <1>11 DEF pci_check_device
  <2>2. Here \in OnBus0(Classes)
    <3>1. Here \in DOMAIN config /\ Here[1] = 0
      BY <1>8, <1>11 DEF Present
    <3>2. QED
      BY <3>1, PlaceOf DEF OnBus0
  <2>3. /\ device_list \in Seq(OnBus0(Classes)) /\ DOMAIN device_list = 1 .. Len(device_list)
        /\ Len(device_list) \in Nat /\ \A k \in DOMAIN device_list : device_list[k] \in OnBus0(Classes)
    BY DEF Listed
  <2> DEFINE n == Len(device_list)
  <2>4. /\ device_list' \in Seq(OnBus0(Classes)) /\ DOMAIN device_list' = 1 .. n + 1
        /\ \A k \in 1 .. n : device_list'[k] = device_list[k]
        /\ device_list'[n + 1] = Here
    BY <2>1, <2>2, <2>3
  <2>5. \A k \in 1 .. n : Visited(device_list[k]) /\ Earlier(device_list[k], Here)
    BY <1>1, <2>3 DEF Listed, Visited
  <2>6. \A k \in DOMAIN device_list' : Visited(device_list[k])'
    <3> TAKE k \in DOMAIN device_list'
    <3>1. PICK p \in OnBus0(Classes) : p = device_list'[k] /\ (Visited(p) \/ p = Here)
      BY <2>2, <2>3, <2>4, <2>5
    <3>2. Visited(p)'
      BY <1>9, <3>1
    <3>3. QED
      BY <3>1, <3>2 DEF Visited
  <2>7. \A p \in OnBus0(Classes) : Visited(p)' => \E k \in DOMAIN device_list' : device_list'[k] = p
    BY <1>9, <2>3, <2>4 DEF Listed
  <2>8. \A j, k \in DOMAIN device_list' : j < k => Earlier(device_list'[j], device_list'[k])
    BY <2>3, <2>4, <2>5 DEF Listed
  <2>9. QED
    BY <1>7, <1>10, <2>4, <2>6, <2>7, <2>8 DEF Listed, Visited, Here
<1>12. CASE ~ Present(Here)
  <2>1. device_list' = device_list
    BY <1>12 DEF pci_check_device
  <2>2. \A p \in OnBus0(Classes) : p # Here
    BY <1>12 DEF OnBus0, Present
  <2>3. \A k \in DOMAIN device_list : device_list[k] \in OnBus0(Classes)
    BY DEF Listed
  <2>4. QED
    BY <1>7, <1>9, <1>10, <2>1, <2>2, <2>3 DEF Listed
<1>13. QED
  BY <1>11, <1>12

\* A set of numbers that is not empty has a smallest.
LEMMA SmallestExists ==
    ASSUME NEW S \in SUBSET Nat, S # {}
    PROVE  Min(S) \in S /\ \A k \in S : Min(S) <= k
<1>1. \E x \in S : \A y \in S : ~ (<<y, x>> \in OpToRel(<, Nat))
  BY NatLessThanWellFounded, WFMin
<1>2. PICK x \in S : \A y \in S : ~ (<<y, x>> \in OpToRel(<, Nat))
  BY <1>1
<1>3. \A y \in S : <<y, x>> \in OpToRel(<, Nat) <=> y < x
  BY DEF OpToRel
<1>4. \A y \in S : ~ (y < x)
  BY <1>2, <1>3, Zenon
<1>5. \A y \in S : x <= y
  BY <1>4
<1>6. QED
  BY <1>5, Zenon DEF Min

\* When bus 0 is done the list is complete, and a driver that looks for a class
\* finds its first controller.
LEMMA LookupFindsFirst ==
    ASSUME Listed, bus > 0, NEW class \in Classes
    PROVE  IsFirst(Lookup(class), class)
<1> DEFINE S == {k \in DOMAIN device_list : config[device_list[k]].class = class}
<1>1. /\ DOMAIN device_list \subseteq Nat
      /\ \A k \in DOMAIN device_list : device_list[k] \in OnBus0(Classes)
  BY DEF Listed
<1>2. \A p \in OnBus0({class}) :
          \E k \in S : device_list[k] = p
  <2> TAKE p \in OnBus0({class})
  <2>1. p \in OnBus0(Classes) /\ config[p].class = class
    BY DEF OnBus0
  <2>2. PICK k \in DOMAIN device_list : device_list[k] = p
    BY <2>1 DEF Listed, Visited
  <2>3. QED
    BY <2>1, <2>2
<1>3. \A k \in S : device_list[k] \in OnBus0({class})
  BY <1>1 DEF OnBus0
<1>4. S \in SUBSET Nat
  BY <1>1
<1>5. Lookup(class) = IF S = {} THEN <<>> ELSE device_list[Min(S)]
  BY DEF Lookup
<1>6. \A j, k \in S : j < k => Earlier(device_list[j], device_list[k])
  BY DEF Listed
<1> HIDE DEF S
<1>7. CASE S = {}
  BY <1>2, <1>5, <1>7 DEF IsFirst
<1>8. CASE S # {}
  <2>1. PICK m \in S : m = Min(S) /\ \A k \in S : m <= k
    BY <1>4, <1>8, SmallestExists
  <2>2. Lookup(class) = device_list[m] /\ device_list[m] \in OnBus0({class})
    BY <1>3, <1>5, <1>8, <2>1
  <2>3. \A q \in OnBus0({class}) : q = device_list[m] \/ Earlier(device_list[m], q)
    <3> TAKE q \in OnBus0({class})
    <3>1. PICK k \in S : device_list[k] = q
      BY <1>2
    <3>2. m = k \/ m < k
      BY <1>4, <2>1
    <3>3. QED
      BY <1>6, <3>1, <3>2
  <2>4. QED
    BY <2>2, <2>3 DEF IsFirst
<1>9. QED
  BY <1>7, <1>8

\* The scan begins with an empty list at the first function of bus 0.
LEMMA ScanBegins ==
    ASSUME ScanInv, pci_begins
    PROVE  ScanInv'
<1>1. /\ device_list = <<>> /\ bus = 0 /\ device = 0 /\ function = 0
      /\ UNCHANGED <<device_list, bus, device, function>>
  BY DEF pci_begins, InMain, Machine, ScanInv, At, Before
<1>2. config' \in Machines /\ At' = "buses"
  BY DEF pci_begins, Machine, At
<1>3. Counters'
  BY <1>1, PciAssumption DEF Counters, Functions
<1>4. \A p \in OnBus0(Classes)' : ~ Visited(p)'
  <2> TAKE p \in OnBus0(Classes)'
  <2>1. p \in DOMAIN config' /\ p[1] = 0
    BY DEF OnBus0
  <2>2. p[2] \in 0 .. DEVICE_PER_BUS - 1 /\ p[3] \in 0 .. FUNCTIONS - 1
    BY <1>2, <2>1, PlaceOf
  <2>3. p[2] \in Nat /\ p[3] \in Nat
    BY <2>2, PciAssumption
  <2>4. Here' = <<0, 0, 0>> /\ bus' = 0
    BY <1>1 DEF Here
  <2>5. QED
    BY <2>3, <2>4 DEF Visited, Earlier
<1>5. device_list' = <<>> /\ DOMAIN device_list' = {} /\ device_list' \in Seq(OnBus0(Classes)')
  BY <1>1
<1>6. Listed'
  BY <1>4, <1>5 DEF Listed
<1>7. Found("buses")'
  BY <1>2, <1>3, <1>6 DEF Found
<1>8. Found(At)'
  BY <1>2, <1>7, Zenon DEF Found
<1>9. QED
  BY <1>2, <1>8 DEF ScanInv

\* The scan goes on, and ends when bus 0 is done.
LEMMA ScanGoesOn ==
    ASSUME ScanInv, pci_check_all_busses
    PROVE  ScanInv'
<1>1. pc = "buses" /\ At = "buses"
  BY DEF pci_check_all_busses, InMain, At
<1>2. Found("buses")
  BY <1>1 DEF ScanInv, Before
<1>3. CASE MoreToCheck
  <2>1. pci_check_device /\ pc' = "buses" /\ At' = "buses"
    BY <1>3 DEF pci_check_all_busses, At
  <2>2. config' = config /\ sata' = sata /\ ide' = ide
    BY <2>1 DEF pci_check_device
  <2>3. SingleHost' <=> SingleHost
    BY <2>2 DEF SingleHost, Present, Multi
  <2>4. SingleHost => Counters' /\ Listed'
    BY <1>2, <2>1, VisitKeepsList DEF Found
  <2>5. Found("buses")'
    BY <1>2, <2>2, <2>3, <2>4 DEF Found
  <2>6. Found(At)'
    BY <2>1, <2>5, Zenon DEF Found
  <2>7. QED
    BY <2>1, <2>6 DEF ScanInv
<1>4. CASE ~ MoreToCheck
  <2>1. UNCHANGED pci_vars /\ pc' = "ahci" /\ At' = "ahci"
    BY <1>4 DEF pci_check_all_busses, At
  <2>2. /\ config' = config /\ device_list' = device_list /\ bus' = bus /\ device' = device
        /\ function' = function /\ sata' = sata /\ ide' = ide
    BY <2>1 DEF pci_vars
  <2>3. /\ (Counters' <=> Counters) /\ (Listed' <=> Listed) /\ (SingleHost' <=> SingleHost)
    BY <2>2 DEF Counters, Listed, SingleHost, Present, Multi, Visited, Here, OnBus0
  <2>4. SingleHost => bus > 0
    <3>1. SUFFICES ASSUME SingleHost PROVE bus > 0
      OBVIOUS
    <3>2. bus \in Nat /\ device \in 0 .. DEVICE_PER_BUS - 1 /\ function \in 0 .. FUNCTIONS - 1
      BY <1>2, <3>1 DEF Found, Counters, Functions
    <3>3. device = 0 /\ function = 0 /\ bus # 0
      BY <1>4, <3>1, <3>2, PciAssumption DEF MoreToCheck, BusIsNext
    <3>4. QED
      BY <3>2, <3>3
  <2>5. Found("ahci")'
    BY <1>2, <2>2, <2>3, <2>4 DEF Found
  <2>6. Found(At)'
    BY <2>1, <2>5, Zenon DEF Found
  <2>7. QED
    BY <2>1, <2>6 DEF ScanInv
<1>5. QED
  BY <1>3, <1>4

\* What a driver's search of the list leaves alone.
LEMMA SearchKeepsList ==
    ASSUME UNCHANGED <<config, device_list, bus, device, function>>
    PROVE  /\ (Counters' <=> Counters) /\ (Listed' <=> Listed) /\ (SingleHost' <=> SingleHost)
           /\ \A class : OnBus0({class})' = OnBus0({class})
BY DEF Counters, Listed, SingleHost, Present, Multi, Visited, Here, OnBus0

\* init_ahci takes the first SATA controller.
LEMMA AhciTakesFirst ==
    ASSUME ScanInv, init_ahci
    PROVE  ScanInv'
<1>1. /\ UNCHANGED <<config, device_list, bus, device, function>> /\ sata' = Lookup(SATA)
      /\ At = "ahci" /\ At' = "ata"
  BY DEF init_ahci, find_sata, InMain, At
<1>2. Found("ahci")
  BY <1>1 DEF ScanInv, Before
<1>3. SingleHost => IsFirst(Lookup(SATA), SATA)
  BY <1>2, LookupFindsFirst, PciAssumption DEF Found
<1>4. SingleHost => IsFirst(sata, SATA)'
  BY <1>1, <1>3, SearchKeepsList DEF IsFirst
<1>5. Found("ata")'
  BY <1>1, <1>2, <1>4, SearchKeepsList DEF Found
<1>6. Found(At)'
  BY <1>1, <1>5, Zenon DEF Found
<1>7. QED
  BY <1>1, <1>6 DEF ScanInv

\* init_ata takes the first IDE controller.
LEMMA AtaTakesFirst ==
    ASSUME ScanInv, init_ata
    PROVE  ScanInv'
<1>1. /\ UNCHANGED <<config, device_list, bus, device, function>> /\ ide' = Lookup(IDE)
      /\ sata' = sata
      /\ At = "ata" /\ At' \in {"ide", "loop"}
  BY DEF init_ata, find_ide, InMain, At
<1>2. Found("ata")
  BY <1>1 DEF ScanInv, Before
<1>3. SingleHost => IsFirst(Lookup(IDE), IDE)
  BY <1>2, LookupFindsFirst, PciAssumption DEF Found
<1>4. SingleHost => IsFirst(ide, IDE)' /\ IsFirst(sata, SATA)'
  BY <1>1, <1>2, <1>3, SearchKeepsList DEF IsFirst, Found
<1>5. Found("ide")' /\ Found("loop")'
  BY <1>1, <1>2, <1>4, SearchKeepsList DEF Found
<1>6. Found(At)'
  <2>1. CASE At' = "ide"
    BY <1>5, <2>1, Zenon DEF Found
  <2>2. CASE At' = "loop"
    BY <1>5, <2>2, Zenon DEF Found
  <2>3. QED
    BY <1>1, <2>1, <2>2
<1>7. QED
  BY <1>1, <1>6 DEF ScanInv

\* Every step preserves what is known of the scan.
LEMMA NextScan == IInv /\ ScanInv /\ [Next]_vars => ScanInv'
<1> SUFFICES ASSUME IInv, ScanInv, [Next]_vars PROVE ScanInv'
  OBVIOUS
<1>1. CASE (init_idt \/ init_keyboard \/ init_timer \/ wait_ends) /\ UNCHANGED pci_vars
  <2>1. CASE wait_ends
    <3>1. pc = "wait" /\ pc' = after /\ after' = after /\ after # "wait"
      BY <2>1 DEF wait_ends, InMain, IInv, Control
    <3>2. QED
      BY <1>1, <3>1, ScanKept DEF At
  <2>2. CASE init_idt \/ init_keyboard \/ init_timer
    <3>1. pc \in Before \ {"wait"} /\ pc' \in Before \ {"wait"}
      BY <2>2 DEF init_idt, pic_mask_irq, save_masks, init_pic, pic_unmask_irq, sti,
                  init_keyboard, init_timer, InMain, Before
    <3>2. QED
      BY <1>1, <3>1, ScanKept DEF At
  <2>3. QED
    BY <1>1, <2>1, <2>2
<1>2. CASE scrn_test
  <2>1. pc \in {"scrn_test", "hello_world"} /\ pc' = "wait" /\ after' \in {"hello_world", "pci"}
    BY <1>2 DEF scrn_test, wait_ticks, InMain
  <2>2. At \in Before /\ At' \in Before
    BY <2>1 DEF At, Before
  <2>3. QED
    BY <1>2, <2>2, ScanKept DEF scrn_test
<1>3. CASE ide_init
  <2>1. pc = "ide" /\ pc' = "wait" /\ after' \in {"ide", "loop"}
    BY <1>3 DEF ide_init, wait_ticks, InMain
  <2>2. At \in {"ide", "loop"} /\ At' \in {"ide", "loop"}
    BY <2>1 DEF At
  <2>3. QED
    BY <1>3, <2>2, ScanKept DEF ide_init
<1>4. CASE UNCHANGED vars \/ main_loop
  BY <1>4, ScanKept DEF main_loop, vars, int_vars, At
<1>5. CASE (Handler \/ Hardware) /\ UNCHANGED pci_vars
  <2>1. UNCHANGED <<pc, after>>
    BY <1>5 DEF Handler, call_handler, end_of_interrupt, Hardware, Tick, DeliverAny,
                DeviceRaises, SpuriousInterrupt, Deliver, Raise, Enter
  <2>2. QED
    BY <1>5, <2>1, ScanKept DEF At
<1>6. QED
  BY <1>1, <1>2, <1>3, <1>4, <1>5, ScanBegins, ScanGoesOn, AhciTakesFirst, AtaTakesFirst
     DEF Next, Main

\* pci_check_all_busses lists every function of bus 0 once and in order, on any
\* machine with a host controller of one function, and the AHCI and the ATA driver
\* each take the first controller of their class, if there is one.
THEOREM ScansAreComplete == Spec => []ScanIsComplete
<1>1. ScanInv => ScanIsComplete
  <2> SUFFICES ASSUME ScanInv, pc \in {"ide", "loop"}, SingleHost
               PROVE  /\ ToSet(device_list) = OnBus0(Classes)
                      /\ \A j, k \in DOMAIN device_list :
                            j < k => Earlier(device_list[j], device_list[k])
                      /\ IsFirst(sata, SATA)
                      /\ IsFirst(ide, IDE)
    BY DEF ScanIsComplete
  <2>1. At = pc /\ At \notin Before
    BY DEF At, Before
  <2>2. Listed /\ bus > 0 /\ IsFirst(sata, SATA) /\ IsFirst(ide, IDE)
    BY <2>1 DEF ScanInv, Found
  <2>3. ToSet(device_list) = OnBus0(Classes)
    BY <2>2 DEF Listed, Visited, ToSet
  <2>4. QED
    BY <2>2, <2>3 DEF Listed
<1>2. QED
  BY <1>1, InitScan, NextScan, Invariance, PTL DEF Spec
==============================================================================
