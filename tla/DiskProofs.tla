----------------------------- MODULE DiskProofs ------------------------------
(***************************************************************************)
(* Theorems about Disk, for every machine, every geometry and every width  *)
(* of the registers: what the two drivers move is what was asked for, and  *)
(* what a call returns is what happened.                                   *)
(***************************************************************************)
EXTENDS Disk, FiniteSetTheorems, WellFoundedInduction, TLAPS

------------------------------------------------------------------------------
(* The inductive invariant, a part for each thing that a step may disturb. *)

InitPcs  == {"init_ahci", "init_loop", "stop_wait", "start_wait"}
AhciPcs  == {"send_command", "fill", "spin", "poll_ci", "poll_is", "check"}
ProbePcs == {"ata_select", "ata_identify", "ata_packet"}
IdePcs   == {"ata_wait", "ata_poll", "ata_flush"}
Polling  == {"poll_ci", "poll_is", "check"}

Entries == [drive : Drives, flat : BOOLEAN, size : Nat]

Registers == [1 .. 4 -> 0 .. Byte - 1]

TableEntries ==
    [op : Operations \union {"none"}, lba : [1 .. 4 -> 0 .. Byte - 1] \union {<<>>},
     count : 0 .. 1, room : Nat, pmport : PMPorts \union {0}, w : BOOLEAN]

PortStates ==
    [st : BOOLEAN, fre : BOOLEAN, cr : BOOLEAN, fr : BOOLEAN, busy : BOOLEAN,
     tfes : BOOLEAN, halted : BOOLEAN, ci : SUBSET Slots, current : Slots \union {NULL},
     clb : {"firmware", "kernel"}, table : [Slots -> TableEntries] \union {<<>>}]

CmdNames == {"none", "init_ahci", "rdisk", "wdisk", "wipesect", "identify", "wipedisk"}

CommandTypes == [name : CmdNames, sector : 0 .. Word - 1, left : Nat]

DriveStates == [busy : BOOLEAN, left : 0 .. Quads, err : BOOLEAN, job : Jobs]

\* Of the call and the processor.
CallTypes ==
    /\ machine \in Machines
    /\ pc \in InitPcs \union AhciPcs \union ProbePcs \union IdePcs
                \union {"returned", "idle", "lost"}
    /\ call \in Requests
    /\ cmd \in CommandTypes

\* Of the IDE channel.
IdeTypes ==
    /\ regs \in [sel : Drives, flat : BOOLEAN, head : 0 .. Nibble - 1,
                 cur : Registers, prev : Registers]
    /\ drv \in [Drives -> DriveStates]
    /\ ide_devices \in Seq(Entries)
    /\ j \in Drives

\* Of the AHCI controller.  The port of entry i, if any, is port i.
AhciTypes ==
    /\ \A i \in Ports : ports[i] \in {i, NULL}
    /\ ports \in [Ports -> Ports \union {NULL}]
    /\ nports \in 0 .. Cardinality(Ports)
    /\ hba \in [Ports -> PortStates]
    /\ spin \in 0 .. SpinLimit
    /\ slot \in Slots

\* The boot: nothing is listed before the probe, and at most one drive for
\* each drive probed.
Booted ==
    /\ pc \in InitPcs => ide_devices = <<>> /\ j = 0
    /\ pc \in AhciPcs \union {"returned"} /\ cmd.name = "init_ahci" =>
          ide_devices = <<>> /\ j = 0
    /\ pc \in InitPcs \union ProbePcs => Len(ide_devices) <= j
    /\ Len(ide_devices) <= 2

\* Which driver a call is in, and what for.
InDriver ==
    /\ nports > 0 => 0 \in Ports
    /\ pc \in IdePcs =>
          /\ nports = 0 /\ ide_devices # <<>> /\ cmd.name # "init_ahci"
          /\ call.unit = 0 /\ call.op \in {"read", "write"} /\ call.count = 1
    /\ pc \in AhciPcs \union {"stop_wait", "start_wait"} =>
          /\ nports > 0 /\ call.unit \in Ports
          /\ call.count = 1 /\ call.taken

\* A port with the firmware's table is left alone; the port that the commands
\* use has the kernel's from the boot on, and is stopped only in between.
PortOwned ==
    /\ \A p \in Ports :
          /\ hba[p].clb = "firmware" => hba[p].ci = {} /\ hba[p].current = NULL
          /\ hba[p].clb = "kernel" => hba[p].table \in [Slots -> TableEntries]
          /\ hba[p].clb = "kernel" /\ ~hba[p].st => pc = "start_wait" /\ p = call.unit
          /\ pc = "start_wait" => hba[p].ci = {} /\ hba[p].current = NULL
          /\ pc \in {"init_ahci", "init_loop", "stop_wait"} \/ nports = 0
                => hba[p].clb = "firmware"
    /\ pc \in AhciPcs \union {"start_wait"} => hba[call.unit].clb = "kernel"
    /\ pc = "stop_wait" /\ ports[0] # NULL => call.unit = 0
    /\ pc \notin {"init_ahci", "init_loop", "stop_wait"} /\ nports > 0 /\ ports[0] # NULL
          => hba[0].clb = "kernel"

\* Nothing runs on a port: what is outstanding on a halted port stays there.
Quiet(p) == hba[p].current = NULL /\ (hba[p].halted \/ hba[p].ci = {})

\* The command waits to be taken or is being served.
Pending(p) == /\ moved = <<>> /\ pc # "check"
              /\ ~hba[p].tfes /\ ~hba[p].halted
              /\ hba[p].ci = {slot} /\ hba[p].current \in {NULL, slot}

\* It was served.
Served_(p) == /\ moved = Asked \/ ~Reaches(hba[p].table[slot])
              /\ ~hba[p].tfes /\ Quiet(p)

\* It failed.
Failed(p) == moved = <<>> /\ hba[p].tfes /\ call.failed /\ Quiet(p)

\* The port had halted before, and will never take it.
Stuck(p) == /\ moved = <<>> /\ pc # "check"
            /\ ~hba[p].tfes /\ Quiet(p) /\ slot \in hba[p].ci

\* The progress of a command on its port; all other ports are quiet.
OnPort ==
    /\ \A p \in Ports : (pc \in Polling /\ p = call.unit) \/ Quiet(p)
    /\ pc \in Polling => \/ Pending(call.unit) \/ Served_(call.unit)
                         \/ Failed(call.unit) \/ Stuck(call.unit)
    /\ pc \in {"fill", "spin"} => ~hba[call.unit].tfes
    /\ pc \in {"fill", "spin"} => slot \notin hba[call.unit].ci

\* The entry of the table that was filled is the call's.
EntryFilled ==
    pc \in {"spin", "poll_ci", "poll_is", "check"} =>
        LET c == hba[call.unit].table[slot]
        IN  /\ c.op = call.op /\ c.count = 1 /\ c.room >= 1
            /\ c.lba = [k \in 1 .. 4 |-> Digit(call.lba, k - 1)]

\* A drive transfers sectors only for the call that it was selected for.
OnlySelected ==
    \A d \in Drives :
        drv[d].job.cmd \in {"read", "write", "store"} =>
            /\ pc \in {"ata_poll", "ata_flush"} /\ d = regs.sel /\ call.taken
            /\ drv[d].job.cmd = "store" => drv[d].busy

\* What is asked of a drive is what the call is about.
JobIsCall(job) == job.todo = 1 /\ (Addressable => job.lba = call.lba)

\* The drive selected has failed, or is about to give or take the sector.
Transfer(d) ==
    \/ call.failed /\ ~d.busy /\ d.left = 0 /\ d.job.cmd = "none"
    \/ /\ ~d.err /\ d.job.cmd = call.op /\ JobIsCall(d.job)
       /\ \/ d.busy /\ d.left = 0
          \/ ~d.busy /\ d.left = Quads

\* It has failed, is storing the sector, or has stored it.
Storing(d) ==
    \/ call.failed /\ moved = <<>> /\ d.job.cmd \notin {"read", "write", "store"}
    \/ moved = <<>> /\ d.busy /\ d.job.cmd = "store" /\ JobIsCall(d.job)
    \/ /\ Len(moved) = 1 /\ d.job.cmd \notin {"read", "write", "store"}

OnDrive ==
    /\ pc \in {"ata_wait", "ata_poll"} => call.sent = 0
    /\ pc = "ata_poll" /\ call.taken => Transfer(drv[regs.sel])
    /\ pc = "ata_flush" => call.op = "write"
    /\ pc = "ata_flush" /\ call.taken => Storing(drv[regs.sel])

\* The one sector that a call moves is the one that was asked for.
Moved ==
    /\ pc \notin Polling \union {"ata_flush", "returned", "lost"} => moved = <<>>
    /\ Len(moved) <= 1
    /\ moved \in Seq(Int)
    /\ moved # <<>> /\ call.taken /\ Addressable => moved = Asked

\* What a call returns is what happened.
Results == ErrorIsReal /\ SuccessIsReal

IInv ==
    /\ CallTypes /\ IdeTypes /\ AhciTypes
    /\ Booted /\ InDriver
    /\ PortOwned /\ OnPort /\ EntryFilled
    /\ OnlySelected /\ OnDrive
    /\ Moved /\ Results

------------------------------------------------------------------------------
(* Arithmetic: the digits of a sector number.                              *)

\* Division with remainder, of products and of sums.
LEMMA DivMod ==
    ASSUME NEW n \in Nat, NEW B \in Nat \ {0}, NEW q, q = n \div B, NEW r, r = n % B
    PROVE  q \in Nat /\ r \in 0 .. B - 1 /\ n = B * q + r
OBVIOUS

\* Quotient and remainder are the only ones.
LEMMA DivUnique ==
    ASSUME NEW B \in Nat \ {0}, NEW q \in Nat, NEW r \in 0 .. B - 1, NEW n, n = B * q + r
    PROVE  n \div B = q /\ n % B = r
OBVIOUS

\* A number below a product has a quotient below the other factor.
LEMMA QuotientBelow ==
    ASSUME NEW B \in Nat \ {0}, NEW C \in Nat, NEW n \in Nat, n < C * B
    PROVE  n \div B \in Nat /\ n \div B < C
<1>1. PICK q \in Nat : q = n \div B
  OBVIOUS
<1>2. PICK r \in 0 .. B - 1 : r = n % B
  OBVIOUS
<1>3. n = B * q + r
  BY <1>1, <1>2, DivMod
<1>4. ~ q >= C
  <2> SUFFICES ASSUME q >= C PROVE FALSE
    OBVIOUS
  <2>1. PICK k \in Nat : q = C + k
    BY SMT
  <2>2. B * q = C * B + B * k
    BY <2>1
  <2>3. B * k \in Nat /\ C * B \in Nat
    OBVIOUS
  <2>4. PICK x \in Nat : x = C * B
    BY <2>3
  <2>5. PICK y \in Nat : y = B * k
    BY <2>3
  <2>6. n = x + y + r
    BY <1>3, <2>2, <2>4, <2>5
  <2>7. QED
    BY <2>4, <2>6
<1>5. QED
  BY <1>1, <1>4

\* To divide by a product is to divide by one factor after the other.
LEMMA DivDiv ==
    ASSUME NEW B \in Nat \ {0}, NEW C \in Nat \ {0}, NEW n \in Nat
    PROVE  n \div (B * C) = (n \div B) \div C
<1>1. PICK q \in Nat : q = n \div B
  OBVIOUS
<1>2. PICK r \in 0 .. B - 1 : r = n % B
  OBVIOUS
<1>3. n = B * q + r
  BY <1>1, <1>2, DivMod
<1>4. PICK p \in Nat : p = q \div C
  OBVIOUS
<1>5. PICK s \in 0 .. C - 1 : s = q % C
  OBVIOUS
<1>6. q = C * p + s
  BY <1>4, <1>5, DivMod
<1>7. n = (B * C) * p + (B * s + r)
  BY <1>3, <1>6
<1>8. B * C \in Nat \ {0}
  OBVIOUS
<1>9. B * s + r \in 0 .. B * C - 1
  <2>1. PICK t \in Nat : C = s + 1 + t
    <3>1. C - 1 - s \in Nat /\ C = s + 1 + (C - 1 - s)
      OBVIOUS
    <3>2. QED
      BY <3>1
  <2>2. B * C = B * s + B + B * t
    BY <2>1
  <2>3. B * s \in Nat /\ B * t \in Nat
    OBVIOUS
  <2>4. PICK x \in Nat : x = B * s
    BY <2>3
  <2>5. PICK y \in Nat : y = B * t
    BY <2>3
  <2>6. QED
    BY <2>2, <2>4, <2>5
<1>10. n \div (B * C) = p
  BY <1>7, <1>8, <1>9, DivUnique
<1>11. QED
  BY <1>1, <1>4, <1>10

\* What the assumptions say of the registers, with the weights as products.
LEMMA GeometryNat ==
    /\ Byte \in Nat \ {0} /\ Byte >= 2 /\ Nibble \in Nat \ {0} /\ SectorsPerTrack \in 1 .. Byte - 1
    /\ Weight(0) = 1 /\ Weight(1) = Byte
    /\ Weight(2) = Byte * Byte /\ Weight(2) \in Nat \ {0}
    /\ Weight(3) = Byte * Byte * Byte /\ Weight(3) \in Nat \ {0}
    /\ Word = Weight(3) * Byte /\ Word \in Nat \ {0}
<1>1. Byte \in Nat \ {0} /\ Byte >= 2 /\ Nibble \in Nat \ {0} /\ SectorsPerTrack \in 1 .. Byte - 1
  BY DiskAssumption
<1>2. Byte * Byte \in Nat \ {0}
  BY <1>1
<1>3. PICK b \in Nat \ {0} : b = Byte * Byte
  BY <1>2
<1>4. b * Byte \in Nat \ {0}
  BY <1>1, <1>3
<1>5. PICK c \in Nat \ {0} : c = b * Byte
  BY <1>4
<1>6. c * Byte \in Nat \ {0}
  BY <1>1, <1>5
<1>7. QED
  BY <1>1, <1>3, <1>5, <1>6 DEF Weight, Word

\* The same without the products, which the solvers need not see.
LEMMA GeometryTypes ==
    /\ Byte \in Nat \ {0} /\ Byte >= 2 /\ Nibble \in Nat \ {0} /\ SectorsPerTrack \in 1 .. Byte - 1
    /\ Weight(2) \in Nat \ {0} /\ Weight(3) \in Nat \ {0} /\ Word \in Nat \ {0}
BY GeometryNat, Zenon

\* Every digit fits a register.
LEMMA DigitFits ==
    ASSUME NEW n \in Nat, NEW k \in 0 .. 3
    PROVE  Digit(n, k) \in 0 .. Byte - 1
<1>1. Weight(k) \in Nat \ {0}
  BY GeometryNat
<1>2. PICK w \in Nat \ {0} : w = Weight(k)
  BY <1>1
<1>3. n \div w \in Nat
  OBVIOUS
<1>4. QED
  BY <1>2, <1>3, GeometryNat DEF Digit

\* The digits of a sector number, put together again.
LEMMA ThreeDigits ==
    ASSUME NEW n \in Nat
    PROVE  n = Digit(n, 0) + Byte * (Digit(n, 1) + Byte * (Digit(n, 2) + Byte * (n \div Weight(3))))
<1>1. PICK B \in Nat \ {0} : B = Byte
  BY GeometryNat
<1>2. PICK p \in Nat : p = n \div B
  OBVIOUS
<1>3. PICK q \in Nat : q = p \div B
  OBVIOUS
<1>4. PICK r \in Nat : r = q \div B
  OBVIOUS
<1>5. q = n \div Weight(2)
  BY <1>1, <1>2, <1>3, DivDiv, GeometryNat
<1>6. r = n \div Weight(3)
  <2>1. (B * B) * B = Weight(3) /\ B * B \in Nat \ {0}
    BY <1>1, GeometryNat
  <2>2. PICK c \in Nat \ {0} : c = B * B
    BY <2>1
  <2>3. n \div (c * B) = (n \div c) \div B
    BY DivDiv
  <2>4. n \div c = q
    BY <1>1, <1>5, <2>2, GeometryNat, Zenon
  <2>5. n \div (c * B) = r
    BY <1>4, <2>3, <2>4, Zenon
  <2>6. QED
    BY <2>1, <2>2, <2>5, Zenon
<1>7. PICK x \in Nat : x = n % B
  OBVIOUS
<1>8. PICK y \in Nat : y = p % B
  OBVIOUS
<1>9. PICK z \in Nat : z = q % B
  OBVIOUS
<1>10. n = B * p + x /\ p = B * q + y /\ q = B * r + z
  <2>1. n = B * p + x
    BY <1>2, <1>7, DivMod
  <2>2. p = B * q + y
    BY <1>3, <1>8, DivMod
  <2>3. q = B * r + z
    BY <1>4, <1>9, DivMod
  <2>4. QED
    BY <2>1, <2>2, <2>3
<1>11. n = x + B * (y + B * (z + B * r))
  BY <1>10
<1>12. Digit(n, 0) = x
  <2>1. n \div 1 = n
    OBVIOUS
  <2>2. Digit(n, 0) = (n \div 1) % B
    BY <1>1, GeometryNat, Zenon DEF Digit
  <2>3. QED
    BY <1>7, <2>1, <2>2, Zenon
<1>13. Digit(n, 1) = y
  BY <1>1, <1>2, <1>8, GeometryNat DEF Digit
<1>14. Digit(n, 2) = z
  BY <1>1, <1>5, <1>9 DEF Digit
<1>15. QED
  BY <1>1, <1>6, <1>11, <1>12, <1>13, <1>14

\* A sector number is a uint32_t: four digits are all of it.
LEMMA FourDigits ==
    ASSUME NEW n \in 0 .. Word - 1
    PROVE  /\ n \div Weight(3) = Digit(n, 3)
           /\ n = Digit(n, 0) + Byte * (Digit(n, 1) + Byte * (Digit(n, 2) + Byte * Digit(n, 3)))
<1> USE GeometryNat
<1>1. n \in Nat /\ n < Byte * Weight(3)
  OBVIOUS
<1>2. n \div Weight(3) \in Nat /\ n \div Weight(3) < Byte
  BY <1>1, QuotientBelow
<1>3. PICK q \in 0 .. Byte - 1 : q = n \div Weight(3)
  BY <1>2
<1>4. q % Byte = q
  OBVIOUS
<1>5. n \div Weight(3) = Digit(n, 3)
  BY <1>3, <1>4 DEF Digit
<1>6. QED
  BY <1>1, <1>5, ThreeDigits

\* The number that is put together from six digits.
LEMMA NumberOfSix ==
    ASSUME NEW s, DOMAIN s = 1 .. 6
    PROVE  Number(s) = s[1] + Byte * (s[2] + Byte * (s[3] + Byte * (s[4] + Byte * (s[5] + Byte * s[6]))))
BY DEF Number

\* The number with four digits.
LEMMA NumberOfFour ==
    ASSUME NEW s, DOMAIN s = 1 .. 4, \A k \in 1 .. 4 : s[k] \in Nat
    PROVE  Number(s) = s[1] + Byte * (s[2] + Byte * (s[3] + Byte * s[4]))
<1>1. Number(s) = s[1] + Byte * (s[2] + Byte * (s[3] + Byte * (s[4] + Byte * (0 + Byte * 0))))
  BY DEF Number
<1>2. Byte * (0 + Byte * 0) = 0
  BY GeometryNat
<1>3. QED
  BY <1>1, <1>2

\* The number with two digits.
LEMMA NumberOfTwo ==
    ASSUME NEW s, DOMAIN s = 1 .. 2, \A k \in 1 .. 2 : s[k] \in Nat
    PROVE  Number(s) = s[1] + Byte * s[2]
<1>1. Number(s) = s[1] + Byte * (s[2] + Byte * (0 + Byte * (0 + Byte * (0 + Byte * 0))))
  BY DEF Number
<1>2. Byte * (0 + Byte * (0 + Byte * (0 + Byte * 0))) = 0
  BY GeometryNat
<1>3. QED
  BY <1>1, <1>2

\* The controller reads the sector number that the driver wrote to the entry.
LEMMA DigitsMeet ==
    ASSUME NEW n \in 0 .. Word - 1
    PROVE  /\ [k \in 1 .. 4 |-> Digit(n, k - 1)] \in Registers
           /\ Number([k \in 1 .. 4 |-> Digit(n, k - 1)]) = n
<1> DEFINE s == [k \in 1 .. 4 |-> Digit(n, k - 1)]
<1>1. n \in Nat
  BY GeometryNat
<1>2. \A k \in 1 .. 4 : k - 1 \in 0 .. 3
  OBVIOUS
<1>3. s \in Registers
  BY <1>1, <1>2, DigitFits DEF Registers
<1>4. DOMAIN s = 1 .. 4 /\ \A k \in 1 .. 4 : s[k] \in Nat
  BY <1>3, GeometryNat DEF Registers
<1>5. s[1] = Digit(n, 0) /\ s[2] = Digit(n, 1) /\ s[3] = Digit(n, 2) /\ s[4] = Digit(n, 3)
  OBVIOUS
<1> HIDE DEF s
<1>6. Number(s) = s[1] + Byte * (s[2] + Byte * (s[3] + Byte * s[4]))
  BY <1>4, NumberOfFour
<1>7. QED
  BY <1>3, <1>5, <1>6, FourDigits DEF s

\* What the registers hold in the three modes.
LEMMA LbaRegisters ==
    ASSUME NEW n, NEW mode \in {"lba28", "lba48"}
    PROVE  /\ LowDigits(mode, n) = <<Digit(n, 0), Digit(n, 1), Digit(n, 2)>>
           /\ DriveHead("lba48", n) = 0
           /\ DriveHead("lba28", n) = Digit(n, 3) % Nibble
BY DEF LowDigits, DriveHead

\* The digits that LBA28 and LBA48 write are digits, and the drive puts the
\* number together again.
LEMMA Lba48Meets ==
    ASSUME NEW d, call.lba \in 0 .. Word - 1
    PROVE  Address(Params("lba48", d), TRUE) = call.lba
<1> DEFINE n == call.lba
           r == Params("lba48", d)
           s == <<Digit(n, 0), Digit(n, 1), Digit(n, 2), Digit(n, 3), 0, 0>>
<1>1. <<r.cur[2], r.cur[3], r.cur[4], r.prev[2], r.prev[3], r.prev[4]>> = s
  BY LbaRegisters DEF Params
<1> HIDE DEF r, n
<1>2. Number(s) = Digit(n, 0) + Byte * (Digit(n, 1) + Byte * (Digit(n, 2)
                      + Byte * (Digit(n, 3) + Byte * (0 + Byte * 0))))
  BY NumberOfSix
<1>3. Byte * (0 + Byte * 0) = 0
  BY GeometryTypes
<1>4. n \in 0 .. Word - 1 /\ n \in Nat
  BY GeometryTypes DEF n
<1>5. Digit(n, 3) \in Nat
  BY <1>4, GeometryTypes, DigitFits
<1>6. Number(s) = n
  BY <1>2, <1>3, <1>4, <1>5, FourDigits
<1>7. QED
  BY <1>1, <1>6, Zenon DEF Address, r, n

\* In 28-bit mode the drive understands the number that the driver was given.
LEMMA Lba28Meets ==
    ASSUME NEW d, call.lba \in 0 .. Word - 1, call.lba < Nibble * Weight(3)
    PROVE  Address(Params("lba28", d), FALSE) = call.lba
<1> DEFINE n == call.lba
           r == Params("lba28", d)
           s == <<Digit(n, 0), Digit(n, 1), Digit(n, 2), Digit(n, 3)>>
<1> HIDE DEF n
<1>1. n \in Nat /\ n \in 0 .. Word - 1 /\ n < Nibble * Weight(3)
  BY GeometryTypes DEF n
<1>2. n \div Weight(3) \in Nat /\ n \div Weight(3) < Nibble
  BY <1>1, QuotientBelow, GeometryTypes
<1>3. Digit(n, 3) \in Nat /\ Digit(n, 3) < Nibble
  BY <1>1, <1>2, FourDigits, Zenon
<1>4. DriveHead("lba28", n) = Digit(n, 3)
  <2>1. PICK x \in Nat : x = Digit(n, 3)
    BY <1>3
  <2>2. x % Nibble = x
    BY <1>3, <2>1, GeometryTypes
  <2>3. QED
    BY <2>1, <2>2, LbaRegisters
<1>5. <<r.cur[2], r.cur[3], r.cur[4], r.head>> = s /\ r.flat
  <2>1. r.head = DriveHead("lba28", n) /\ r.flat = ("lba28" # "chs")
    BY Zenon DEF Params, n
  <2>2. r.cur[2] = Digit(n, 0) /\ r.cur[3] = Digit(n, 1) /\ r.cur[4] = Digit(n, 2)
    BY LbaRegisters DEF Params, n
  <2>3. QED
    BY <1>4, <2>1, <2>2
<1>6. \A k \in 0 .. 3 : Digit(n, k) \in Nat
  BY <1>1, DigitFits, GeometryTypes
<1>7. \A k \in 1 .. 4 : s[k] \in Nat
  BY <1>6
<1>8. Number(s) = s[1] + Byte * (s[2] + Byte * (s[3] + Byte * s[4]))
  BY <1>7, NumberOfFour
<1>9. Number(s) = n
  BY <1>1, <1>8, FourDigits
<1>10. QED
  BY <1>5, <1>9, Zenon DEF Address, n

\* Two digits are enough below Byte squared.
LEMMA TwoDigits ==
    ASSUME NEW n \in Nat
    PROVE  n < Weight(2) => n = Digit(n, 0) + Byte * Digit(n, 1)
<1>1. PICK B \in Nat \ {0} : B = Byte
  BY GeometryTypes
<1>2. PICK q \in Nat : q = n \div B
  OBVIOUS
<1>3. PICK r \in 0 .. B - 1 : r = n % B
  OBVIOUS
<1>4. n = B * q + r
  BY <1>2, <1>3, DivMod
<1>5. n < B * B => q % B = q
  <2>1. n < B * B => n \div B < B
    BY QuotientBelow
  <2>2. q < B => q % B = q
    OBVIOUS
  <2>3. QED
    BY <1>2, <2>1, <2>2
<1>6. Digit(n, 0) = r
  <2>1. n \div 1 = n
    OBVIOUS
  <2>2. Digit(n, 0) = (n \div 1) % B
    BY <1>1, GeometryNat, Zenon DEF Digit
  <2>3. QED
    BY <1>3, <2>1, <2>2, Zenon
<1>7. Digit(n, 1) = q % B
  <2>1. Digit(n, 1) = (n \div B) % B
    BY <1>1, GeometryNat, Zenon DEF Digit
  <2>2. QED
    BY <1>2, <2>1, Zenon
<1>8. Weight(2) = B * B
  BY <1>1, GeometryNat, Zenon
<1>9. n = r + B * q
  BY <1>4
<1>10. QED
  BY <1>1, <1>5, <1>6, <1>7, <1>8, <1>9, Zenon

\* Cylinder, head and sector of a number, as the driver computes them.
LEMMA Geometry ==
    ASSUME NEW n \in Nat
    PROVE  \E p \in Nat, h \in 0 .. Nibble - 1, t \in 0 .. SectorsPerTrack - 1 :
              /\ n = (p * Nibble + h) * SectorsPerTrack + t
              /\ n % SectorsPerTrack = t
              /\ (n - t) \div (Nibble * SectorsPerTrack) = p
              /\ ((n - t) % (Nibble * SectorsPerTrack)) \div SectorsPerTrack = h
              /\ n < Weight(2) * Nibble * SectorsPerTrack => p < Weight(2)
<1>1. PICK S \in Nat \ {0} : S = SectorsPerTrack
  BY GeometryTypes
<1>2. PICK N \in Nat \ {0} : N = Nibble
  BY GeometryTypes
<1>3. PICK q \in Nat : q = n \div S
  OBVIOUS
<1>4. PICK t \in 0 .. S - 1 : t = n % S
  OBVIOUS
<1>5. n = S * q + t
  BY <1>3, <1>4, DivMod
<1>6. PICK p \in Nat : p = q \div N
  OBVIOUS
<1>7. PICK h \in 0 .. N - 1 : h = q % N
  OBVIOUS
<1>8. q = N * p + h
  BY <1>6, <1>7, DivMod
<1>9. n = (p * N + h) * S + t
  BY <1>5, <1>8
<1>10. N * S \in Nat \ {0}
  OBVIOUS
<1>11. S * h \in 0 .. N * S - 1
  <2>1. PICK k \in Nat : N = h + 1 + k
    <3>1. N - 1 - h \in Nat /\ N = h + 1 + (N - 1 - h)
      OBVIOUS
    <3>2. QED
      BY <3>1
  <2>2. N * S = S * h + S + S * k
    BY <2>1
  <2>3. S * h \in Nat /\ S * k \in Nat
    OBVIOUS
  <2>4. PICK x \in Nat : x = S * h
    BY <2>3
  <2>5. PICK y \in Nat : y = S * k
    BY <2>3
  <2>6. QED
    BY <2>2, <2>4, <2>5
<1>12. PICK m \in Nat : m = S * q
  OBVIOUS
<1>13. m = (N * S) * p + S * h
  BY <1>8, <1>12
<1>14. m \div (N * S) = p /\ m % (N * S) = S * h
  BY <1>10, <1>11, <1>13, DivUnique
<1>15. (S * h) \div S = h
  <2>1. S * h = S * h + 0 /\ 0 \in 0 .. S - 1 /\ h \in Nat
    OBVIOUS
  <2>2. PICK x \in Nat : x = S * h
    OBVIOUS
  <2>3. x = S * h + 0
    BY <2>2
  <2>4. x \div S = h
    BY <2>1, <2>3, DivUnique
  <2>5. QED
    BY <2>2, <2>4
<1>16. n - t = m
  BY <1>5, <1>12
<1>17. ASSUME n < Weight(2) * N * S
       PROVE  p < Weight(2)
  <2>1. PICK W \in Nat \ {0} : W = Weight(2)
    BY GeometryTypes
  <2>2. PICK x \in Nat : x = W * N
    OBVIOUS
  <2>3. n < x * S
    BY <1>17, <2>1, <2>2
  <2>4. q < x
    BY <1>3, <2>3, QuotientBelow
  <2>5. q < W * N
    BY <2>2, <2>4
  <2>6. q \div N < W
    BY <2>5, QuotientBelow
  <2>7. QED
    BY <1>6, <2>1, <2>6
<1>18. (n - t) \div (N * S) = p /\ ((n - t) % (N * S)) \div S = h
  BY <1>14, <1>15, <1>16, Zenon
<1>19. QED
  BY <1>1, <1>2, <1>4, <1>9, <1>17, <1>18, Zenon

\* What the driver writes for a number in CHS mode.
LEMMA ChsRegisters ==
    ASSUME NEW n \in Nat
    PROVE  \E p \in Nat, h \in 0 .. Nibble - 1, t \in 0 .. SectorsPerTrack - 1 :
              /\ n = (p * Nibble + h) * SectorsPerTrack + t
              /\ LowDigits("chs", n) = <<t + 1, Digit(p, 0), Digit(p, 1)>>
              /\ DriveHead("chs", n) = h
              /\ n < Weight(2) * Nibble * SectorsPerTrack => p < Weight(2)
<1> DEFINE M == Nibble * SectorsPerTrack
           P(p, h, t) ==
              /\ n = (p * Nibble + h) * SectorsPerTrack + t
              /\ n % SectorsPerTrack = t
              /\ (n - t) \div M = p
              /\ ((n - t) % M) \div SectorsPerTrack = h
              /\ n < Weight(2) * Nibble * SectorsPerTrack => p < Weight(2)
<1>1. \E p \in Nat, h \in 0 .. Nibble - 1, t \in 0 .. SectorsPerTrack - 1 : P(p, h, t)
  BY Geometry
<1> SUFFICES ASSUME NEW p \in Nat, NEW h \in 0 .. Nibble - 1, NEW t \in 0 .. SectorsPerTrack - 1,
                    P(p, h, t)
             PROVE  /\ LowDigits("chs", n) = <<t + 1, Digit(p, 0), Digit(p, 1)>>
                    /\ DriveHead("chs", n) = h
  BY <1>1
<1>2. \A x : x = t + 1 => n + 1 - x = n - t
  OBVIOUS
<1>3. DriveHead("chs", n) = ((n - (n % SectorsPerTrack)) % M) \div SectorsPerTrack
  BY DEF DriveHead
<1>4. LowDigits("chs", n) =
        <<(n % SectorsPerTrack) + 1,
          Digit((n + 1 - ((n % SectorsPerTrack) + 1)) \div M, 0),
          Digit((n + 1 - ((n % SectorsPerTrack) + 1)) \div M, 1)>>
  BY DEF LowDigits
<1>5. n % SectorsPerTrack = t /\ (n - t) \div M = p /\ ((n - t) % M) \div SectorsPerTrack = h
  OBVIOUS
<1> HIDE DEF M, P
<1>6. DriveHead("chs", n) = h
  BY <1>3, <1>5, Zenon
<1>7. (n + 1 - ((n % SectorsPerTrack) + 1)) \div M = p
  <2>1. (n % SectorsPerTrack) + 1 = t + 1
    BY <1>5, Zenon
  <2>2. n + 1 - ((n % SectorsPerTrack) + 1) = n - t
    BY <1>2, <2>1, Zenon
  <2>3. QED
    BY <1>5, <2>2, Zenon
<1>8. LowDigits("chs", n) = <<t + 1, Digit(p, 0), Digit(p, 1)>>
  BY <1>4, <1>5, <1>7, Zenon
<1>9. QED
  BY <1>6, <1>8

\* By cylinder, head and sector it does where the geometry reaches.
LEMMA ChsMeets ==
    ASSUME NEW d, call.lba \in 0 .. Word - 1,
           call.lba < Weight(2) * Nibble * SectorsPerTrack
    PROVE  Address(Params("chs", d), FALSE) = call.lba
<1> DEFINE n == call.lba
           r == Params("chs", d)
<1> HIDE DEF n
<1>1. n \in Nat /\ n < Weight(2) * Nibble * SectorsPerTrack
  BY GeometryTypes DEF n
<1> SUFFICES ASSUME NEW p \in Nat, NEW h \in 0 .. Nibble - 1, NEW t \in 0 .. SectorsPerTrack - 1,
                    n = (p * Nibble + h) * SectorsPerTrack + t,
                    LowDigits("chs", n) = <<t + 1, Digit(p, 0), Digit(p, 1)>>,
                    DriveHead("chs", n) = h,
                    p < Weight(2)
             PROVE  Address(r, FALSE) = n
  BY <1>1, ChsRegisters DEF n
<1>2. r.head = h /\ r.flat = ("chs" # "chs")
  BY Zenon DEF Params, n
<1>3. r.cur[2] = t + 1 /\ r.cur[3] = Digit(p, 0) /\ r.cur[4] = Digit(p, 1)
  BY DEF Params, n
<1> DEFINE s == <<r.cur[3], r.cur[4]>>
<1>4. Digit(p, 0) \in Nat /\ Digit(p, 1) \in Nat
  <2>1. \A k \in 0 .. 3 : Digit(p, k) \in Nat
    BY DigitFits, GeometryTypes
  <2>2. QED
    BY <2>1
<1>5. Number(s) = s[1] + Byte * s[2]
  <2>1. \A k \in 1 .. 2 : s[k] \in Nat
    BY <1>3, <1>4
  <2>2. QED
    BY <2>1, NumberOfTwo
<1>6. Number(s) = p
  BY <1>3, <1>5, TwoDigits
<1>7. Address(r, FALSE) = (Number(s) * Nibble + r.head) * SectorsPerTrack + r.cur[2] - 1
  BY <1>2, Zenon DEF Address
<1>8. Address(r, FALSE) = (p * Nibble + h) * SectorsPerTrack + (t + 1) - 1
  BY <1>2, <1>3, <1>6, <1>7, Zenon
<1>9. PICK x \in Nat : x = (p * Nibble + h) * SectorsPerTrack
  BY GeometryTypes
<1>10. t \in Nat
  OBVIOUS
<1>11. x + (t + 1) - 1 = x + t
  BY <1>10
<1>12. QED
  BY <1>8, <1>9, <1>11, Zenon

\* The three modes.
Modes == {"lba48", "lba28", "chs"}

\* Every part of a sector number fits the register that it is written to.
LEMMA PartsFit ==
    ASSUME NEW n \in 0 .. Word - 1, NEW mode \in Modes
    PROVE  /\ \A k \in 1 .. 3 : LowDigits(mode, n)[k] \in 0 .. Byte - 1
           /\ DriveHead(mode, n) \in 0 .. Nibble - 1
<1> n \in Nat
  BY GeometryTypes
<1>1. \A m \in Nat : \A k \in 0 .. 3 : Digit(m, k) \in 0 .. Byte - 1
  BY DigitFits
<1>2. CASE mode = "chs"
  <2>1. PICK p \in Nat, h \in 0 .. Nibble - 1, t \in 0 .. SectorsPerTrack - 1 :
            /\ LowDigits("chs", n) = <<t + 1, Digit(p, 0), Digit(p, 1)>>
            /\ DriveHead("chs", n) = h
    BY ChsRegisters
  <2>2. t + 1 \in 0 .. Byte - 1
    BY GeometryTypes
  <2>3. QED
    BY <1>1, <1>2, <2>1, <2>2
<1>3. CASE mode # "chs"
  <2>1. PICK x \in Nat : x = Digit(n, 3)
    BY <1>1, GeometryTypes
  <2>2. 0 \in 0 .. Nibble - 1 /\ x % Nibble \in 0 .. Nibble - 1
    BY GeometryTypes
  <2>3. mode \in {"lba28", "lba48"}
    BY <1>3 DEF Modes
  <2>4. DriveHead(mode, n) \in 0 .. Nibble - 1
    BY <2>1, <2>2, <2>3, LbaRegisters
  <2>5. LowDigits(mode, n) = <<Digit(n, 0), Digit(n, 1), Digit(n, 2)>>
    BY <2>3, LbaRegisters
  <2>6. QED
    BY <1>1, <2>4, <2>5
<1>4. QED
  BY <1>2, <1>3

\* What send_params writes fits the registers.
LEMMA ParamsType ==
    ASSUME CallTypes, IdeTypes, NEW mode \in Modes, NEW d \in Drives
    PROVE  Params(mode, d) \in [sel : Drives, flat : BOOLEAN, head : 0 .. Nibble - 1,
                                cur : Registers, prev : Registers]
<1> DEFINE low == LowDigits(mode, call.lba)
<1>1. call.lba \in 0 .. Word - 1 /\ call.count \in 0 .. 1
  BY DEF CallTypes, Requests
<1>2. \A k \in 1 .. 3 : low[k] \in 0 .. Byte - 1
  BY <1>1, PartsFit
<1>3. DriveHead(mode, call.lba) \in 0 .. Nibble - 1
  BY <1>1, PartsFit
<1> HIDE DEF low
<1>4. <<call.count, low[1], low[2], low[3]>> \in Registers
  BY <1>1, <1>2, GeometryTypes DEF Registers
<1>5. Digit(call.lba, 3) \in 0 .. Byte - 1
  <2>1. call.lba \in Nat
    BY <1>1, GeometryTypes
  <2>2. QED
    BY <2>1, DigitFits
<1>6. <<0, Digit(call.lba, 3), 0, 0>> \in Registers
  BY <1>5, GeometryTypes DEF Registers
<1>7. regs.cur \in Registers
  BY DEF IdeTypes
<1>8. (mode # "chs") \in BOOLEAN
  OBVIOUS
<1>9. (IF mode = "lba48" THEN <<0, Digit(call.lba, 3), 0, 0>> ELSE regs.cur) \in Registers
  BY <1>6, <1>7
<1>10. QED
  BY <1>3, <1>4, <1>8, <1>9 DEF Params, low

\* What a drive understands is a number.
LEMMA AddressType ==
    ASSUME NEW r \in [sel : Drives, flat : BOOLEAN, head : 0 .. Nibble - 1,
                      cur : Registers, prev : Registers], NEW ext \in BOOLEAN
    PROVE  Address(r, ext) \in Int
<1>1. /\ r.cur[2] \in Nat /\ r.cur[3] \in Nat /\ r.cur[4] \in Nat
      /\ r.prev[2] \in Nat /\ r.prev[3] \in Nat /\ r.prev[4] \in Nat /\ r.head \in Nat
  BY GeometryTypes DEF Registers
<1>2. \A a \in Nat : Byte * a \in Nat
  BY GeometryTypes
<1>3. \A a, b \in Nat : a + b \in Nat
  OBVIOUS
<1>4. Number(<<r.cur[2], r.cur[3], r.cur[4], r.prev[2], r.prev[3], r.prev[4]>>) \in Nat
  <2> DEFINE s == <<r.cur[2], r.cur[3], r.cur[4], r.prev[2], r.prev[3], r.prev[4]>>
  <2>1. Number(s) = s[1] + Byte * (s[2] + Byte * (s[3] + Byte * (s[4] + Byte * (s[5] + Byte * s[6]))))
    BY NumberOfSix
  <2>2. \A k \in 1 .. 6 : s[k] \in Nat
    BY <1>1
  <2> HIDE DEF s
  <2>3. /\ s[1] \in Nat /\ s[2] \in Nat /\ s[3] \in Nat /\ s[4] \in Nat /\ s[5] \in Nat /\ s[6] \in Nat
    BY <2>2
  <2>4. s[5] + Byte * s[6] \in Nat
    BY <1>2, <1>3, <2>3, Zenon
  <2>5. s[4] + Byte * (s[5] + Byte * s[6]) \in Nat
    BY <1>2, <1>3, <2>3, <2>4, Zenon
  <2>6. s[3] + Byte * (s[4] + Byte * (s[5] + Byte * s[6])) \in Nat
    BY <1>2, <1>3, <2>3, <2>5, Zenon
  <2>7. s[2] + Byte * (s[3] + Byte * (s[4] + Byte * (s[5] + Byte * s[6]))) \in Nat
    BY <1>2, <1>3, <2>3, <2>6, Zenon
  <2>8. Number(s) \in Nat
    BY <1>2, <1>3, <2>1, <2>3, <2>7, Zenon
  <2>9. QED
    BY <2>8 DEF s
<1>5. Number(<<r.cur[2], r.cur[3], r.cur[4], r.head>>) \in Nat
  <2> DEFINE s == <<r.cur[2], r.cur[3], r.cur[4], r.head>>
  <2>1. \A k \in 1 .. 4 : s[k] \in Nat
    BY <1>1
  <2>2. Number(s) = s[1] + Byte * (s[2] + Byte * (s[3] + Byte * s[4]))
    BY <2>1, NumberOfFour
  <2> HIDE DEF s
  <2>3. /\ s[1] \in Nat /\ s[2] \in Nat /\ s[3] \in Nat /\ s[4] \in Nat
    BY <2>1
  <2>4. s[3] + Byte * s[4] \in Nat
    BY <1>2, <1>3, <2>3, Zenon
  <2>5. s[2] + Byte * (s[3] + Byte * s[4]) \in Nat
    BY <1>2, <1>3, <2>3, <2>4, Zenon
  <2>6. Number(s) \in Nat
    BY <1>2, <1>3, <2>2, <2>3, <2>5, Zenon
  <2>7. QED
    BY <2>6 DEF s
<1>6. Number(<<r.cur[3], r.cur[4]>>) \in Nat
  <2> DEFINE s == <<r.cur[3], r.cur[4]>>
  <2>1. \A k \in 1 .. 2 : s[k] \in Nat
    BY <1>1
  <2>2. Number(s) = s[1] + Byte * s[2]
    BY <2>1, NumberOfTwo
  <2> HIDE DEF s
  <2>3. s[1] \in Nat /\ s[2] \in Nat
    BY <2>1
  <2>4. Number(s) \in Nat
    BY <1>2, <1>3, <2>2, <2>3, Zenon
  <2>5. QED
    BY <2>4 DEF s
<1>7. \A a \in Nat : (a * Nibble + r.head) * SectorsPerTrack + r.cur[2] - 1 \in Int
  BY <1>1, GeometryTypes
<1>8. QED
  BY <1>4, <1>5, <1>6, <1>7 DEF Address

\* The drive understands the number that the driver was given.
LEMMA AddressMeets ==
    ASSUME NEW d, NEW flat \in BOOLEAN, call.lba \in 0 .. Word - 1,
           ~flat /\ call.lba < Nibble * Weight(3)
               => call.lba < Weight(2) * Nibble * SectorsPerTrack
    PROVE  LET mode == LbaMode(call.lba, flat)
           IN  mode \in Modes /\ Address(Params(mode, d), mode = "lba48") = call.lba
<1> DEFINE mode == LbaMode(call.lba, flat)
           low == Nibble * Weight(3)
<1>1. low \in Nat /\ call.lba \in Int
  BY GeometryTypes
<1>2. CASE call.lba >= low
  <2>1. mode = "lba48"
    BY <1>2, Zenon DEF LbaMode
  <2>2. QED
    BY <2>1, Lba48Meets, Zenon DEF Modes
<1>3. CASE ~(call.lba >= low) /\ flat
  <2>1. mode = "lba28"
    BY <1>3, Zenon DEF LbaMode
  <2>2. call.lba < low
    BY <1>1, <1>3
  <2>3. ("lba28" = "lba48") = FALSE
    OBVIOUS
  <2>4. QED
    BY <2>1, <2>2, <2>3, Lba28Meets, Zenon DEF Modes
<1>4. CASE ~(call.lba >= low) /\ ~flat
  <2>1. mode = "chs"
    BY <1>4, Zenon DEF LbaMode
  <2>2. call.lba < low
    BY <1>1, <1>4
  <2>3. ("chs" = "lba48") = FALSE
    OBVIOUS
  <2>4. QED
    BY <1>4, <2>1, <2>2, <2>3, ChsMeets, Zenon DEF Modes
<1>5. QED
  BY <1>2, <1>3, <1>4

------------------------------------------------------------------------------
(* The machine and the AHCI command table.                                 *)

\* The ports are numbered from 0, and there is a first command slot.
LEMMA MachineShape ==
    ASSUME machine \in Machines
    PROVE  /\ \E n \in Nat : Ports = 0 .. n - 1
           /\ IsFiniteSet(Ports) /\ Cardinality(Ports) \in Nat
           /\ machine.ncs \in Nat /\ machine.deaf \in BOOLEAN
           /\ 0 \in Slots /\ Slots \subseteq Nat
<1>1. IsMachine(machine)
  BY DiskAssumption
<1>2. IsFiniteSet(Ports)
  BY <1>1 DEF IsMachine, Ports
<1>3. Cardinality(Ports) \in Nat
  BY <1>2, FS_CardinalityType
<1>4. Ports = 0 .. Cardinality(Ports) - 1
  BY <1>1 DEF IsMachine, Ports
<1>5. machine.ncs \in Nat /\ machine.deaf \in BOOLEAN
  BY <1>1 DEF IsMachine
<1>6. QED
  BY <1>2, <1>3, <1>4, <1>5 DEF Slots

\* A set of numbers has a smallest element.
LEMMA SmallestExists ==
    ASSUME NEW S \in SUBSET Nat, S # {}
    PROVE  \E x \in S : \A y \in S : x <= y
<1>1. \E x \in S : \A y \in S : ~ (<<y, x>> \in OpToRel(<, Nat))
  BY NatLessThanWellFounded, WFMin
<1>2. PICK x \in S : \A y \in S : ~ (<<y, x>> \in OpToRel(<, Nat))
  BY <1>1
<1>3. \A y \in S : <<y, x>> \in OpToRel(<, Nat) <=> y < x
  BY DEF OpToRel
<1>4. \A y \in S : ~ (y < x)
  BY <1>2, <1>3, Zenon
<1>5. QED
  BY <1>4

\* The slot that find_cmdslot takes is free and is there.
LEMMA SlotTaken ==
    ASSUME machine \in Machines, FreeSlots # {},
           NEW s, s = CHOOSE x \in FreeSlots : \A t \in FreeSlots : x <= t
    PROVE  s \in Slots /\ s \notin Port.ci
<1>1. machine.ncs \in Nat
  BY MachineShape
<1>2. cmdslots \in Nat /\ cmdslots <= machine.ncs
  BY <1>1 DEF cmdslots
<1>3. FreeSlots \subseteq Nat
  BY <1>2 DEF FreeSlots
<1>4. \E x \in FreeSlots : \A t \in FreeSlots : x <= t
  BY <1>3, SmallestExists
<1>5. s \in FreeSlots
  BY <1>4
<1>6. s \in 0 .. cmdslots - 1 /\ s \notin Port.ci
  BY <1>5 DEF FreeSlots
<1>7. QED
  BY <1>1, <1>2, <1>6 DEF Slots

\* The PRDT has room for what is asked for.
LEMMA RoomIsEnough ==
    ASSUME NEW count \in 0 .. 1
    PROVE  Room(count) \in Nat /\ Room(count) >= 1
<1>1. PICK S \in Nat \ {0} : S = SectorsPerEntry
  BY AhciAssumption
<1>2. PICK E \in Nat \ {0} : E = EntryLimit
  BY AhciAssumption
<1>3. PICK q \in Nat : q = count \div S
  OBVIOUS
<1>4. PICK r \in 0 .. S - 1 : r = count % S
  OBVIOUS
<1>5. q * S \in Nat
  OBVIOUS
<1>6. PICK x \in Nat : x = q * S
  BY <1>5
<1>7. Room(count) = x + (IF r = 0 THEN E ELSE r)
  BY <1>1, <1>2, <1>3, <1>4, <1>6, Zenon DEF Room
<1>8. QED
  BY <1>7

\* What a call asks for is one sector or one identification.
LEMMA AskedIsOne ==
    ASSUME call.count = 1, call.lba \in Int
    PROVE  /\ Asked \in Seq(Int) /\ Len(Asked) = 1
           /\ call.op # "identify" => Asked = <<call.lba>>
<1>1. CASE call.op = "identify"
  BY <1>1 DEF Asked, Identification
<1>2. CASE call.op # "identify"
  <2>1. Asked = [k \in 1 .. 1 |-> call.lba + k - 1]
    BY <1>2 DEF Asked
  <2>2. [k \in 1 .. 1 |-> call.lba + k - 1] = <<call.lba>>
    OBVIOUS
  <2>3. QED
    BY <1>2, <2>1, <2>2
<1>3. QED
  BY <1>1, <1>2

\* What the controller moves for the entry of a call is what it asked for.
LEMMA ServedIsAsked ==
    ASSUME call \in Requests, call.count = 1, NEW c,
           c.op = call.op, c.count = 1, c.room \in Nat, c.room >= 1,
           c.lba = [k \in 1 .. 4 |-> Digit(call.lba, k - 1)]
    PROVE  Served(c) = IF Reaches(c) THEN Asked ELSE <<>>
<1>1. call.lba \in 0 .. Word - 1
  BY DEF Requests
<1>2. Number(c.lba) = call.lba
  BY <1>1, DigitsMeet
<1>3. Lowest(c.count, c.room) = 1
  BY DEF Lowest
<1>4. QED
  BY <1>2, <1>3 DEF Served, Asked

------------------------------------------------------------------------------
(* The drives of the IDE channel.                                          *)

\* The call is the same, but may be marked as one that met an error.
SameCall ==
    /\ call' \in Requests
    /\ call'.op = call.op /\ call'.unit = call.unit /\ call'.lba = call.lba
    /\ call'.count = call.count /\ call'.sent = call.sent
    /\ call'.taken = call.taken /\ call'.result = call.result
    /\ call.failed => call'.failed

\* A call that is marked as failed is the same call.
LEMMA MarkedFailed ==
    ASSUME call \in Requests, call' = [call EXCEPT !.failed = TRUE]
    PROVE  SameCall /\ call'.failed
BY DEF Requests, SameCall

\* So is one that did not change.
LEMMA UnchangedIsSame ==
    ASSUME call \in Requests, call' = call
    PROVE  SameCall
BY DEF SameCall

\* The same call asks for the same sectors.
LEMMA SameQuestion ==
    ASSUME SameCall, UNCHANGED <<nports, ide_devices>>
    PROVE  Asked' = Asked /\ Addressable' = Addressable
BY DEF SameCall, Asked, Addressable, OnIde

\* What a drive's step does to the drive, the call and what was moved.
Steps(d, new) ==
    \/ /\ new = [busy |-> FALSE, left |-> 0, err |-> TRUE, job |-> NoJob]
       /\ SameCall /\ call'.failed /\ moved' = moved
    \/ /\ new = [busy |-> FALSE, left |-> Quads, err |-> FALSE, job |-> drv[d].job]
       /\ drv[d].job.cmd \in {"identify", "identify_packet", "read", "write"}
       /\ call' = call /\ moved' = moved
    \/ /\ new = [busy |-> FALSE, left |-> 0, err |-> FALSE, job |-> NoJob]
       /\ drv[d].job.cmd = "store" /\ pc = "ata_flush"
       /\ call' = call /\ moved = <<>> /\ moved' = <<drv[d].job.lba>>
    \/ /\ new = [busy |-> FALSE, left |-> 0, err |-> FALSE, job |-> NoJob]
       /\ drv[d].job.cmd = "flush"
       /\ call' = call /\ moved' = moved

\* A drive that stores is the one selected, in a write, and the sector is its last.
LEMMA StoresInFlush ==
    ASSUME IInv, NEW d \in Drives, drv[d].job.cmd = "store"
    PROVE  /\ pc = "ata_flush" /\ d = regs.sel /\ call.taken /\ moved = <<>>
           /\ JobIsCall(drv[d].job)
<1>1. pc \in {"ata_poll", "ata_flush"} /\ d = regs.sel /\ call.taken
  BY DEF IInv, OnlySelected
<1>2. call.op \in {"read", "write"}
  BY <1>1 DEF IInv, InDriver, IdePcs
<1>3. pc # "ata_poll"
  BY <1>1, <1>2 DEF IInv, OnDrive, Transfer
<1>4. Storing(drv[d])
  BY <1>1, <1>3 DEF IInv, OnDrive
<1>5. QED
  BY <1>1, <1>3, <1>4 DEF Storing

\* Every step of a drive is one of Steps, and changes nothing else.
LEMMA DriveStepsAre ==
    ASSUME IInv, NEW d \in Drives, DriveStep(d)
    PROVE  /\ UNCHANGED <<machine, pc, regs, ide_devices, j, ahci_vars, cmd>>
           /\ drv[d].busy
           /\ \E new : drv' = [drv EXCEPT ![d] = new] /\ Steps(d, new)
<1>1. UNCHANGED <<machine, pc, regs, ide_devices, j, ahci_vars, cmd>>
  BY DEF DriveStep, DriveAnswers, DriveFails, DriveReady, DriveStores, DriveFlushes
<1>2. call \in Requests
  BY DEF IInv, CallTypes
<1>3. CASE DriveFails(d)
  BY <1>1, <1>2, <1>3, MarkedFailed DEF DriveFails, Settle, Steps
<1>4. CASE DriveReady(d)
  BY <1>1, <1>2, <1>4 DEF DriveReady, Settle, Steps
<1>5. CASE DriveFlushes(d)
  BY <1>1, <1>2, <1>5 DEF DriveFlushes, Settle, Steps
<1>6. CASE DriveStores(d)
  <2>1. drv[d].busy /\ drv[d].job.cmd = "store"
    BY <1>6 DEF DriveStores
  <2>2. /\ pc = "ata_flush" /\ moved = <<>> /\ drv[d].job.todo = 1
    BY <2>1, StoresInFlush DEF JobIsCall
  <2>3. drv[d].job \in Jobs
    BY DEF IInv, IdeTypes, DriveStates
  <2>4. [drv[d].job EXCEPT !.cmd = "write"].todo = 1
    BY <2>2, <2>3 DEF Jobs
  <2>5. NextSector([drv[d].job EXCEPT !.cmd = "write"]) = NoJob
    BY <2>4, Zenon DEF NextSector
  <2>6. drv' = [drv EXCEPT ![d] = [busy |-> FALSE, left |-> 0, err |-> FALSE, job |-> NoJob]]
    BY <1>6, <2>5, Zenon DEF DriveStores, Settle
  <2>7. moved' = <<drv[d].job.lba>> /\ call' = call
    <3>1. moved' = Append(moved, drv[d].job.lba) /\ call' = call
      BY <1>6, Zenon DEF DriveStores
    <3>2. QED
      BY <2>2, <3>1
  <2>8. QED
    BY <1>1, <2>1, <2>2, <2>6, <2>7, Zenon DEF Steps
<1>7. QED
  BY <1>3, <1>4, <1>5, <1>6 DEF DriveStep, DriveAnswers

\* The jobs of a drive.
LEMMA JobTypes == NoJob \in Jobs
BY DEF NoJob, Job, Jobs

\* A sector has at least two words.
LEMMA QuadsNat == Quads \in Nat /\ Quads >= 2
BY DiskAssumption

\* What happens on the IDE channel or in the driver does not concern a port.
LEMMA PortsUntouched ==
    ASSUME AhciTypes, PortOwned, OnPort, EntryFilled,
           UNCHANGED <<machine, pc, ahci_vars>>, SameCall,
           pc \in Polling => moved' = moved
    PROVE  AhciTypes' /\ PortOwned' /\ OnPort' /\ EntryFilled'
<1>1. UNCHANGED <<machine, pc, ports, nports, hba, spin, slot>> /\ call'.unit = call.unit
  BY DEF ahci_vars, SameCall
<1>2. AhciTypes'
  BY <1>1 DEF AhciTypes, Ports, Slots, PortStates
<1>3. PortOwned'
  BY <1>1 DEF PortOwned, Ports, Slots
<1>4. EntryFilled'
  BY <1>1 DEF EntryFilled, SameCall
<1>5. OnPort'
  <2>1. \A p : Quiet(p)' = Quiet(p)
    BY <1>1 DEF Quiet
  <2>2. ASSUME pc \in Polling
        PROVE  Asked' = Asked /\ moved' = moved /\ (call.failed => call'.failed)
    BY <2>2 DEF SameCall, Asked
  <2>3. ASSUME pc \in Polling
        PROVE  \/ Pending(call.unit)' \/ Served_(call.unit)'
               \/ Failed(call.unit)' \/ Stuck(call.unit)'
    <3>1. \/ Pending(call.unit) \/ Served_(call.unit) \/ Failed(call.unit) \/ Stuck(call.unit)
      BY <2>3 DEF OnPort
    <3>2. QED
      BY <1>1, <2>1, <2>2, <2>3, <3>1 DEF Pending, Served_, Failed, Stuck, Reaches, Misdirected
  <2>4. QED
    BY <1>1, <2>1, <2>3 DEF OnPort, Ports
<1>6. QED
  BY <1>2, <1>3, <1>4, <1>5

\* The sector of a call is a number.
LEMMA LbaNumber ==
    ASSUME CallTypes
    PROVE  call.lba \in Int /\ call.lba \in 0 .. Word - 1
<1>1. call.lba \in 0 .. Word - 1
  BY DEF CallTypes, Requests
<1>2. Word \in Nat
  BY GeometryTypes
<1>3. QED
  BY <1>1, <1>2

\* A step of a drive keeps the invariant.
LEMMA DriveKeeps ==
    ASSUME IInv, NEW d \in Drives, DriveStep(d)
    PROVE  IInv'
<1>1. /\ UNCHANGED <<machine, pc, regs, ide_devices, j, ahci_vars, cmd>>
      /\ drv[d].busy
      /\ \E new : drv' = [drv EXCEPT ![d] = new] /\ Steps(d, new)
  BY DriveStepsAre
<1>2. PICK new : drv' = [drv EXCEPT ![d] = new] /\ Steps(d, new)
  BY <1>1
<1>3. SameCall
  BY <1>2, UnchangedIsSame DEF Steps, IInv, CallTypes
<1>4. UNCHANGED <<machine, pc, regs, ide_devices, j, ports, nports, hba, spin, slot, cmd>>
  BY <1>1 DEF ahci_vars
<1>5. drv[d] \in DriveStates /\ drv \in [Drives -> DriveStates]
  BY DEF IInv, IdeTypes
<1>6. new \in DriveStates
  <2>1. drv[d].job \in Jobs
    BY <1>5 DEF DriveStates
  <2>2. \A left \in 0 .. Quads, err \in BOOLEAN, job \in Jobs :
            [busy |-> FALSE, left |-> left, err |-> err, job |-> job] \in DriveStates
    BY DEF DriveStates
  <2>3. 0 \in 0 .. Quads /\ Quads \in 0 .. Quads
    BY QuadsNat
  <2>4. QED
    BY <1>2, <2>1, <2>2, <2>3, JobTypes, Zenon DEF Steps
<1>7. drv'[d] = new /\ \A e \in Drives : e # d => drv'[e] = drv[e]
  BY <1>2, <1>5
<1>8. CallTypes' /\ IdeTypes'
  BY <1>2, <1>3, <1>4, <1>5, <1>6 DEF IInv, CallTypes, IdeTypes, SameCall, Requests, Ports
<1>9. moved' = moved \/ (pc = "ata_flush" /\ d = regs.sel /\ call.taken /\ drv[d].job.cmd = "store"
                         /\ JobIsCall(drv[d].job) /\ moved' = <<drv[d].job.lba>>)
  BY <1>2, StoresInFlush DEF Steps
<1>10. AhciTypes' /\ PortOwned' /\ OnPort' /\ EntryFilled'
  <2>1. pc \in Polling => moved' = moved
    BY <1>9 DEF Polling
  <2>2. QED
    BY <1>1, <1>3, <2>1, PortsUntouched DEF IInv
<1>11. Booted' /\ InDriver'
  BY <1>3, <1>4 DEF IInv, Booted, InDriver, SameCall, Ports
<1>12. (new.job = drv[d].job /\ drv[d].job.cmd # "store") \/ new.job = NoJob
  BY <1>2 DEF Steps
<1>13. OnlySelected'
  <2>1. NoJob.cmd = "none"
    BY DEF NoJob, Job
  <2>2. ASSUME NEW e \in Drives, drv'[e].job.cmd \in {"read", "write", "store"}
        PROVE  /\ drv'[e] = drv[e] \/ drv'[e].job.cmd # "store"
               /\ drv[e].job.cmd \in {"read", "write", "store"}
    BY <1>7, <1>12, <2>1, <2>2
  <2>3. QED
    BY <1>3, <1>4, <2>2 DEF IInv, OnlySelected, SameCall
<1>14. Addressable' = Addressable /\ Asked' = Asked
  BY <1>3, <1>4, SameQuestion
<1>15. NoJob.cmd = "none" /\ Quads > 0
  BY QuadsNat DEF NoJob, Job
<1>16. OnDrive'
  <2>1. ASSUME pc = "ata_poll", call.taken
        PROVE  Transfer(drv[regs.sel])'
    <3>1. Transfer(drv[regs.sel]) /\ regs' = regs
      BY <2>1, <1>4 DEF IInv, OnDrive
    <3>2. regs.sel \in Drives
      BY DEF IInv, IdeTypes
    <3>3. CASE d # regs.sel
      <4>1. drv'[regs.sel] = drv[regs.sel]
        BY <1>7, <3>2, <3>3
      <4>2. QED
        BY <3>1, <4>1, <1>3, <1>14 DEF Transfer, JobIsCall, SameCall
    <3>4. CASE d = regs.sel
      <4>1. /\ ~drv[d].err /\ drv[d].job.cmd = call.op /\ JobIsCall(drv[d].job)
        BY <1>1, <3>1, <3>4 DEF Transfer
      <4>2. call.op \in {"read", "write"}
        BY <2>1 DEF IInv, InDriver, IdePcs
      <4>3. \/ new = [busy |-> FALSE, left |-> 0, err |-> TRUE, job |-> NoJob] /\ call'.failed
            \/ new = [busy |-> FALSE, left |-> Quads, err |-> FALSE, job |-> drv[d].job]
        BY <1>2, <4>1, <4>2 DEF Steps
      <4>4. QED
        BY <1>3, <1>4, <1>7, <1>14, <1>15, <3>4, <4>1, <4>3 DEF Transfer, JobIsCall, SameCall
    <3>5. QED
      BY <3>3, <3>4
  <2>2. ASSUME pc = "ata_flush", call.taken
        PROVE  Storing(drv[regs.sel])'
    <3>1. Storing(drv[regs.sel]) /\ regs' = regs
      BY <2>2, <1>4 DEF IInv, OnDrive
    <3>2. regs.sel \in Drives
      BY DEF IInv, IdeTypes
    <3>3. CASE d # regs.sel
      <4>1. drv'[regs.sel] = drv[regs.sel] /\ moved' = moved
        BY <1>7, <1>9, <3>2, <3>3
      <4>2. QED
        BY <3>1, <4>1, <1>3, <1>14 DEF Storing, JobIsCall, SameCall
    <3>4. CASE d = regs.sel
      <4>1. CASE /\ new = [busy |-> FALSE, left |-> 0, err |-> TRUE, job |-> NoJob]
                 /\ call'.failed /\ moved' = moved
        BY <1>4, <1>7, <1>15, <3>1, <3>4, <4>1 DEF Storing
      <4>2. CASE drv[d].job.cmd = "store" /\ moved' = <<drv[d].job.lba>> /\ new.job = NoJob
        BY <1>4, <1>7, <1>15, <3>4, <4>2 DEF Storing
      <4>3. CASE drv[d].job.cmd # "store" /\ moved' = moved /\ new.job \in {NoJob, drv[d].job}
        BY <1>3, <1>4, <1>7, <1>14, <1>15, <3>1, <3>4, <4>3 DEF Storing, SameCall
      <4>4. QED
        BY <1>2, <4>1, <4>2, <4>3 DEF Steps
    <3>5. QED
      BY <3>3, <3>4
  <2>3. QED
    BY <1>3, <1>4, <2>1, <2>2 DEF IInv, OnDrive, SameCall
<1>17. Moved'
  <2>1. CASE moved' = moved
    BY <1>3, <1>4, <1>14, <2>1 DEF IInv, Moved, SameCall
  <2>2. CASE pc = "ata_flush" /\ d = regs.sel /\ call.taken
             /\ JobIsCall(drv[d].job) /\ moved' = <<drv[d].job.lba>>
    <3>1. drv[d].job.lba \in Int
      BY <1>5 DEF DriveStates, Jobs
    <3>2. call.count = 1 /\ call.op # "identify" /\ call.lba \in Int
      BY <2>2, LbaNumber DEF IInv, InDriver, IdePcs
    <3>3. Addressable => moved' = Asked
      BY <2>2, <3>2, AskedIsOne DEF JobIsCall
    <3>4. Len(moved') <= 1 /\ moved' \in Seq(Int)
      BY <2>2, <3>1
    <3>5. QED
      BY <1>3, <1>4, <1>14, <2>2, <3>3, <3>4 DEF Moved
  <2>3. QED
    BY <1>9, <2>1, <2>2
<1>18. Results'
  <2>1. SUFFICES ASSUME pc = "returned" PROVE Results'
    BY <1>4 DEF Results, ErrorIsReal, SuccessIsReal
  <2>2. moved' = moved
    BY <1>9, <2>1
  <2>3. Reaches(Port.table[slot])' = Reaches(Port.table[slot])
    BY <1>3, <1>4 DEF Port, SameCall, Reaches, Misdirected
  <2>4. QED
    BY <1>3, <1>4, <1>14, <2>1, <2>2, <2>3 DEF IInv, Results, ErrorIsReal, SuccessIsReal, OnIde, SameCall
<1>19. QED
  BY <1>8, <1>10, <1>11, <1>13, <1>16, <1>17, <1>18 DEF IInv

------------------------------------------------------------------------------
(* The AHCI controller.                                                    *)

\* What a step of the controller does to a port, the call and what was moved.
Serves(p, port) ==
    \/ /\ ~hba[p].st
       /\ port.ci = {} /\ ~port.halted /\ port.tfes = hba[p].tfes /\ port.current = hba[p].current
       /\ call' = call /\ moved' = moved
    \/ /\ port.ci = hba[p].ci /\ port.halted = hba[p].halted
       /\ port.tfes = hba[p].tfes /\ port.current = hba[p].current
       /\ call' = call /\ moved' = moved
    \/ /\ ~hba[p].halted /\ port.current \in hba[p].ci
       /\ port.ci = hba[p].ci /\ port.halted = hba[p].halted /\ port.tfes = hba[p].tfes
       /\ call' = call /\ moved' = moved
    \/ /\ hba[p].current # NULL /\ port.current = NULL
       /\ port.ci = hba[p].ci \ {hba[p].current}
       /\ port.halted = hba[p].halted /\ port.tfes = hba[p].tfes
       /\ call' = call /\ moved' = moved \o Served(hba[p].table[hba[p].current])
    \/ /\ hba[p].current # NULL /\ port.current = NULL /\ port.tfes
       /\ port.halted \/ port.ci = hba[p].ci \ {hba[p].current}
       /\ SameCall /\ call'.failed /\ moved' = moved

\* Every step of the controller is one of Serves, and changes nothing else.
LEMMA ControllerStepsAre ==
    ASSUME CallTypes, AhciTypes, NEW p \in Ports, ControllerStep(p)
    PROVE  /\ UNCHANGED <<machine, pc, ports, nports, spin, slot, ata_vars, cmd>>
           /\ \E port \in PortStates :
                 /\ hba' = [hba EXCEPT ![p] = port]
                 /\ port.table = hba[p].table /\ port.clb = hba[p].clb /\ port.st = hba[p].st
                 /\ Serves(p, port)
<1>1. hba[p] \in PortStates /\ call \in Requests
  BY DEF AhciTypes, CallTypes
<1>2. CASE EngineStops(p)
  <2> DEFINE port == [hba[p] EXCEPT !.cr = FALSE, !.halted = FALSE, !.ci = {}]
  <2>1. port \in PortStates /\ port.table = hba[p].table /\ port.clb = hba[p].clb /\ port.st = hba[p].st
    BY <1>1 DEF PortStates
  <2>2. port.ci = {} /\ ~port.halted /\ port.tfes = hba[p].tfes /\ port.current = hba[p].current
    BY <1>1 DEF PortStates
  <2> HIDE DEF port
  <2>3. QED
    BY <1>2, <2>1, <2>2 DEF EngineStops, Update, Serves, ControllerStep, port
<1>3. CASE EngineStarts(p)
  <2> DEFINE port == [hba[p] EXCEPT !.cr = TRUE]
  <2>1. port \in PortStates /\ port.table = hba[p].table /\ port.clb = hba[p].clb /\ port.st = hba[p].st
    BY <1>1 DEF PortStates
  <2>2. /\ port.ci = hba[p].ci /\ port.halted = hba[p].halted
        /\ port.tfes = hba[p].tfes /\ port.current = hba[p].current
    BY <1>1 DEF PortStates
  <2> HIDE DEF port
  <2>3. QED
    BY <1>3, <2>1, <2>2 DEF EngineStarts, Update, Serves, ControllerStep, port
<1>4. CASE ReceiverFollows(p)
  <2> DEFINE port == [hba[p] EXCEPT !.fr = hba[p].fre]
  <2>1. port \in PortStates /\ port.table = hba[p].table /\ port.clb = hba[p].clb /\ port.st = hba[p].st
    BY <1>1 DEF PortStates
  <2>2. /\ port.ci = hba[p].ci /\ port.halted = hba[p].halted
        /\ port.tfes = hba[p].tfes /\ port.current = hba[p].current
    BY <1>1 DEF PortStates
  <2> HIDE DEF port
  <2>3. QED
    BY <1>4, <2>1, <2>2 DEF ReceiverFollows, Update, Serves, ControllerStep, port
<1>5. CASE SpunUp(p)
  <2> DEFINE port == [hba[p] EXCEPT !.busy = FALSE]
  <2>1. port \in PortStates /\ port.table = hba[p].table /\ port.clb = hba[p].clb /\ port.st = hba[p].st
    BY <1>1 DEF PortStates
  <2>2. /\ port.ci = hba[p].ci /\ port.halted = hba[p].halted
        /\ port.tfes = hba[p].tfes /\ port.current = hba[p].current
    BY <1>1 DEF PortStates
  <2> HIDE DEF port
  <2>3. QED
    BY <1>5, <2>1, <2>2 DEF SpunUp, Update, Serves, ControllerStep, port
<1>6. CASE Takes(p)
  <2>1. PICK s \in hba[p].ci : Update(p, [hba[p] EXCEPT !.busy = TRUE, !.current = s])
    BY <1>6 DEF Takes
  <2> DEFINE port == [hba[p] EXCEPT !.busy = TRUE, !.current = s]
  <2>2. s \in Slots
    BY <1>1 DEF PortStates
  <2>3. port \in PortStates /\ port.table = hba[p].table /\ port.clb = hba[p].clb /\ port.st = hba[p].st
    BY <1>1, <2>2 DEF PortStates
  <2>4. /\ port.ci = hba[p].ci /\ port.halted = hba[p].halted
        /\ port.tfes = hba[p].tfes /\ port.current = s
    BY <1>1 DEF PortStates
  <2> HIDE DEF port
  <2>5. QED
    BY <1>6, <2>1, <2>3, <2>4 DEF Takes, Update, Serves, ControllerStep, port
<1>7. CASE Completes(p)
  <2> DEFINE port == [hba[p] EXCEPT !.busy = FALSE, !.current = NULL, !.ci = @ \ {hba[p].current}]
  <2>1. port \in PortStates /\ port.table = hba[p].table /\ port.clb = hba[p].clb /\ port.st = hba[p].st
    BY <1>1 DEF PortStates
  <2>2. /\ port.ci = hba[p].ci \ {hba[p].current} /\ port.halted = hba[p].halted
        /\ port.tfes = hba[p].tfes /\ port.current = NULL
    BY <1>1 DEF PortStates
  <2> HIDE DEF port
  <2>3. QED
    BY <1>7, <2>1, <2>2 DEF Completes, Update, Serves, ControllerStep, port
<1>8. CASE Fails(p)
  <2>1. PICK halts \in BOOLEAN :
            Update(p, [hba[p] EXCEPT !.busy = FALSE, !.current = NULL, !.tfes = TRUE,
                          !.halted = halts, !.ci = IF halts THEN @ ELSE @ \ {hba[p].current}])
    BY <1>8 DEF Fails
  <2> DEFINE port == [hba[p] EXCEPT !.busy = FALSE, !.current = NULL, !.tfes = TRUE,
                          !.halted = halts, !.ci = IF halts THEN @ ELSE @ \ {hba[p].current}]
  <2>2. port \in PortStates /\ port.table = hba[p].table /\ port.clb = hba[p].clb /\ port.st = hba[p].st
    BY <1>1 DEF PortStates
  <2>3. /\ port.halted \/ port.ci = hba[p].ci \ {hba[p].current}
        /\ port.tfes /\ port.current = NULL
    BY <1>1 DEF PortStates
  <2> HIDE DEF port
  <2>4. SameCall /\ call'.failed
    BY <1>1, <1>8, MarkedFailed DEF Fails
  <2>5. QED
    BY <1>8, <2>1, <2>2, <2>3, <2>4 DEF Fails, Update, Serves, ControllerStep, port
<1>9. QED
  BY <1>2, <1>3, <1>4, <1>5, <1>6, <1>7, <1>8 DEF ControllerStep, Controller

\* A step of the controller keeps the invariant.
LEMMA ControllerKeeps ==
    ASSUME IInv, NEW p \in Ports, ControllerStep(p)
    PROVE  IInv'
<1>1. /\ UNCHANGED <<machine, pc, ports, nports, spin, slot, ata_vars, cmd>>
      /\ \E port \in PortStates :
            /\ hba' = [hba EXCEPT ![p] = port]
            /\ port.table = hba[p].table /\ port.clb = hba[p].clb /\ port.st = hba[p].st
            /\ Serves(p, port)
  BY ControllerStepsAre DEF IInv
<1>2. PICK port \in PortStates :
            /\ hba' = [hba EXCEPT ![p] = port]
            /\ port.table = hba[p].table /\ port.clb = hba[p].clb /\ port.st = hba[p].st
            /\ Serves(p, port)
  BY <1>1
<1>3. SameCall
  BY <1>2, UnchangedIsSame DEF Serves, IInv, CallTypes
<1>4. UNCHANGED <<machine, pc, regs, drv, ide_devices, j, ports, nports, spin, slot, cmd>>
  BY <1>1 DEF ata_vars
<1>5. hba'[p] = port /\ (\A q \in Ports : q # p => hba'[q] = hba[q]) /\ Ports' = Ports
  BY <1>2, <1>4 DEF IInv, AhciTypes, Ports
<1>6. CallTypes' /\ IdeTypes' /\ Booted' /\ InDriver' /\ OnlySelected'
  BY <1>3, <1>4 DEF IInv, CallTypes, IdeTypes, Booted, InDriver, OnlySelected, SameCall, Ports, Requests
<1>7. AhciTypes'
  BY <1>2, <1>4 DEF IInv, AhciTypes, Ports, Slots, PortStates
<1>8. Addressable' = Addressable /\ Asked' = Asked
  BY <1>3, <1>4, SameQuestion
\* A port that serves a command serves the call's.
<1>9. hba[p].current # NULL => pc \in Polling /\ p = call.unit /\ Pending(p)
  BY DEF IInv, OnPort, Quiet, Served_, Failed, Stuck
<1>10. ASSUME hba[p].current # NULL
       PROVE  /\ moved = <<>> /\ hba[p].current = slot
              /\ Served(hba[p].table[slot]) =
                    IF Reaches(hba[p].table[slot]) THEN Asked ELSE <<>>
              /\ Asked \in Seq(Int) /\ Len(Asked) = 1 /\ call.taken
  <2>1. pc \in {"poll_ci", "poll_is"} /\ p = call.unit /\ Pending(p)
    BY <1>9, <1>10 DEF Pending, Polling
  <2> DEFINE c == hba[p].table[slot]
  <2>2. /\ c.op = call.op /\ c.count = 1 /\ c.room >= 1
        /\ c.lba = [k \in 1 .. 4 |-> Digit(call.lba, k - 1)]
    BY <2>1 DEF IInv, EntryFilled
  <2>3. hba[p].clb = "kernel" /\ call.count = 1 /\ call.taken
    BY <2>1 DEF IInv, PortOwned, InDriver, AhciPcs
  <2>4. c.room \in Nat
    BY <2>3 DEF IInv, PortOwned, AhciTypes, TableEntries
  <2>5. call \in Requests /\ call.lba \in Int
    BY LbaNumber DEF IInv, CallTypes
  <2> HIDE DEF c
  <2>6. Served(c) = IF Reaches(c) THEN Asked ELSE <<>>
    BY <2>2, <2>3, <2>4, <2>5, ServedIsAsked, Zenon
  <2>7. Asked \in Seq(Int) /\ Len(Asked) = 1
    BY <2>3, <2>5, AskedIsOne
  <2>8. QED
    BY <1>10, <2>1, <2>3, <2>6, <2>7 DEF Pending, c
<1>11. \/ moved' = moved
       \/ /\ hba[p].current # NULL
          /\ moved' = IF Reaches(hba[p].table[slot]) THEN Asked ELSE <<>>
  <2>1. CASE hba[p].current # NULL /\ moved' = moved \o Served(hba[p].table[hba[p].current])
    <3>1. <<>> \in Seq(Int)
      OBVIOUS
    <3>2. Served(hba[p].table[slot]) \in Seq(Int)
      BY <1>10, <2>1, <3>1
    <3>3. \A s \in Seq(Int) : <<>> \o s = s
      OBVIOUS
    <3>4. moved' = Served(hba[p].table[slot])
      BY <1>10, <2>1, <3>2, <3>3
    <3>5. QED
      BY <1>10, <2>1, <3>4
  <2>2. QED
    BY <1>2, <2>1 DEF Serves
<1>12. PortOwned'
  <2>1. \A q \in Ports :
            /\ hba'[q].clb = hba[q].clb /\ hba'[q].table = hba[q].table /\ hba'[q].st = hba[q].st
    BY <1>2, <1>5
  <2>2. \A q \in Ports :
            hba[q].ci = {} /\ hba[q].current = NULL => hba'[q].ci = {} /\ hba'[q].current = NULL
    BY <1>2, <1>5 DEF Serves
  <2>3. Slots' = Slots /\ call'.unit = call.unit
    BY <1>3, <1>4 DEF Slots, SameCall
  <2>4. /\ pc \in AhciPcs \union {"start_wait"} => call.unit \in Ports
        /\ nports > 0 => 0 \in Ports
    BY DEF IInv, InDriver
  <2>5. QED
    BY <1>4, <1>5, <2>1, <2>2, <2>3, <2>4 DEF IInv, PortOwned
<1>13. EntryFilled'
  <2>1. \A q \in Ports : hba'[q].table = hba[q].table
    BY <1>2, <1>5
  <2>2. pc \in AhciPcs => call.unit \in Ports
    BY DEF IInv, InDriver
  <2>3. QED
    BY <1>3, <1>4, <2>1, <2>2 DEF IInv, EntryFilled, AhciPcs, SameCall
<1>14. OnPort'
  <2>1. \A q \in Ports : Quiet(q) => Quiet(q)'
    <3>1. Quiet(p) => Quiet(p)'
      <4>1. SUFFICES ASSUME Quiet(p) PROVE Quiet(p)'
        OBVIOUS
      <4>2. hba[p].current = NULL /\ (hba[p].halted \/ hba[p].ci = {})
        BY <4>1 DEF Quiet
      <4>3. port.current = NULL /\ (port.halted \/ port.ci = {})
        BY <1>2, <4>2 DEF Serves
      <4>4. QED
        BY <1>5, <4>3 DEF Quiet
    <3>2. QED
      BY <1>5, <3>1 DEF Quiet
  <2>2. call'.unit = call.unit /\ (call.failed => call'.failed)
    BY <1>3 DEF SameCall
  <2>3. pc \in AhciPcs => call.unit \in Ports
    BY DEF IInv, InDriver
  <2>4. hba[p].st \/ ~(pc \in Polling /\ p = call.unit)
    BY DEF IInv, PortOwned, AhciPcs, Polling, AhciTypes, PortStates
  <2>5. ASSUME pc \in Polling, p # call.unit
        PROVE  \/ Pending(call.unit)' \/ Served_(call.unit)'
               \/ Failed(call.unit)' \/ Stuck(call.unit)'
    <3>1. hba[p].current = NULL
      BY <1>9, <2>5
    <3>2. moved' = moved /\ hba'[call.unit] = hba[call.unit]
      BY <1>5, <1>11, <2>3, <2>5, <3>1 DEF Polling, AhciPcs
    <3>3. \/ Pending(call.unit) \/ Served_(call.unit) \/ Failed(call.unit) \/ Stuck(call.unit)
      BY <2>5 DEF IInv, OnPort
    <3>4. QED
      BY <1>4, <1>8, <2>2, <3>2, <3>3 DEF Pending, Served_, Failed, Stuck, Quiet, Reaches, Misdirected
  <2>6. ASSUME pc \in Polling, p = call.unit
        PROVE  \/ Pending(p)' \/ Served_(p)' \/ Failed(p)' \/ Stuck(p)'
    <3>1. hba[p].st
      BY <2>4, <2>6
    <3>2. CASE Pending(p)
      <4>1. CASE call' = call /\ moved' = moved /\ port.ci = hba[p].ci /\ port.halted = hba[p].halted
                 /\ port.tfes = hba[p].tfes /\ port.current \in {slot, hba[p].current}
        BY <1>4, <1>5, <3>2, <4>1 DEF Pending
      <4>2. CASE hba[p].current # NULL /\ port.current = NULL
                 /\ port.ci = hba[p].ci \ {hba[p].current}
                 /\ port.halted = hba[p].halted /\ port.tfes = hba[p].tfes
                 /\ call' = call /\ moved' = moved \o Served(hba[p].table[hba[p].current])
        <5>1. port.ci = {} /\ ~port.tfes
          BY <3>2, <4>2 DEF Pending
        <5>2. moved' = Asked \/ ~Reaches(hba[p].table[slot])
          <6>1. Asked \in Seq(Int) /\ moved = <<>> /\ hba[p].current = slot
            BY <1>10, <4>2
          <6>2. Reaches(hba[p].table[slot]) => moved' = <<>> \o Asked
            BY <1>10, <4>2, <6>1
          <6>3. \A s \in Seq(Int) : <<>> \o s = s
            OBVIOUS
          <6>4. QED
            BY <6>1, <6>2, <6>3
        <5>3. QED
          BY <1>2, <1>4, <1>5, <1>8, <4>2, <5>1, <5>2 DEF Served_, Quiet, Reaches, Misdirected
      <4>3. CASE hba[p].current # NULL /\ port.current = NULL /\ port.tfes
                 /\ (port.halted \/ port.ci = hba[p].ci \ {hba[p].current})
                 /\ call'.failed /\ moved' = moved
        BY <1>4, <1>5, <3>2, <4>3 DEF Pending, Failed, Quiet
      <4>4. QED
        BY <1>2, <3>1, <3>2, <4>1, <4>2, <4>3 DEF Serves, Pending
    <3>3. CASE ~Pending(p)
      <4>1. Served_(p) \/ Failed(p) \/ Stuck(p)
        BY <2>6, <3>3 DEF IInv, OnPort
      <4>2. Quiet(p)
        BY <4>1 DEF Served_, Failed, Stuck
      <4>3. /\ port.ci = hba[p].ci /\ port.halted = hba[p].halted
            /\ port.tfes = hba[p].tfes /\ port.current = hba[p].current
            /\ moved' = moved
        BY <1>2, <3>1, <4>2 DEF Serves, Quiet
      <4>4. QED
        BY <1>2, <1>4, <1>5, <1>8, <2>2, <4>1, <4>3 DEF Served_, Failed, Stuck, Quiet, Reaches, Misdirected
    <3>4. QED
      BY <3>2, <3>3
  <2>7. pc \in {"fill", "spin"} => ~hba'[call.unit].tfes /\ slot \notin hba'[call.unit].ci
    <3>1. SUFFICES ASSUME pc \in {"fill", "spin"}
                   PROVE  ~hba'[call.unit].tfes /\ slot \notin hba'[call.unit].ci
      OBVIOUS
    <3>2. ~hba[call.unit].tfes /\ slot \notin hba[call.unit].ci /\ call.unit \in Ports
      BY <2>3, <3>1 DEF IInv, OnPort, AhciPcs
    <3>3. hba[p].current = NULL
      BY <1>9, <3>1 DEF Polling
    <3>4. p = call.unit => ~port.tfes /\ slot \notin port.ci
      BY <1>2, <3>2, <3>3 DEF Serves
    <3>5. QED
      BY <1>5, <3>2, <3>4
  <2>8. QED
    BY <1>4, <1>5, <2>1, <2>2, <2>5, <2>6, <2>7 DEF IInv, OnPort
<1>15. OnDrive'
  <2>1. pc \in {"ata_poll", "ata_flush"} => moved' = moved
    BY <1>9, <1>11 DEF Polling
  <2>2. QED
    BY <1>3, <1>4, <1>8, <2>1 DEF IInv, OnDrive, Transfer, Storing, JobIsCall, SameCall
<1>16. Moved'
  <2>1. CASE moved' = moved
    BY <1>3, <1>4, <1>8, <2>1 DEF IInv, Moved, SameCall
  <2>2. CASE hba[p].current # NULL
    <3>1. <<>> \in Seq(Int) /\ Len(<<>>) = 0
      OBVIOUS
    <3>2. moved' = moved \/ moved' = Asked \/ moved' = <<>>
      BY <1>11
    <3>3. pc \in Polling /\ pc' = pc
      BY <1>4, <1>9, <2>2
    <3>4. moved' = Asked \/ moved' = <<>>
      BY <1>10, <2>2, <3>2
    <3>5. Len(moved') <= 1 /\ moved' \in Seq(Int) /\ (moved' # <<>> => moved' = Asked)
      <4>1. \A s \in Seq(Int) : Len(s) = 0 \/ Len(s) = 1 => Len(s) <= 1
        OBVIOUS
      <4>2. Asked \in Seq(Int) /\ Len(Asked) = 1
        BY <1>10, <2>2
      <4>3. CASE moved' = Asked
        BY <4>1, <4>2, <4>3, Zenon
      <4>4. CASE moved' = <<>>
        BY <3>1, <4>1, <4>4, Zenon
      <4>5. QED
        BY <3>4, <4>3, <4>4
    <3>6. QED
      BY <1>8, <3>3, <3>5 DEF Moved, Polling
  <2>3. QED
    BY <1>11, <2>1, <2>2
<1>17. Results'
  <2>1. SUFFICES ASSUME pc = "returned" PROVE Results'
    BY <1>4 DEF Results, ErrorIsReal, SuccessIsReal
  <2>2. moved' = moved
    BY <1>9, <1>11, <2>1 DEF Polling
  <2>3. call'.unit = call.unit
    BY <1>3 DEF SameCall
  <2>4. Reaches(Port.table[slot])' = Reaches(Port.table[slot])
    <3>1. CASE call.unit = p
      BY <1>2, <1>4, <1>5, <2>3, <3>1 DEF Port, Reaches, Misdirected
    <3>2. CASE call.unit # p
      BY <1>2, <1>4, <2>3, <3>2 DEF Port, Reaches, Misdirected
    <3>3. QED
      BY <3>1, <3>2
  <2>5. QED
    BY <1>3, <1>4, <1>8, <2>1, <2>2, <2>4 DEF IInv, Results, ErrorIsReal, SuccessIsReal, OnIde, SameCall
<1>18. QED
  BY <1>6, <1>7, <1>12, <1>13, <1>14, <1>15, <1>16, <1>17 DEF IInv

------------------------------------------------------------------------------
(* Commands.                                                               *)

\* Where a command leaves the processor: at the prompt, in one of the drivers
\* with a call of one sector, without a drive, or lost.
Started ==
    \/ pc' \in {"idle", "ata_select"} /\ call' = NoRequest /\ moved' = <<>>
    \/ /\ pc' = "ata_wait" /\ nports = 0 /\ ide_devices # <<>> /\ moved' = <<>>
       /\ \E op \in {"read", "write"}, s \in 0 .. Word - 1 : call' = Request(op, 0, s, 1)
    \/ /\ pc' = "send_command" /\ nports > 0 /\ ports[0] = 0 /\ ports[0] # NULL /\ moved' = <<>>
       /\ \E op \in Operations, s \in 0 .. Word - 1 : call' = Request(op, 0, s, 1)
    \/ /\ pc' = "returned" /\ moved' = <<>>
       /\ call' = [Request("read", 0, 0, 0) EXCEPT !.result = "no drive"]
    \/ pc' = "lost" /\ call' = call /\ moved' = moved

\* Requests have their type.
LEMMA RequestTypes ==
    /\ \A op \in Operations, s \in 0 .. Word - 1, u \in Ports \union Drives, n \in 0 .. 1 :
          Request(op, u, s, n) \in Requests
    /\ NoRequest \in Requests
    /\ [Request("read", 0, 0, 0) EXCEPT !.result = "no drive"] \in Requests
<1>1. 0 \in 0 .. Word - 1
  BY GeometryTypes
<1>2. \A op \in Operations, s \in 0 .. Word - 1, u \in Ports \union Drives, n \in 0 .. 1 :
          Request(op, u, s, n) \in Requests
  BY DEF Request, Requests
<1>3. 0 \in Drives /\ 0 \in 0 .. 1 /\ "identify" \in Operations /\ "read" \in Operations
  BY DEF Drives, Operations
<1>4. Request("read", 0, 0, 0) \in Requests
  BY <1>1, <1>2, <1>3
<1>5. \A r \in Requests : [r EXCEPT !.result = "no drive"] \in Requests
  BY DEF Requests
<1>6. QED
  BY <1>1, <1>2, <1>3, <1>4, <1>5 DEF NoRequest

\* The port that the commands use, if there is one, is port 0.
LEMMA FirstPort ==
    ASSUME IInv, nports > 0, ports[0] # NULL
    PROVE  ports[0] = 0 /\ 0 \in Ports
BY DEF IInv, InDriver, AhciTypes

\* disk_access starts a call of one sector in the driver that it chooses.
LEMMA AccessStarts ==
    ASSUME IInv, NEW op \in {"read", "write"}, NEW s \in 0 .. Word - 1, disk_access(op, s)
    PROVE  UNCHANGED <<machine, ata_vars, ahci_vars>> /\ Started
<1>1. CASE nports > 0 /\ ports[0] = NULL
  BY <1>1 DEF disk_access, Lost, Started
<1>2. CASE nports > 0 /\ ports[0] # NULL
  <2>1. ports[0] = 0
    BY <1>2, FirstPort
  <2>2. ahci_access(op, ports[0], s, 1) /\ UNCHANGED ata_vars
    BY <1>2 DEF disk_access
  <2>3. op \in Operations
    BY DEF Operations
  <2>4. QED
    BY <1>2, <2>1, <2>2, <2>3 DEF ahci_access, Begin, Started
<1>3. CASE ~(nports > 0) /\ ide_devices # <<>>
  <2>1. nports = 0
    BY <1>3, MachineShape DEF IInv, AhciTypes, CallTypes
  <2>2. QED
    BY <1>3, <2>1 DEF disk_access, ide_ata_access, Begin, Started, ata_vars
<1>4. CASE ~(nports > 0) /\ ide_devices = <<>>
  BY <1>4 DEF disk_access, NoDrive, Begin, Started
<1>5. QED
  BY <1>1, <1>2, <1>3, <1>4

\* Every step of a command starts a call, or ends the command.
LEMMA CommandStepsAre ==
    ASSUME IInv, CommandStep, pc # "lost"
    PROVE  /\ UNCHANGED <<machine, ata_vars, ahci_vars>> /\ Started
           /\ cmd' \in CommandTypes /\ cmd'.name # "init_ahci"
           /\ pc \in {"idle", "returned"}
           /\ pc' = "ata_select" => pc = "returned" /\ cmd.name = "init_ahci"
<1>1. Sectors \subseteq 0 .. Word - 1 /\ 0 \in 0 .. Word - 1 /\ Word \in Nat \ {0}
  BY GeometryTypes, SectorsAssumption
<1>2. \A n \in CmdNames, s \in 0 .. Word - 1, k \in Nat :
          /\ [name |-> n, sector |-> s, left |-> k] \in CommandTypes
          /\ [name |-> n, sector |-> s, left |-> k].name = n
  BY DEF CommandTypes
<1>3. NoCmd \in CommandTypes /\ NoCmd.name = "none"
  <2>1. 0 \in Nat /\ "none" \in CmdNames
    BY DEF CmdNames
  <2>2. QED
    BY <1>1, <1>2, <2>1, Zenon DEF NoCmd
<1>4. Started => pc' # "ata_select" \/ call' = NoRequest
  BY DEF Started
<1>5. \A op, s : disk_access(op, s) => pc' # "ata_select"
  BY DEF disk_access, NoDrive, Lost, ahci_access, ide_ata_access, Begin
<1>6. CASE rdisk \/ wdisk \/ wipesect
  <2>1. PICK op \in {"read", "write"}, s \in Sectors, n \in {"rdisk", "wdisk", "wipesect"}, k \in Nat :
            disk_access(op, s) /\ cmd' = [name |-> n, sector |-> s, left |-> k]
    <3>1. CASE rdisk
      BY <3>1 DEF rdisk
    <3>2. CASE wdisk
      BY <3>2 DEF wdisk
    <3>3. CASE wipesect
      <4>1. PICK s \in Sectors, n \in 1 .. 2 :
                disk_access("write", s) /\ cmd' = [name |-> "wipesect", sector |-> s, left |-> n - 1]
        BY <3>3 DEF wipesect
      <4>2. n - 1 \in Nat
        OBVIOUS
      <4>3. QED
        BY <4>1, <4>2
    <3>4. QED
      BY <1>6, <3>1, <3>2, <3>3
  <2>2. cmd' \in CommandTypes /\ cmd'.name # "init_ahci"
    <3>1. s \in 0 .. Word - 1 /\ n \in CmdNames /\ n # "init_ahci"
      BY <1>1 DEF CmdNames
    <3>2. QED
      BY <1>2, <2>1, <3>1, Zenon
  <2>3. pc = "idle"
    BY <1>6 DEF rdisk, wdisk, wipesect
  <2>4. UNCHANGED <<machine, ata_vars, ahci_vars>> /\ Started
    BY <1>1, <2>1, AccessStarts
  <2>5. QED
    BY <1>5, <2>1, <2>2, <2>3, <2>4
<1>7. CASE wipedisk_ahci
  <2>1. pc = "idle" /\ nports > 0 /\ cmd' = [name |-> "identify", sector |-> 0, left |-> 0]
    BY <1>7 DEF wipedisk_ahci
  <2>2. cmd' \in CommandTypes /\ cmd'.name # "init_ahci"
    <3>1. 0 \in Nat /\ "identify" \in CmdNames /\ "identify" # "init_ahci"
      BY DEF CmdNames
    <3>2. QED
      BY <1>1, <1>2, <2>1, <3>1, Zenon
  <2>3. CASE ports[0] = NULL
    BY <1>7, <2>1, <2>2, <2>3 DEF wipedisk_ahci, Lost, Started
  <2>4. CASE ports[0] # NULL
    <3>1. ports[0] = 0
      BY <2>1, <2>4, FirstPort
    <3>2. "identify" \in Operations
      BY DEF Operations
    <3>3. QED
      BY <1>1, <1>7, <2>1, <2>2, <2>4, <3>1, <3>2 DEF wipedisk_ahci, ahci_access, Begin, Started
  <2>5. QED
    BY <2>3, <2>4
\* Wiping begins, or there is nothing to wipe.
<1>8. ASSUME NEW size \in Nat, Wipe(size)
      PROVE  /\ UNCHANGED <<machine, ata_vars, ahci_vars>> /\ Started
             /\ cmd' \in CommandTypes /\ cmd'.name # "init_ahci" /\ pc' # "ata_select"
  <2>1. CASE size = 0
    BY <1>3, <1>8, <2>1 DEF Wipe, Begin, Started
  <2>2. CASE size # 0
    <3>1. size - 1 \in Nat
      BY <2>2
    <3>2. disk_access("write", 0) /\ cmd' = [name |-> "wipedisk", sector |-> 0, left |-> size - 1]
      BY <1>8, <2>2 DEF Wipe
    <3>3. cmd' \in CommandTypes /\ cmd'.name # "init_ahci"
      <4>1. "wipedisk" \in CmdNames /\ "wipedisk" # "init_ahci"
        BY DEF CmdNames
      <4>2. QED
        BY <1>1, <1>2, <3>1, <3>2, <4>1, Zenon
    <3>4. UNCHANGED <<machine, ata_vars, ahci_vars>> /\ Started
      BY <1>1, <3>2, AccessStarts
    <3>5. QED
      BY <1>5, <3>2, <3>3, <3>4
  <2>3. QED
    BY <2>1, <2>2
<1>9. CASE wipedisk_ide
  <2>1. pc = "idle" /\ ide_devices # <<>> /\ Wipe(ide_devices[1].size)
    BY <1>9 DEF wipedisk_ide
  <2>2. ide_devices[1].size \in Nat
    <3>1. \A s \in Seq(Entries) : s # <<>> => s[1] \in Entries
      OBVIOUS
    <3>2. ide_devices[1] \in Entries
      BY <2>1, <3>1, Zenon DEF IInv, IdeTypes
    <3>3. QED
      BY <3>2 DEF Entries
  <2>3. QED
    BY <1>8, <2>1, <2>2
<1>10. CASE wipedisk_identified
  <2>1. pc = "returned" /\ \E size \in {0, 1, Capacity["lba48"]} : Wipe(size)
    BY <1>10 DEF wipedisk_identified
  <2>2. Capacity["lba48"] \in Nat
    BY DiskAssumption DEF DriveKinds
  <2>3. QED
    BY <1>8, <2>1, <2>2
<1>11. CASE next_call
  <2>1. /\ pc = "returned" /\ cmd.name \in {"wdisk", "wipesect", "wipedisk"} /\ cmd.left > 0
        /\ cmd' = After(cmd) /\ disk_access("write", After(cmd).sector)
    BY <1>11 DEF next_call, GoesOn
  <2>2. cmd \in CommandTypes
    BY DEF IInv, CallTypes, CommandTypes
  <2>3. \A s \in 0 .. Word - 1 : (s + 1) % Word \in 0 .. Word - 1
    <3>1. PICK w \in Nat \ {0} : w = Word
      BY <1>1
    <3>2. \A s \in 0 .. w - 1 : (s + 1) % w \in 0 .. w - 1
      OBVIOUS
    <3>3. QED
      BY <3>1, <3>2
  <2>4. PICK t \in 0 .. Word - 1 : t = (cmd.sector + 1) % Word
    BY <2>2, <2>3 DEF CommandTypes
  <2>5. cmd.left - 1 \in Nat
    BY <2>1, <2>2 DEF CommandTypes
  <2>6. After(cmd) = [cmd EXCEPT !.left = cmd.left - 1,
                                 !.sector = IF cmd.name = "wdisk" THEN cmd.sector ELSE t]
    BY <2>2, <2>4 DEF After, CommandTypes
  <2>7. After(cmd) \in CommandTypes /\ After(cmd).name = cmd.name
    BY <2>2, <2>5, <2>6 DEF CommandTypes
  <2>8. After(cmd).sector \in 0 .. Word - 1
    BY <2>7 DEF CommandTypes
  <2>9. UNCHANGED <<machine, ata_vars, ahci_vars>> /\ Started
    BY <2>1, <2>8, AccessStarts
  <2>10. QED
    BY <1>5, <2>1, <2>7, <2>9
<1>12. CASE command_ends
  BY <1>3, <1>12 DEF command_ends, Begin, Started
<1>13. CASE init_ahci_ends
  BY <1>3, <1>13 DEF init_ahci_ends, Begin, Started
<1>14. CASE lost
  BY <1>14 DEF lost
<1>15. QED
  BY <1>6, <1>7, <1>9, <1>10, <1>11, <1>12, <1>13, <1>14 DEF CommandStep

\* What IInv needs to know of what a command has started.
LEMMA StartedIs ==
    ASSUME IInv, Started, UNCHANGED <<machine, ata_vars, ahci_vars>>, pc \in {"idle", "returned"}
    PROVE  /\ call' \in Requests
           /\ pc' \in {"idle", "ata_select", "ata_wait", "send_command", "returned", "lost"}
           /\ pc' = "lost" => call' = call /\ moved' = moved
           /\ pc' # "lost" => moved' = <<>>
           /\ pc' = "ata_wait" =>
                 /\ nports = 0 /\ ide_devices # <<>>
                 /\ call'.unit = 0 /\ call'.op \in {"read", "write"} /\ call'.count = 1 /\ call'.sent = 0
           /\ pc' = "send_command" =>
                 /\ nports > 0 /\ ports[0] # NULL /\ 0 \in Ports
                 /\ call'.unit = 0 /\ call'.count = 1 /\ call'.taken
           /\ pc' = "returned" => call'.result = "no drive"
<1>1. 0 \in Drives /\ 1 \in 0 .. 1 /\ {"read", "write"} \subseteq Operations
  BY DEF Drives, Operations
<1>2. call \in Requests
  BY DEF IInv, CallTypes
<1>3. \A op \in Operations, s \in 0 .. Word - 1 :
          /\ Request(op, 0, s, 1) \in Requests
          /\ Request(op, 0, s, 1).unit = 0 /\ Request(op, 0, s, 1).op = op
          /\ Request(op, 0, s, 1).count = 1 /\ Request(op, 0, s, 1).taken
          /\ Request(op, 0, s, 1).sent = 0
  BY <1>1, RequestTypes DEF Request
<1>4. CASE pc' \in {"idle", "ata_select"} /\ call' = NoRequest /\ moved' = <<>>
  BY <1>4, RequestTypes
<1>5. CASE /\ pc' = "ata_wait" /\ nports = 0 /\ ide_devices # <<>> /\ moved' = <<>>
           /\ \E op \in {"read", "write"}, s \in 0 .. Word - 1 : call' = Request(op, 0, s, 1)
  BY <1>1, <1>3, <1>5
<1>6. CASE /\ pc' = "send_command" /\ nports > 0 /\ ports[0] = 0 /\ ports[0] # NULL /\ moved' = <<>>
           /\ \E op \in Operations, s \in 0 .. Word - 1 : call' = Request(op, 0, s, 1)
  BY <1>3, <1>6 DEF IInv, InDriver
<1>7. CASE /\ pc' = "returned" /\ moved' = <<>>
           /\ call' = [Request("read", 0, 0, 0) EXCEPT !.result = "no drive"]
  <2>1. call'.result = "no drive"
    BY <1>7 DEF Request
  <2>2. QED
    BY <1>7, <2>1, RequestTypes
<1>8. CASE pc' = "lost" /\ call' = call /\ moved' = moved
  BY <1>2, <1>8
<1>9. QED
  BY <1>4, <1>5, <1>6, <1>7, <1>8 DEF Started

\* A step of a command keeps the invariant.
LEMMA CommandKeeps ==
    ASSUME IInv, CommandStep, pc # "lost"
    PROVE  IInv'
<1>1. /\ UNCHANGED <<machine, ata_vars, ahci_vars>> /\ Started
      /\ cmd' \in CommandTypes /\ cmd'.name # "init_ahci"
      /\ pc \in {"idle", "returned"}
      /\ pc' = "ata_select" => pc = "returned" /\ cmd.name = "init_ahci"
  BY CommandStepsAre
<1>2. UNCHANGED <<machine, regs, drv, ide_devices, j, ports, nports, hba, spin, slot>>
  BY <1>1 DEF ata_vars, ahci_vars
<1>3. /\ call' \in Requests
      /\ pc' \in {"idle", "ata_select", "ata_wait", "send_command", "returned", "lost"}
      /\ pc' = "lost" => call' = call /\ moved' = moved
      /\ pc' # "lost" => moved' = <<>>
      /\ pc' = "ata_wait" =>
            /\ nports = 0 /\ ide_devices # <<>>
            /\ call'.unit = 0 /\ call'.op \in {"read", "write"} /\ call'.count = 1 /\ call'.sent = 0
      /\ pc' = "send_command" =>
            /\ nports > 0 /\ ports[0] # NULL /\ 0 \in Ports
            /\ call'.unit = 0 /\ call'.count = 1 /\ call'.taken
      /\ pc' = "returned" => call'.result = "no drive"
  BY <1>1, StartedIs
<1>4. Ports' = Ports /\ Slots' = Slots
  BY <1>2 DEF Ports, Slots
<1>5. CallTypes' /\ IdeTypes' /\ AhciTypes'
  <2>1. Machines' = Machines /\ Requests' = Requests /\ PortStates' = PortStates
    BY <1>4 DEF Requests, PortStates
  <2>2. CallTypes'
    BY <1>1, <1>2, <1>3, <2>1 DEF IInv, CallTypes, AhciPcs, ProbePcs, IdePcs
  <2>3. IdeTypes'
    BY <1>2 DEF IInv, IdeTypes
  <2>4. AhciTypes'
    BY <1>2, <1>4, <2>1 DEF IInv, AhciTypes
  <2>5. QED
    BY <2>2, <2>3, <2>4
<1>6. Booted'
  <2>1. pc' = "ata_select" => Len(ide_devices) <= j
    <3>1. pc' = "ata_select" => ide_devices = <<>> /\ j = 0
      BY <1>1 DEF IInv, Booted
    <3>2. Len(<<>>) = 0
      OBVIOUS
    <3>3. QED
      BY <3>1, <3>2
  <2>2. pc' \notin InitPcs /\ (pc' \in ProbePcs => pc' = "ata_select")
    BY <1>3 DEF InitPcs, ProbePcs
  <2>3. Len(ide_devices) <= 2
    BY DEF IInv, Booted
  <2>4. QED
    BY <1>1, <1>2, <2>1, <2>2, <2>3 DEF Booted
<1>7. InDriver'
  BY <1>1, <1>2, <1>3, <1>4 DEF IInv, InDriver, IdePcs, AhciPcs
<1>8. PortOwned'
  BY <1>1, <1>2, <1>3, <1>4 DEF IInv, PortOwned, AhciPcs
<1>9. OnPort'
  <2>1. \A p \in Ports : Quiet(p)
    BY <1>1 DEF IInv, OnPort, Polling
  <2>2. \A p \in Ports' : Quiet(p)'
    BY <1>2, <1>4, <2>1 DEF Quiet
  <2>3. pc' \notin Polling /\ pc' \notin {"fill", "spin"}
    BY <1>3 DEF Polling
  <2>4. QED
    BY <2>2, <2>3 DEF OnPort
<1>10. EntryFilled'
  BY <1>3 DEF EntryFilled
<1>11. OnlySelected'
  <2>1. \A d \in Drives : drv[d].job.cmd \notin {"read", "write", "store"}
    BY <1>1 DEF IInv, OnlySelected
  <2>2. QED
    BY <1>2, <2>1 DEF OnlySelected
<1>12. OnDrive'
  BY <1>3 DEF OnDrive
<1>13. Moved'
  <2>1. CASE pc' = "lost"
    <3>1. Addressable' = Addressable /\ Asked' = Asked /\ call' = call /\ moved' = moved
      BY <1>2, <1>3, <2>1 DEF Addressable, Asked, OnIde
    <3>2. QED
      BY <2>1, <3>1 DEF IInv, Moved
  <2>2. CASE pc' # "lost"
    <3>1. <<>> \in Seq(Int) /\ Len(<<>>) <= 1
      OBVIOUS
    <3>2. QED
      BY <1>3, <2>2, <3>1 DEF Moved
  <2>3. QED
    BY <2>1, <2>2
<1>14. Results'
  BY <1>3 DEF Results, ErrorIsReal, SuccessIsReal
<1>15. QED
  BY <1>5, <1>6, <1>7, <1>8, <1>9, <1>10, <1>11, <1>12, <1>13, <1>14 DEF IInv

------------------------------------------------------------------------------
(* The IDE driver.                                                         *)

\* The IDE driver leaves the ports and what is known of them alone.
LEMMA IdeLeavesPorts ==
    ASSUME IInv, UNCHANGED <<machine, ahci_vars>>,
           pc \in ProbePcs \union IdePcs, pc' \in ProbePcs \union IdePcs \union {"idle", "returned"}
    PROVE  AhciTypes' /\ PortOwned' /\ OnPort' /\ EntryFilled'
<1>1. UNCHANGED <<machine, ports, nports, hba, spin, slot>> /\ Ports' = Ports /\ Slots' = Slots
  BY DEF ahci_vars, Ports, Slots
<1>2. AhciTypes'
  BY <1>1 DEF IInv, AhciTypes, PortStates
<1>3. PortOwned'
  BY <1>1 DEF IInv, PortOwned, ProbePcs, IdePcs, AhciPcs
<1>4. OnPort'
  <2>1. \A p \in Ports : Quiet(p)
    BY DEF IInv, OnPort, Polling, ProbePcs, IdePcs
  <2>2. \A p \in Ports' : Quiet(p)'
    BY <1>1, <2>1 DEF Quiet
  <2>3. pc' \notin Polling /\ pc' \notin {"fill", "spin"}
    BY DEF Polling, ProbePcs, IdePcs
  <2>4. QED
    BY <2>2, <2>3 DEF OnPort
<1>5. EntryFilled'
  BY DEF EntryFilled, ProbePcs, IdePcs
<1>6. QED
  BY <1>2, <1>3, <1>4, <1>5

\* A drive takes a command, or stays as it is.
LEMMA CommandTaken ==
    ASSUME drv \in [Drives -> DriveStates], NEW d \in Drives, NEW job \in Jobs, Command(d, job)
    PROVE  /\ drv' \in [Drives -> DriveStates]
           /\ \A e \in Drives : e # d => drv'[e] = drv[e]
           /\ Hears(d) => drv'[d] = [busy |-> TRUE, left |-> 0, err |-> FALSE, job |-> job]
           /\ ~Hears(d) => drv'[d] = drv[d]
<1>1. 0 \in 0 .. Quads
  BY QuadsNat
<1>2. [busy |-> TRUE, left |-> 0, err |-> FALSE, job |-> job] \in DriveStates
  BY <1>1 DEF DriveStates
<1>3. CASE Hears(d)
  <2>1. drv' = [drv EXCEPT ![d] = [busy |-> TRUE, left |-> 0, err |-> FALSE, job |-> job]]
    BY <1>3 DEF Command
  <2>2. QED
    BY <1>2, <1>3, <2>1
<1>4. CASE ~Hears(d)
  BY <1>4 DEF Command
<1>5. QED
  BY <1>3, <1>4

RegsTypes == [sel : Drives, flat : BOOLEAN, head : 0 .. Nibble - 1,
              cur : Registers, prev : Registers]

\* A step of the probe keeps the invariant if it keeps the types, lists at
\* most one drive for each drive probed, and starts no transfer.
LEMMA ProbeKeeps ==
    ASSUME IInv, pc \in ProbePcs, pc' \in ProbePcs \union {"idle"},
           UNCHANGED <<machine, call, moved, ahci_vars, cmd>>,
           regs' \in RegsTypes, drv' \in [Drives -> DriveStates],
           ide_devices' \in Seq(Entries), j' \in Drives,
           pc' \in ProbePcs => Len(ide_devices') <= j', Len(ide_devices') <= 2,
           \A d \in Drives : drv'[d].job.cmd \notin {"read", "write", "store"}
    PROVE  IInv'
<1>1. UNCHANGED <<machine, call, moved, ports, nports, hba, spin, slot, cmd>> /\ Ports' = Ports
  BY DEF ahci_vars, Ports
<1>2. CallTypes' /\ IdeTypes'
  BY <1>1 DEF IInv, CallTypes, IdeTypes, RegsTypes, ProbePcs, Requests
<1>3. AhciTypes' /\ PortOwned' /\ OnPort' /\ EntryFilled'
  BY IdeLeavesPorts
<1>4. Booted' /\ InDriver'
  BY <1>1 DEF IInv, Booted, InDriver, ProbePcs, InitPcs, AhciPcs, IdePcs
<1>5. OnlySelected' /\ OnDrive'
  BY DEF OnlySelected, OnDrive, ProbePcs
<1>6. Moved'
  BY <1>1 DEF IInv, Moved, ProbePcs, Polling
<1>7. Results'
  BY DEF Results, ErrorIsReal, SuccessIsReal, ProbePcs
<1>8. QED
  BY <1>2, <1>3, <1>4, <1>5, <1>6, <1>7 DEF IInv

\* The probe goes from the master to the slave and ends.
LEMMA NextDriveIs ==
    ASSUME j \in Drives, NextDrive
    PROVE  /\ j' \in Drives /\ pc' \in {"ata_select", "idle"}
           /\ pc' = "ata_select" => j = 0 /\ j' = 1
BY DEF NextDrive, Drives

\* The commands without a sector number.
LEMMA IdentifyJobs ==
    \A cmd_ \in {"identify", "identify_packet", "flush"} :
        /\ Job(cmd_, 0, 0, FALSE, FALSE) \in Jobs
        /\ Job(cmd_, 0, 0, FALSE, FALSE).cmd = cmd_
BY DEF Job, Jobs

\* A command other than to read or to write starts no transfer.
LEMMA OtherCommand ==
    ASSUME drv \in [Drives -> DriveStates], NEW d \in Drives,
           NEW name \in {"identify", "identify_packet", "flush"},
           Command(d, Job(name, 0, 0, FALSE, FALSE))
    PROVE  /\ drv' \in [Drives -> DriveStates]
           /\ \A e \in Drives : \/ drv'[e] = drv[e]
                                \/ e = d /\ drv'[e].job.cmd \notin {"read", "write", "store"}
<1>1. Job(name, 0, 0, FALSE, FALSE) \in Jobs /\ Job(name, 0, 0, FALSE, FALSE).cmd = name
  BY IdentifyJobs
<1>2. /\ drv' \in [Drives -> DriveStates]
      /\ \A e \in Drives : e # d => drv'[e] = drv[e]
      /\ Hears(d) => drv'[d] = [busy |-> TRUE, left |-> 0, err |-> FALSE,
                                job |-> Job(name, 0, 0, FALSE, FALSE)]
      /\ ~Hears(d) => drv'[d] = drv[d]
  BY <1>1, CommandTaken
<1>3. QED
  <2>1. SUFFICES ASSUME NEW e \in Drives, drv'[e] # drv[e]
                 PROVE  e = d /\ drv'[e].job.cmd \notin {"read", "write", "store"}
    BY <1>2
  <2>2. e = d /\ drv'[d].job = Job(name, 0, 0, FALSE, FALSE)
    <3>1. e = d /\ Hears(d)
      BY <1>2, <2>1, Zenon
    <3>2. \A job : [busy |-> TRUE, left |-> 0, err |-> FALSE, job |-> job].job = job
      OBVIOUS
    <3>3. QED
      BY <1>2, <3>1, <3>2, Zenon
  <2>3. drv'[d].job.cmd = name /\ name \notin {"read", "write", "store"}
    BY <1>1, <2>2
  <2>4. QED
    BY <2>2, <2>3

\* A step of ide_init keeps the invariant.
LEMMA IdeInitKeeps ==
    ASSUME IInv, ide_init, UNCHANGED <<ahci_vars, cmd>>
    PROVE  IInv'
<1>1. /\ regs \in RegsTypes /\ drv \in [Drives -> DriveStates]
      /\ ide_devices \in Seq(Entries) /\ j \in Drives /\ regs.sel \in Drives
  BY DEF IInv, IdeTypes, RegsTypes
<1>2. pc \in ProbePcs
  BY DEF ide_init, ide_init_select, ide_init_nothing, ide_init_error, ide_init_read, ProbePcs
<1>3. \A d \in Drives : drv[d].job.cmd \notin {"read", "write", "store"}
  BY <1>2 DEF IInv, OnlySelected, ProbePcs
<1>4. PICK n \in 0 .. 1 : n = Len(ide_devices) /\ n <= j /\ n <= 2
  <2>1. Len(ide_devices) <= j /\ j \in 0 .. 1
    BY <1>1, <1>2 DEF IInv, Booted, Drives
  <2>2. PICK m \in Nat : m = Len(ide_devices)
    BY <1>1
  <2>3. m \in 0 .. 1 /\ m <= j /\ m <= 2
    BY <2>1, <2>2
  <2>4. QED
    BY <2>2, <2>3, Zenon
<1>5. CASE ide_init_select
  <2> DEFINE d == IF Listening(regs.sel) THEN j ELSE regs.sel
  <2>1. d \in Drives
    BY <1>1
  <2> HIDE DEF d
  <2>2. /\ regs' = [regs EXCEPT !.sel = d] /\ pc' = "ata_identify"
        /\ Command(d, Job("identify", 0, 0, FALSE, FALSE))
        /\ UNCHANGED <<machine, call, moved, ide_devices, j>>
    BY <1>5 DEF ide_init_select, d
  <2>3. regs' \in RegsTypes
    BY <1>1, <2>1, <2>2 DEF RegsTypes
  <2>4. /\ drv' \in [Drives -> DriveStates]
        /\ \A e \in Drives : drv'[e].job.cmd \notin {"read", "write", "store"}
    BY <1>1, <2>1, <2>2, OtherCommand, <1>3
  <2>5. pc' \in ProbePcs
    BY <2>2 DEF ProbePcs
  <2>6. Len(ide_devices') <= j' /\ Len(ide_devices') <= 2
    BY <1>4, <2>2, Zenon
  <2>7. QED
    BY <1>1, <1>2, <2>2, <2>3, <2>4, <2>5, <2>6, ProbeKeeps
<1>6. CASE ide_init_nothing
  <2>1. NextDrive /\ UNCHANGED <<machine, call, moved, regs, drv, ide_devices>>
    BY <1>6 DEF ide_init_nothing
  <2>2. /\ j' \in Drives /\ pc' \in ProbePcs \union {"idle"}
        /\ pc' \in ProbePcs => j = 0 /\ j' = 1
    BY <1>1, <2>1, NextDriveIs DEF ProbePcs
  <2>3. pc' \in ProbePcs => Len(ide_devices') <= j'
    BY <1>4, <2>1, <2>2
  <2>4. Len(ide_devices') <= 2
    BY <1>4, <2>1, Zenon
  <2>5. QED
    BY <1>1, <1>2, <1>3, <2>1, <2>2, <2>3, <2>4, ProbeKeeps
<1>7. CASE ide_init_error
  <2>1. UNCHANGED <<machine, call, moved, regs, ide_devices>>
    BY <1>7 DEF ide_init_error
  <2>2. CASE machine.drive[regs.sel] = "atapi"
    <3>1. /\ Command(regs.sel, Job("identify_packet", 0, 0, FALSE, FALSE))
          /\ pc' = "ata_packet" /\ j' = j
      BY <1>7, <2>2 DEF ide_init_error
    <3>2. /\ drv' \in [Drives -> DriveStates]
          /\ \A e \in Drives : drv'[e].job.cmd \notin {"read", "write", "store"}
      BY <1>1, <3>1, OtherCommand, <1>3
    <3>3. pc' \in ProbePcs
      BY <3>1 DEF ProbePcs
    <3>4. Len(ide_devices') <= j' /\ Len(ide_devices') <= 2
      BY <1>4, <2>1, <3>1, Zenon
    <3>5. QED
      BY <1>1, <1>2, <2>1, <3>1, <3>2, <3>3, <3>4, ProbeKeeps
  <2>3. CASE machine.drive[regs.sel] # "atapi"
    <3>1. NextDrive /\ drv' = drv
      BY <1>7, <2>3 DEF ide_init_error
    <3>2. /\ j' \in Drives /\ pc' \in ProbePcs \union {"idle"}
          /\ pc' \in ProbePcs => j = 0 /\ j' = 1
      BY <1>1, <3>1, NextDriveIs DEF ProbePcs
    <3>3. pc' \in ProbePcs => Len(ide_devices') <= j'
      BY <1>4, <2>1, <3>2
    <3>4. Len(ide_devices') <= 2
      BY <1>4, <2>1, Zenon
    <3>5. QED
      BY <1>1, <1>2, <1>3, <2>1, <3>1, <3>2, <3>3, <3>4, ProbeKeeps
  <2>4. QED
    BY <2>2, <2>3
<1>8. CASE ide_init_read
  <2> DEFINE d == regs.sel
             words == Unread(drv[d].left, insl(Quads))
  <2>1. /\ NextDrive /\ UNCHANGED <<machine, call, moved, regs>>
        /\ drv' = [drv EXCEPT ![d].left = words]
    BY <1>8 DEF ide_init_read
  <2>2. PICK size \in {0, Capacity[machine.drive[d]]}, flat \in BOOLEAN :
            ide_devices' = Append(ide_devices, [drive |-> j, flat |-> flat, size |-> size])
    BY <1>8 DEF ide_init_read
  <2>3. size \in Nat
    <3>1. machine.drive[d] \in DriveKinds
      BY <1>1, DiskAssumption DEF IInv, CallTypes, IsMachine
    <3>2. Capacity[machine.drive[d]] \in Nat
      BY <3>1, DiskAssumption
    <3>3. QED
      BY <3>2
  <2>4. [drive |-> j, flat |-> flat, size |-> size] \in Entries
    BY <1>1, <2>3 DEF Entries
  <2>5. ide_devices' \in Seq(Entries) /\ Len(ide_devices') = Len(ide_devices) + 1
    BY <1>1, <2>2, <2>4
  <2>6. words \in 0 .. Quads
    <3>1. drv[d].left \in 0 .. Quads /\ Quads \in Nat /\ Quads >= 2
      BY <1>1, QuadsNat DEF DriveStates
    <3>2. \A left \in 0 .. Quads : Unread(left, Quads - 1) \in 0 .. Quads
      BY <3>1 DEF Unread
    <3>3. QED
      BY <3>1, <3>2 DEF insl
  <2>7. drv[d] \in DriveStates
    BY <1>1
  <2> HIDE DEF words
  <2>8. /\ [drv[d] EXCEPT !.left = words] \in DriveStates
        /\ [drv[d] EXCEPT !.left = words].job = drv[d].job
    BY <2>6, <2>7 DEF DriveStates
  <2>9. drv' = [drv EXCEPT ![d] = [drv[d] EXCEPT !.left = words]]
    BY <1>1, <2>1
  <2>10. /\ drv' \in [Drives -> DriveStates]
         /\ \A e \in Drives : drv'[e].job.cmd \notin {"read", "write", "store"}
    BY <1>1, <1>3, <2>8, <2>9
  <2>11. /\ j' \in Drives /\ pc' \in ProbePcs \union {"idle"}
         /\ pc' \in ProbePcs => j = 0 /\ j' = 1
    BY <1>1, <2>1, NextDriveIs DEF ProbePcs
  <2>12. (pc' \in ProbePcs => Len(ide_devices') <= j') /\ Len(ide_devices') <= 2
    <3>1. n + 1 <= 2 /\ (j = 0 => n + 1 <= 1)
      BY <1>4
    <3>2. Len(ide_devices') = n + 1
      BY <1>4, <2>5
    <3>3. QED
      BY <2>11, <3>1, <3>2, Zenon
  <2>13. QED
    BY <1>1, <1>2, <2>1, <2>5, <2>10, <2>11, <2>12, ProbeKeeps
<1>9. QED
  BY <1>5, <1>6, <1>7, <1>8 DEF ide_init

\* A step of a call by IDE keeps the invariant if it keeps the types and what
\* is known of the drives, of the sector moved, and of the result.
LEMMA IdeCallKeeps ==
    ASSUME IInv, pc \in IdePcs, pc' \in {"ata_poll", "ata_flush", "returned"},
           UNCHANGED <<machine, ide_devices, j, ahci_vars, cmd>>,
           call' \in Requests, call'.unit = call.unit, call'.op = call.op,
           call'.count = call.count,
           regs' \in RegsTypes, drv' \in [Drives -> DriveStates],
           OnlySelected', OnDrive', Moved', Results'
    PROVE  IInv'
<1>1. UNCHANGED <<machine, ports, nports, hba, spin, slot, cmd>> /\ Ports' = Ports
  BY DEF ahci_vars, Ports
<1>2. pc' \in ProbePcs \union IdePcs \union {"idle", "returned"}
  BY DEF IdePcs
<1>3. AhciTypes' /\ PortOwned' /\ OnPort' /\ EntryFilled'
  BY <1>2, IdeLeavesPorts
<1>4. CallTypes' /\ IdeTypes'
  BY <1>1, <1>2 DEF IInv, CallTypes, IdeTypes, RegsTypes, Requests
<1>5. ide_devices # <<>> /\ cmd.name # "init_ahci"
  BY DEF IInv, InDriver
<1>6. Booted'
  BY <1>1, <1>5 DEF IInv, Booted, ProbePcs, InitPcs, AhciPcs
<1>7. InDriver'
  BY <1>1 DEF IInv, InDriver, AhciPcs
<1>8. QED
  BY <1>3, <1>4, <1>6, <1>7 DEF IInv

\* What is known in a call by IDE.
LEMMA InIde ==
    ASSUME IInv, pc \in IdePcs
    PROVE  /\ call \in Requests /\ call.count = 1 /\ call.op \in {"read", "write"}
           /\ call.lba \in Int /\ Asked = <<call.lba>>
           /\ nports = 0 /\ ide_devices # <<>> /\ call.unit = 0
           /\ regs \in RegsTypes /\ drv \in [Drives -> DriveStates] /\ regs.sel \in Drives
           /\ \A d \in Drives : drv[d] \in DriveStates /\ drv[d].job \in Jobs
           /\ moved = <<>> \/ pc = "ata_flush"
<1>1. /\ call \in Requests /\ call.count = 1 /\ call.op \in {"read", "write"}
      /\ nports = 0 /\ ide_devices # <<>> /\ call.unit = 0
  BY DEF IInv, InDriver, CallTypes
<1>2. call.lba \in Int
  BY LbaNumber DEF IInv
<1>3. Asked = <<call.lba>>
  BY <1>1, <1>2, AskedIsOne
<1>4. /\ regs \in RegsTypes /\ drv \in [Drives -> DriveStates] /\ regs.sel \in Drives
      /\ \A d \in Drives : drv[d] \in DriveStates /\ drv[d].job \in Jobs
  BY DEF IInv, IdeTypes, RegsTypes, DriveStates
<1>5. moved = <<>> \/ pc = "ata_flush"
  BY DEF IInv, Moved, IdePcs, Polling
<1>6. QED
  BY <1>1, <1>2, <1>3, <1>4, <1>5

\* The parameters are those of the call: the drive selected is asked for its
\* sector, if it takes the command.
LEMMA SendParamsKeeps ==
    ASSUME IInv, send_params, UNCHANGED <<ahci_vars, cmd>>
    PROVE  IInv'
<1> DEFINE flat == ide_devices[call.unit + 1].flat
           mode == LbaMode(call.lba, flat)
           d == IF Listening(regs.sel) THEN Unit ELSE regs.sel
           new == Params(mode, d)
           addr == Address(new, mode = "lba48")
           job == Job(call.op, addr, call.count, mode = "lba48", mode # "chs")
<1>1. /\ pc = "ata_wait" /\ pc' = "ata_poll"
      /\ regs' = IF Listening(regs.sel) THEN new ELSE regs
      /\ Command(d, job)
      /\ call' = [call EXCEPT !.taken = Hears(d)]
      /\ UNCHANGED <<machine, moved, ide_devices, j>>
  BY DEF send_params
<1>2. /\ call \in Requests /\ call.count = 1 /\ call.op \in {"read", "write"}
      /\ nports = 0 /\ ide_devices # <<>> /\ call.unit = 0
      /\ regs \in RegsTypes /\ drv \in [Drives -> DriveStates] /\ regs.sel \in Drives
      /\ moved = <<>>
  BY <1>1, InIde DEF IdePcs
<1>3. flat \in BOOLEAN /\ Unit \in Drives /\ flat = ide_devices[1].flat
  <2>1. \A s \in Seq(Entries) : s # <<>> => s[1] \in Entries
    OBVIOUS
  <2>2. ide_devices[1] \in Entries
    BY <1>2, <2>1, Zenon DEF IInv, IdeTypes
  <2>3. call.unit + 1 = 1
    BY <1>2
  <2>4. QED
    BY <2>2, <2>3 DEF Entries, Unit
<1>4. d \in Drives
  BY <1>2, <1>3
<1>5. mode \in Modes
  BY DEF LbaMode, Modes
<1>6. call.lba \in 0 .. Word - 1
  BY LbaNumber DEF IInv
<1>7. new \in RegsTypes /\ new.sel = d
  BY <1>4, <1>5, ParamsType DEF IInv, RegsTypes, Params
<1>8. addr \in Int
  BY <1>7, AddressType DEF RegsTypes
<1>9. Addressable => addr = call.lba
  <2>1. Addressable => (~flat /\ call.lba < Nibble * Weight(3)
                           => call.lba < Weight(2) * Nibble * SectorsPerTrack)
    BY <1>2, <1>3, Zenon DEF Addressable, OnIde
  <2>2. QED
    BY <1>3, <1>6, <2>1, AddressMeets
<1> HIDE DEF mode, d, new, addr, flat
<1>10. /\ job \in Jobs /\ job.cmd = call.op /\ job.todo = 1 /\ job.lba = addr
  BY <1>2, <1>8 DEF Job, Jobs
<1> HIDE DEF job
<1>11. /\ drv' \in [Drives -> DriveStates]
       /\ \A e \in Drives : e # d => drv'[e] = drv[e]
       /\ Hears(d) => drv'[d] = [busy |-> TRUE, left |-> 0, err |-> FALSE, job |-> job]
       /\ ~Hears(d) => drv'[d] = drv[d]
  BY <1>1, <1>2, <1>4, <1>10, CommandTaken
<1>12. Hears(d) \in BOOLEAN
  BY DEF Hears
<1>13. /\ call' \in Requests /\ call'.unit = call.unit /\ call'.op = call.op
       /\ call'.count = call.count /\ call'.lba = call.lba /\ call'.sent = call.sent
       /\ call'.taken = Hears(d) /\ call'.result = call.result
  BY <1>1, <1>2, <1>12 DEF Requests
<1>14. Hears(d) => regs'.sel = d
  <2>1. CASE Listening(regs.sel)
    BY <1>1, <1>7, <2>1
  <2>2. CASE ~Listening(regs.sel)
    BY <1>1, <2>2 DEF Listening, Hears, d
  <2>3. QED
    BY <2>1, <2>2
<1>15. regs' \in RegsTypes
  BY <1>1, <1>2, <1>7
<1>16. \A e \in Drives : drv[e].job.cmd \notin {"read", "write", "store"}
  BY <1>1 DEF IInv, OnlySelected
<1>17. Hears(d) => /\ drv'[d].busy /\ drv'[d].left = 0 /\ ~drv'[d].err /\ drv'[d].job = job
  BY <1>11
<1>18. OnlySelected'
  <2>1. SUFFICES ASSUME NEW e \in Drives, drv'[e].job.cmd \in {"read", "write", "store"}
                 PROVE  e = d /\ Hears(d) /\ drv'[e].job.cmd # "store"
    BY <1>1, <1>13, <1>14 DEF OnlySelected
  <2>2. e = d /\ Hears(d)
    BY <1>11, <1>16, <2>1
  <2>3. QED
    BY <1>2, <1>10, <1>17, <2>2
<1>19. Addressable' = Addressable
  BY <1>1, <1>13 DEF Addressable, OnIde, ahci_vars
<1>20. OnDrive'
  <2>1. ASSUME Hears(d) PROVE Transfer(drv[regs.sel])'
    BY <1>9, <1>10, <1>13, <1>14, <1>17, <1>19, <2>1 DEF Transfer, JobIsCall
  <2>2. call.sent = 0
    BY <1>1 DEF IInv, OnDrive
  <2>3. QED
    BY <1>1, <1>13, <2>1, <2>2 DEF OnDrive
<1>21. Moved'
  <2>1. <<>> \in Seq(Int) /\ Len(<<>>) <= 1
    OBVIOUS
  <2>2. QED
    BY <1>1, <1>2, <2>1 DEF Moved
<1>22. Results'
  BY <1>1 DEF Results, ErrorIsReal, SuccessIsReal
<1>23. QED
  BY <1>1, <1>11, <1>13, <1>15, <1>18, <1>20, <1>21, <1>22, IdeCallKeeps DEF IdePcs

\* A call that returns keeps all but its result.
LEMMA Returning ==
    ASSUME call \in Requests, NEW result \in {"ok", "error", "hung", "no slot"}, Return(result)
    PROVE  /\ pc' = "returned" /\ call' \in Requests /\ call'.result = result
           /\ call'.unit = call.unit /\ call'.op = call.op /\ call'.lba = call.lba
           /\ call'.count = call.count /\ call'.sent = call.sent
           /\ call'.failed = call.failed /\ call'.taken = call.taken
BY DEF Return, Requests

\* The question of a call does not change while it runs.
LEMMA SameAsked ==
    ASSUME UNCHANGED <<nports, ide_devices>>, call'.op = call.op, call'.lba = call.lba,
           call'.count = call.count
    PROVE  Asked' = Asked /\ Addressable' = Addressable
BY DEF Asked, Addressable, OnIde

\* The state of a drive after its data was read or written.
LEMMA AfterTransfer ==
    ASSUME NEW r \in DriveStates, NEW busy \in BOOLEAN, NEW job \in Jobs
    PROVE  LET new == [r EXCEPT !.left = 0, !.busy = busy, !.job = job]
           IN  new \in DriveStates /\ new.busy = busy /\ new.job = job
<1>1. 0 \in 0 .. Quads
  BY QuadsNat
<1>2. QED
  BY <1>1 DEF DriveStates

\* A read that the drive refused returns an error, and the drive reported it.
LEMMA ReadErrorKeeps ==
    ASSUME IInv, read_error, UNCHANGED <<ahci_vars, cmd>>
    PROVE  IInv'
<1>1. /\ pc = "ata_poll" /\ ~drv[regs.sel].busy /\ Return("error")
      /\ drv[regs.sel].err \/ drv[regs.sel].left = 0
      /\ UNCHANGED <<machine, moved, regs, drv, ide_devices, j>>
  BY DEF read_error, Polled, ata_vars
<1>2. /\ call \in Requests /\ moved = <<>> /\ regs.sel \in Drives
      /\ regs \in RegsTypes /\ drv \in [Drives -> DriveStates] /\ pc \in IdePcs
  BY <1>1, InIde DEF IdePcs
<1>3. /\ pc' = "returned" /\ call' \in Requests /\ call'.result = "error"
      /\ call'.unit = call.unit /\ call'.op = call.op
      /\ call'.count = call.count /\ call'.failed = call.failed /\ call'.taken = call.taken
  BY <1>1, <1>2, Returning
<1>4. call.taken => call.failed /\ drv[regs.sel].job.cmd = "none"
  <2>1. call.taken => Transfer(drv[regs.sel])
    BY <1>1 DEF IInv, OnDrive
  <2>2. QED
    BY <1>1, <2>1, QuadsNat DEF Transfer
<1>5. \A e \in Drives : drv[e].job.cmd \notin {"read", "write", "store"}
  <2>1. \A e \in Drives : drv[e].job.cmd \in {"read", "write", "store"} => e = regs.sel /\ call.taken
    BY DEF IInv, OnlySelected
  <2>2. QED
    BY <1>4, <2>1
<1>6. OnlySelected' /\ OnDrive'
  BY <1>1, <1>3, <1>5 DEF OnlySelected, OnDrive
<1>7. Moved'
  <2>1. <<>> \in Seq(Int) /\ Len(<<>>) <= 1
    OBVIOUS
  <2>2. QED
    BY <1>1, <1>2, <2>1 DEF Moved
<1>8. Results'
  BY <1>3, <1>4 DEF Results, ErrorIsReal, SuccessIsReal
<1>9. QED
  BY <1>1, <1>2, <1>3, <1>6, <1>7, <1>8, IdeCallKeeps

\* A read returns the sector that was asked for, if the drive took the command.
LEMMA ReadSectorKeeps ==
    ASSUME IInv, read_sector, UNCHANGED <<ahci_vars, cmd>>
    PROVE  IInv'
<1> DEFINE d == regs.sel
           wanted == drv[d].left = Quads /\ drv[d].job.cmd = "read"
           next == NextSector(drv[d].job)
           what == IF wanted THEN drv[d].job.lba ELSE NoData
           job == IF wanted THEN next ELSE NoJob
<1>1. /\ pc = "ata_poll" /\ ~drv[d].busy /\ call.op = "read"
      /\ ~drv[d].err /\ drv[d].left > 0
      /\ moved' = Append(moved, what)
      /\ drv' = [drv EXCEPT ![d].left = 0, ![d].busy = wanted /\ next # NoJob, ![d].job = job]
      /\ IF Len(moved') = call.count THEN Return("ok") ELSE UNCHANGED <<pc, call>>
      /\ UNCHANGED <<machine, regs, ide_devices, j>>
  BY DEF read_sector, Polled
<1>2. /\ call \in Requests /\ call.count = 1 /\ moved = <<>> /\ d \in Drives
      /\ regs \in RegsTypes /\ drv \in [Drives -> DriveStates] /\ pc \in IdePcs
      /\ drv[d] \in DriveStates /\ drv[d].job \in Jobs /\ Asked = <<call.lba>>
  BY <1>1, InIde DEF IdePcs
<1>3. call.taken =>
          /\ wanted /\ drv[d].job.todo = 1
          /\ Addressable => drv[d].job.lba = call.lba
  <2>1. call.taken => Transfer(drv[d])
    BY <1>1 DEF IInv, OnDrive
  <2>2. QED
    BY <1>1, <2>1 DEF Transfer, JobIsCall
<1>4. ~call.taken => ~wanted
  BY <1>2 DEF IInv, OnlySelected
<1>5. job = NoJob /\ ~(wanted /\ next # NoJob)
  BY <1>3, <1>4 DEF NextSector
<1>6. what \in Int
  BY <1>2 DEF Jobs, NoData
<1> HIDE DEF job, what
<1>7. moved' = <<what>>
  BY <1>1, <1>2
<1>8. moved' \in Seq(Int) /\ Len(moved') = 1
  <2>1. \A x \in Int : <<x>> \in Seq(Int) /\ Len(<<x>>) = 1
    OBVIOUS
  <2>2. QED
    BY <1>6, <1>7, <2>1
<1>9. Return("ok")
  BY <1>1, <1>2, <1>8
<1>10. /\ pc' = "returned" /\ call' \in Requests /\ call'.result = "ok"
       /\ call'.unit = call.unit /\ call'.op = call.op /\ call'.lba = call.lba
       /\ call'.count = call.count /\ call'.failed = call.failed /\ call'.taken = call.taken
  BY <1>2, <1>9, Returning
<1>11. Asked' = Asked /\ Addressable' = Addressable
  BY <1>1, <1>10, SameAsked DEF ahci_vars
<1>12. call.taken /\ Addressable => moved' = Asked
  BY <1>2, <1>3, <1>7 DEF what
<1>13. [drv[d] EXCEPT !.left = 0, !.busy = FALSE, !.job = NoJob] \in DriveStates
  BY <1>2, JobTypes, AfterTransfer
<1>14. [drv[d] EXCEPT !.left = 0, !.busy = FALSE, !.job = NoJob].job = NoJob
  BY <1>2, JobTypes, AfterTransfer
<1>15. drv' = [drv EXCEPT ![d] = [drv[d] EXCEPT !.left = 0, !.busy = FALSE, !.job = NoJob]]
  <2>1. (wanted /\ next # NoJob) = FALSE
    BY <1>5
  <2>2. drv' = [drv EXCEPT ![d].left = 0, ![d].busy = FALSE, ![d].job = NoJob]
    BY <1>1, <1>5, <2>1
  <2>3. QED
    BY <1>2, <2>2
<1>16. drv' \in [Drives -> DriveStates]
  BY <1>2, <1>13, <1>15
<1>17. \A e \in Drives : drv'[e].job.cmd \notin {"read", "write", "store"}
  <2>1. \A e \in Drives : drv[e].job.cmd \in {"read", "write", "store"} => e = d
    BY DEF IInv, OnlySelected
  <2>2. drv'[d].job = NoJob /\ \A e \in Drives : e # d => drv'[e] = drv[e]
    BY <1>2, <1>14, <1>15
  <2>3. NoJob.cmd = "none"
    BY DEF NoJob, Job
  <2>4. QED
    BY <2>1, <2>2, <2>3
<1>18. OnlySelected' /\ OnDrive'
  BY <1>10, <1>17 DEF OnlySelected, OnDrive
<1>19. Moved'
  BY <1>8, <1>10, <1>11, <1>12 DEF Moved
<1>20. Results'
  BY <1>10, <1>11, <1>12 DEF Results, ErrorIsReal, SuccessIsReal
<1>21. QED
  BY <1>1, <1>2, <1>10, <1>16, <1>18, <1>19, <1>20, IdeCallKeeps

\* The drive stores what a write has handed to it, unless it refused.
LEMMA WriteSectorKeeps ==
    ASSUME IInv, write_sector, UNCHANGED <<ahci_vars, cmd>>
    PROVE  IInv'
<1> DEFINE d == regs.sel
           wanted == drv[d].left > 0 /\ drv[d].job.cmd = "write"
<1>1. pc = "ata_poll" /\ ~drv[d].busy /\ call.op = "write" /\ call.sent = 0
  BY DEF write_sector, Polled, IInv, OnDrive
<1>2. /\ call \in Requests /\ call.count = 1 /\ moved = <<>> /\ d \in Drives
      /\ regs \in RegsTypes /\ drv \in [Drives -> DriveStates] /\ pc \in IdePcs
      /\ drv[d] \in DriveStates /\ drv[d].job \in Jobs
  BY <1>1, InIde DEF IdePcs
<1>3. call.sent + 1 = call.count
  BY <1>1, <1>2
<1>4. /\ IF wanted
         THEN drv' = [drv EXCEPT ![d].left = 0, ![d].busy = TRUE, ![d].job.cmd = "store"]
         ELSE Command(d, Job("flush", 0, 0, FALSE, FALSE))
      /\ call' = [call EXCEPT !.sent = call.sent + 1] /\ pc' = "ata_flush"
      /\ UNCHANGED <<machine, moved, regs, ide_devices, j>>
  BY <1>3 DEF write_sector
<1>5. /\ call' \in Requests
      /\ call'.unit = call.unit /\ call'.op = call.op /\ call'.lba = call.lba
      /\ call'.count = call.count /\ call'.failed = call.failed /\ call'.taken = call.taken
  <2>1. call' = [call EXCEPT !.sent = 1]
    BY <1>1, <1>4
  <2>2. QED
    BY <1>2, <2>1 DEF Requests
<1>6. Asked' = Asked /\ Addressable' = Addressable
  BY <1>4, <1>5, SameAsked DEF ahci_vars
<1>7. \A e \in Drives : drv[e].job.cmd \in {"read", "write", "store"} => e = d /\ call.taken
  BY DEF IInv, OnlySelected
<1>8. call.taken => Transfer(drv[d])
  BY <1>1 DEF IInv, OnDrive
<1>9. ASSUME wanted
      PROVE  /\ drv' \in [Drives -> DriveStates] /\ OnlySelected'
             /\ call.taken => Storing(drv[regs.sel])'
  <2> DEFINE new == [drv[d] EXCEPT !.left = 0, !.busy = TRUE,
                                   !.job = [drv[d].job EXCEPT !.cmd = "store"]]
  <2>1. /\ [drv[d].job EXCEPT !.cmd = "store"] \in Jobs
        /\ [drv[d].job EXCEPT !.cmd = "store"].cmd = "store"
        /\ [drv[d].job EXCEPT !.cmd = "store"].lba = drv[d].job.lba
        /\ [drv[d].job EXCEPT !.cmd = "store"].todo = drv[d].job.todo
    BY <1>2 DEF Jobs
  <2>2. /\ new \in DriveStates /\ new.busy
        /\ new.job = [drv[d].job EXCEPT !.cmd = "store"]
    BY <1>2, <2>1, AfterTransfer
  <2>3. drv' = [drv EXCEPT ![d] = new]
    <3>1. drv' = [drv EXCEPT ![d].left = 0, ![d].busy = TRUE, ![d].job.cmd = "store"]
      BY <1>4, <1>9, Zenon
    <3>2. QED
      BY <1>2, <3>1
  <2> HIDE DEF new
  <2>4. drv' \in [Drives -> DriveStates] /\ drv'[d] = new /\ \A e \in Drives : e # d => drv'[e] = drv[e]
    BY <1>2, <2>2, <2>3
  <2>5. call.taken /\ JobIsCall(drv[d].job)
    BY <1>7, <1>8, <1>9, <1>2 DEF Transfer
  <2>6. OnlySelected'
    BY <1>4, <1>5, <1>7, <2>2, <2>4, <2>5 DEF OnlySelected
  <2>7. Storing(drv[regs.sel])'
    BY <1>2, <1>4, <1>5, <1>6, <2>1, <2>2, <2>4, <2>5 DEF Storing, JobIsCall
  <2>8. QED
    BY <2>4, <2>6, <2>7
<1>10. ASSUME ~wanted
       PROVE  /\ drv' \in [Drives -> DriveStates] /\ OnlySelected'
              /\ call.taken => Storing(drv[regs.sel])'
  <2>1. /\ drv' \in [Drives -> DriveStates]
        /\ \A e \in Drives : \/ drv'[e] = drv[e]
                             \/ e = d /\ drv'[e].job.cmd \notin {"read", "write", "store"}
    BY <1>2, <1>4, <1>10, OtherCommand
  <2>2. drv[d].job.cmd \notin {"read", "write", "store"}
    <3>1. CASE call.taken
      <4>1. \/ drv[d].job.cmd = "none"
            \/ drv[d].job.cmd = "write" /\ drv[d].left = Quads
        BY <1>1, <1>8, <3>1 DEF Transfer
      <4>2. Quads > 0
        BY QuadsNat
      <4>3. QED
        BY <1>10, <4>1, <4>2
    <3>2. CASE ~call.taken
      BY <1>2, <1>7, <3>2
    <3>3. QED
      BY <3>1, <3>2
  <2>3. \A e \in Drives : drv'[e].job.cmd \notin {"read", "write", "store"}
    BY <1>7, <2>1, <2>2
  <2>4. OnlySelected'
    BY <2>3 DEF OnlySelected
  <2>5. call.taken => call.failed
    BY <1>1, <1>8, <1>10, QuadsNat DEF Transfer
  <2>6. call.taken => Storing(drv[regs.sel])'
    BY <1>2, <1>4, <1>5, <2>3, <2>5 DEF Storing
  <2>7. QED
    BY <2>1, <2>4, <2>6
<1>11. OnDrive'
  BY <1>1, <1>4, <1>5, <1>9, <1>10 DEF OnDrive
<1>12. Moved'
  <2>1. <<>> \in Seq(Int) /\ Len(<<>>) <= 1
    OBVIOUS
  <2>2. QED
    BY <1>2, <1>4, <2>1 DEF Moved
<1>13. Results'
  BY <1>4 DEF Results, ErrorIsReal, SuccessIsReal
<1>14. QED
  BY <1>2, <1>4, <1>5, <1>9, <1>10, <1>11, <1>12, <1>13, IdeCallKeeps

\* A write returns when the drive is done with it.
LEMMA WriteReturnsKeeps ==
    ASSUME IInv, write_returns, UNCHANGED <<ahci_vars, cmd>>
    PROVE  IInv'
<1>1. /\ pc = "ata_flush" /\ ~drv[regs.sel].busy /\ Return("ok")
      /\ UNCHANGED <<machine, moved, regs, drv, ide_devices, j>>
  BY DEF write_returns, ata_vars
<1>2. /\ call \in Requests /\ regs.sel \in Drives /\ Asked = <<call.lba>>
      /\ regs \in RegsTypes /\ drv \in [Drives -> DriveStates] /\ pc \in IdePcs /\ nports = 0
  BY <1>1, InIde DEF IdePcs
<1>3. /\ pc' = "returned" /\ call' \in Requests /\ call'.result = "ok"
      /\ call'.unit = call.unit /\ call'.op = call.op /\ call'.lba = call.lba
      /\ call'.count = call.count /\ call'.failed = call.failed /\ call'.taken = call.taken
  BY <1>1, <1>2, Returning
<1>4. Asked' = Asked /\ Addressable' = Addressable /\ nports' = nports
  BY <1>1, <1>3, SameAsked DEF ahci_vars
<1>5. call.op = "write" /\ (call.taken => Storing(drv[regs.sel]))
  BY <1>1 DEF IInv, OnDrive
<1>6. call.taken => drv[regs.sel].job.cmd \notin {"read", "write", "store"}
  BY <1>1, <1>5 DEF Storing
<1>7. \A e \in Drives : drv[e].job.cmd \notin {"read", "write", "store"}
  <2>1. \A e \in Drives : drv[e].job.cmd \in {"read", "write", "store"} => e = regs.sel /\ call.taken
    BY DEF IInv, OnlySelected
  <2>2. QED
    BY <1>6, <2>1
<1>8. OnlySelected' /\ OnDrive'
  BY <1>1, <1>3, <1>7 DEF OnlySelected, OnDrive
<1>9. Moved'
  BY <1>1, <1>3, <1>4 DEF IInv, Moved
<1>10. Results'
  <2>1. call.taken /\ Addressable /\ ~call.failed => moved = Asked
    <3>1. Len(<<>>) = 0
      OBVIOUS
    <3>2. call.taken /\ ~call.failed => moved # <<>>
      BY <1>1, <1>5, <3>1 DEF Storing
    <3>3. QED
      BY <3>2 DEF IInv, Moved
  <2>2. QED
    BY <1>1, <1>2, <1>3, <1>4, <1>5, <2>1 DEF Results, ErrorIsReal, SuccessIsReal, OnIde
<1>11. QED
  BY <1>1, <1>2, <1>3, <1>8, <1>9, <1>10, IdeCallKeeps

\* A step of the IDE driver keeps the invariant.
LEMMA AtaKeeps ==
    ASSUME IInv, AtaStep, UNCHANGED <<ahci_vars, cmd>>
    PROVE  IInv'
BY IdeInitKeeps, SendParamsKeeps, ReadErrorKeeps, ReadSectorKeeps, WriteSectorKeeps,
   WriteReturnsKeeps DEF AtaStep

------------------------------------------------------------------------------
(* The AHCI driver.                                                        *)

\* A step of the AHCI driver keeps the invariant if it keeps what is known of
\* the ports, of the sector moved, and of the result.
LEMMA AhciKeepsRest ==
    ASSUME IInv, pc \in InitPcs \union AhciPcs,
           pc' \in InitPcs \union AhciPcs \union {"ata_select", "returned"},
           pc' \in InitPcs \union {"ata_select"} => pc \in InitPcs,
           UNCHANGED <<machine, ata_vars, cmd>>, call' \in Requests,
           AhciTypes', InDriver', PortOwned', OnPort', EntryFilled', Moved', Results'
    PROVE  IInv'
<1>1. UNCHANGED <<machine, regs, drv, ide_devices, j, cmd>> /\ Ports' = Ports
  BY DEF ata_vars, Ports
<1>2. CallTypes' /\ IdeTypes'
  BY <1>1 DEF IInv, CallTypes, IdeTypes, ProbePcs, Requests
<1>3. Booted'
  <2>1. pc \in InitPcs => ide_devices = <<>> /\ j = 0 /\ Len(ide_devices) <= j
    BY DEF IInv, Booted
  <2>2. pc' \in ProbePcs => pc' = "ata_select"
    BY DEF ProbePcs, InitPcs, AhciPcs
  <2>3. pc' \in AhciPcs \union {"returned"} /\ cmd.name = "init_ahci" => ide_devices = <<>> /\ j = 0
    BY DEF IInv, Booted
  <2>4. QED
    BY <1>1, <2>1, <2>2, <2>3 DEF IInv, Booted
<1>4. OnlySelected'
  <2>1. \A d \in Drives : drv[d].job.cmd \notin {"read", "write", "store"}
    BY DEF IInv, OnlySelected, InitPcs, AhciPcs
  <2>2. QED
    BY <1>1, <2>1 DEF OnlySelected
<1>5. OnDrive'
  BY DEF OnDrive, InitPcs, AhciPcs
<1>6. QED
  BY <1>2, <1>3, <1>4, <1>5 DEF IInv

\* The same within a call: the driver leaves the tables where they are, and
\* the ports that are not its own alone.
LEMMA AhciCallKeeps ==
    ASSUME IInv, pc \in AhciPcs, pc' \in AhciPcs \union {"returned"},
           UNCHANGED <<machine, ata_vars, cmd, ports, nports>>,
           call' \in Requests, call'.unit = call.unit, call'.count = call.count,
           call'.taken = call.taken,
           spin' \in 0 .. SpinLimit, slot' \in Slots, hba' \in [Ports -> PortStates],
           \A p \in Ports :
               /\ hba'[p].clb = hba[p].clb /\ hba'[p].st = hba[p].st
               /\ hba[p].clb = "kernel" => hba'[p].table \in [Slots -> TableEntries]
               /\ p # call.unit => hba'[p] = hba[p],
           OnPort', EntryFilled', Moved', Results'
    PROVE  IInv'
<1>1. Ports' = Ports /\ Slots' = Slots /\ UNCHANGED <<machine, ports, nports, cmd>>
  BY DEF Ports, Slots
<1>2. AhciTypes'
  BY <1>1 DEF IInv, AhciTypes, PortStates
<1>3. InDriver'
  BY <1>1 DEF IInv, InDriver, AhciPcs, IdePcs
<1>4. /\ call.unit \in Ports /\ nports > 0 /\ (nports > 0 => 0 \in Ports)
      /\ hba[call.unit].clb = "kernel"
  BY DEF IInv, InDriver, PortOwned
<1>5. PortOwned'
  <2>1. pc' \notin {"init_ahci", "init_loop", "stop_wait", "start_wait"} /\ nports' # 0
    BY <1>1, <1>4 DEF AhciPcs
  <2>2. \A p \in Ports : hba[p].clb = "firmware" => hba'[p] = hba[p]
    BY <1>4
  <2>3. pc \notin {"init_ahci", "init_loop", "stop_wait", "start_wait"}
    BY DEF AhciPcs
  <2>4. \A p \in Ports : hba[p].clb = "kernel" => hba[p].st
    BY <2>3 DEF IInv, PortOwned
  <2>5. \A p \in Ports :
          /\ hba'[p].clb = "firmware" => hba'[p].ci = {} /\ hba'[p].current = NULL
          /\ hba'[p].clb = "kernel" => hba'[p].table \in [Slots -> TableEntries]
          /\ hba'[p].clb = "kernel" => hba'[p].st
    BY <2>2, <2>4 DEF IInv, PortOwned
  <2>6. hba'[call'.unit].clb = "kernel"
    BY <1>4
  <2>7. nports > 0 /\ ports[0] # NULL => hba'[0].clb = "kernel"
    BY <1>4, <2>3 DEF IInv, PortOwned
  <2>8. QED
    BY <1>1, <2>1, <2>5, <2>6, <2>7 DEF PortOwned
<1>6. pc' \notin InitPcs \union {"ata_select"} /\ pc' \in AhciPcs \union {"returned"}
  BY DEF AhciPcs, InitPcs
<1>7. QED
  BY <1>1, <1>2, <1>3, <1>5, <1>6, AhciKeepsRest

\* What is known in a call by AHCI.
LEMMA InAhci ==
    ASSUME IInv, pc \in AhciPcs
    PROVE  /\ call \in Requests /\ call.count = 1 /\ call.taken /\ call.unit \in Ports
           /\ call.lba \in 0 .. Word - 1 /\ nports > 0
           /\ hba \in [Ports -> PortStates] /\ Port \in PortStates
           /\ Port.clb = "kernel" /\ Port.table \in [Slots -> TableEntries]
           /\ slot \in Slots /\ spin \in 0 .. SpinLimit
           /\ moved = <<>> \/ pc \in Polling
           /\ \A p \in Ports : p # call.unit \/ pc \notin Polling => Quiet(p)
<1>1. /\ call \in Requests /\ call.count = 1 /\ call.taken /\ call.unit \in Ports /\ nports > 0
      /\ hba \in [Ports -> PortStates] /\ slot \in Slots /\ spin \in 0 .. SpinLimit
  BY DEF IInv, CallTypes, InDriver, AhciTypes
<1>2. call.lba \in 0 .. Word - 1
  BY LbaNumber DEF IInv
<1>3. Port \in PortStates
  BY <1>1 DEF Port
<1>4. Port.clb = "kernel" /\ Port.table \in [Slots -> TableEntries]
  BY <1>1 DEF IInv, PortOwned, Port
<1>5. moved = <<>> \/ pc \in Polling
  BY DEF IInv, Moved, AhciPcs
<1>6. \A p \in Ports : p # call.unit \/ pc \notin Polling => Quiet(p)
  BY DEF IInv, OnPort
<1>7. QED
  BY <1>1, <1>2, <1>3, <1>4, <1>5, <1>6

\* A port of which a field was set.
LEMMA PortSet ==
    ASSUME NEW r \in PortStates
    PROVE  /\ LET new == [r EXCEPT !.tfes = FALSE]
              IN  /\ new \in PortStates /\ ~new.tfes /\ new.clb = r.clb /\ new.st = r.st
                  /\ new.table = r.table /\ new.ci = r.ci /\ new.current = r.current
                  /\ new.halted = r.halted
           /\ \A s \in Slots : LET new == [r EXCEPT !.ci = r.ci \union {s}]
              IN  /\ new \in PortStates /\ new.tfes = r.tfes /\ new.clb = r.clb /\ new.st = r.st
                  /\ new.table = r.table /\ new.ci = r.ci \union {s} /\ new.current = r.current
                  /\ new.halted = r.halted
           /\ \A t \in [Slots -> TableEntries] : LET new == [r EXCEPT !.table = t]
              IN  /\ new \in PortStates /\ new.tfes = r.tfes /\ new.clb = r.clb /\ new.st = r.st
                  /\ new.table = t /\ new.ci = r.ci /\ new.current = r.current
                  /\ new.halted = r.halted
           /\ \A b \in BOOLEAN : LET new == [r EXCEPT !.fre = b, !.st = b]
              IN  /\ new \in PortStates /\ new.tfes = r.tfes /\ new.clb = r.clb /\ new.st = b
                  /\ new.table = r.table /\ new.ci = r.ci /\ new.current = r.current
                  /\ new.halted = r.halted
<1>1. LET new == [r EXCEPT !.tfes = FALSE]
      IN  /\ new \in PortStates /\ ~new.tfes /\ new.clb = r.clb /\ new.st = r.st
          /\ new.table = r.table /\ new.ci = r.ci /\ new.current = r.current
          /\ new.halted = r.halted
  BY DEF PortStates
<1>2. ASSUME NEW s \in Slots
      PROVE  LET new == [r EXCEPT !.ci = r.ci \union {s}]
             IN  /\ new \in PortStates /\ new.tfes = r.tfes /\ new.clb = r.clb /\ new.st = r.st
                 /\ new.table = r.table /\ new.ci = r.ci \union {s} /\ new.current = r.current
                 /\ new.halted = r.halted
  BY DEF PortStates
<1>3. ASSUME NEW t \in [Slots -> TableEntries]
      PROVE  LET new == [r EXCEPT !.table = t]
             IN  /\ new \in PortStates /\ new.tfes = r.tfes /\ new.clb = r.clb /\ new.st = r.st
                 /\ new.table = t /\ new.ci = r.ci /\ new.current = r.current
                 /\ new.halted = r.halted
  BY DEF PortStates
<1>4. ASSUME NEW b \in BOOLEAN
      PROVE  LET new == [r EXCEPT !.fre = b, !.st = b]
             IN  /\ new \in PortStates /\ new.tfes = r.tfes /\ new.clb = r.clb /\ new.st = b
                 /\ new.table = r.table /\ new.ci = r.ci /\ new.current = r.current
                 /\ new.halted = r.halted
  BY DEF PortStates
<1>5. QED
  BY <1>1, <1>2, <1>3, <1>4

\* The kernel's tables are typed.
LEMMA KernelTables ==
    ASSUME IInv
    PROVE  \A p \in Ports : hba[p].clb = "kernel" => hba[p].table \in [Slots -> TableEntries]
BY DEF IInv, PortOwned

\* Steps that leave the ports alone.
LEMMA AhciWaitKeeps ==
    ASSUME IInv, pc \in AhciPcs, pc' \in AhciPcs \union {"returned"},
           UNCHANGED <<machine, ata_vars, cmd, ports, nports, hba, slot>>,
           call' \in Requests, call'.unit = call.unit, call'.count = call.count,
           call'.taken = call.taken, spin' \in 0 .. SpinLimit,
           OnPort', EntryFilled', Moved', Results'
    PROVE  IInv'
<1>1. hba \in [Ports -> PortStates] /\ slot \in Slots
  BY InAhci
<1>2. \A p \in Ports : hba[p].clb = "kernel" => hba[p].table \in [Slots -> TableEntries]
  BY KernelTables
<1>3. QED
  BY <1>1, <1>2, AhciCallKeeps

\* The slot taken is free, and the port's error bit is cleared.
LEMMA FindSlotKeeps ==
    ASSUME IInv, find_cmdslot, UNCHANGED <<ata_vars, cmd>>
    PROVE  IInv'
<1> DEFINE u == call.unit
           new == [hba[u] EXCEPT !.tfes = FALSE]
<1>1. /\ pc = "send_command" /\ spin' = 0 /\ UNCHANGED <<machine, moved, ports, nports>>
      /\ hba' = [hba EXCEPT ![u].tfes = FALSE]
  BY DEF find_cmdslot, ClearInterrupts
<1>2. pc \in AhciPcs /\ pc \notin Polling
  BY <1>1 DEF AhciPcs, Polling
<1>3. /\ call \in Requests /\ u \in Ports /\ hba \in [Ports -> PortStates] /\ hba[u] \in PortStates
      /\ moved = <<>> /\ slot \in Slots /\ \A p \in Ports : Quiet(p)
  BY <1>2, InAhci
<1>4. /\ new \in PortStates /\ ~new.tfes /\ new.clb = hba[u].clb /\ new.st = hba[u].st
      /\ new.table = hba[u].table /\ new.ci = hba[u].ci /\ new.current = hba[u].current
      /\ new.halted = hba[u].halted
  BY <1>3, PortSet
<1>5. hba' = [hba EXCEPT ![u] = new]
  BY <1>1, <1>3
<1> HIDE DEF new
<1>6. hba' \in [Ports -> PortStates] /\ hba'[u] = new /\ \A p \in Ports : p # u => hba'[p] = hba[p]
  BY <1>3, <1>4, <1>5
<1>7. \A p \in Ports :
          /\ hba'[p].clb = hba[p].clb /\ hba'[p].st = hba[p].st
          /\ hba[p].clb = "kernel" => hba'[p].table \in [Slots -> TableEntries]
          /\ p # u => hba'[p] = hba[p]
  <2>1. \A p \in Ports :
            hba'[p].table = hba[p].table /\ hba'[p].clb = hba[p].clb /\ hba'[p].st = hba[p].st
    BY <1>4, <1>6
  <2>2. QED
    BY <1>6, <2>1, KernelTables
<1>8. \A p \in Ports : Quiet(p)'
  BY <1>3, <1>4, <1>6 DEF Quiet
<1>9. /\ call' \in Requests /\ call'.unit = u /\ call'.count = call.count /\ call'.taken = call.taken
      /\ slot' \in Slots
      /\ \/ pc' = "returned" /\ call'.result = "no slot"
         \/ pc' = "fill" /\ slot' \notin hba[u].ci
  <2>1. CASE FreeSlots = {}
    <3>1. Return("no slot") /\ slot' = slot
      BY <2>1 DEF find_cmdslot
    <3>2. QED
      BY <1>3, <3>1, Returning
  <2>2. CASE FreeSlots # {}
    <3>1. /\ slot' = CHOOSE s \in FreeSlots : \A t \in FreeSlots : s <= t
          /\ pc' = "fill" /\ call' = call
      BY <2>2 DEF find_cmdslot
    <3>2. machine \in Machines
      BY DEF IInv, CallTypes
    <3>3. slot' \in Slots /\ slot' \notin Port.ci
      BY <2>2, <3>1, <3>2, SlotTaken
    <3>4. QED
      BY <1>3, <3>1, <3>3 DEF Port
  <2>3. QED
    BY <2>1, <2>2
<1>10. pc' \in AhciPcs \union {"returned"} /\ pc' \notin Polling /\ pc' # "spin"
  BY <1>9 DEF AhciPcs, Polling
<1>11. OnPort'
  <2>1. Ports' = Ports
    BY <1>1 DEF Ports
  <2>2. pc' = "fill" => ~hba'[u].tfes /\ slot' \notin hba'[u].ci
    BY <1>4, <1>6, <1>9
  <2>3. QED
    BY <1>8, <1>9, <1>10, <2>1, <2>2 DEF OnPort
<1>12. EntryFilled'
  BY <1>9 DEF EntryFilled
<1>13. Moved'
  <2>1. <<>> \in Seq(Int) /\ Len(<<>>) <= 1
    OBVIOUS
  <2>2. QED
    BY <1>1, <1>3, <2>1 DEF Moved
<1>14. Results'
  BY <1>9 DEF Results, ErrorIsReal, SuccessIsReal
<1>15. spin' \in 0 .. SpinLimit
  BY <1>1, AhciAssumption
<1>16. UNCHANGED <<machine, ata_vars, cmd, ports, nports>>
  BY <1>1
<1>17. QED
  BY <1>2, <1>6, <1>7, <1>9, <1>10, <1>11, <1>12, <1>13, <1>14, <1>15, <1>16, AhciCallKeeps

\* The entry of the table is the call's.
LEMMA FillSlotKeeps ==
    ASSUME IInv, fill_slot, UNCHANGED <<ata_vars, cmd>>
    PROVE  IInv'
<1> DEFINE u == call.unit
           lba == [k \in 1 .. 4 |-> Digit(call.lba, k - 1)]
<1>1. pc = "fill" /\ pc' = "spin" /\ UNCHANGED <<machine, call, moved, ports, nports, spin, slot>>
  BY DEF fill_slot
<1>2. PICK pm \in PMPorts :
          hba' = [hba EXCEPT ![u].table[slot] =
                     [op |-> call.op, lba |-> lba, count |-> call.count,
                      room |-> Room(call.count), pmport |-> pm, w |-> FALSE]]
  BY DEF fill_slot
<1> DEFINE c == [op |-> call.op, lba |-> lba, count |-> call.count,
                 room |-> Room(call.count), pmport |-> pm, w |-> FALSE]
           t == [hba[u].table EXCEPT ![slot] = c]
           new == [hba[u] EXCEPT !.table = t]
<1>3. pc \in AhciPcs /\ pc \notin Polling /\ pc' \in AhciPcs
  BY <1>1 DEF AhciPcs, Polling
<1>4. /\ call \in Requests /\ u \in Ports /\ hba \in [Ports -> PortStates] /\ hba[u] \in PortStates
      /\ moved = <<>> /\ slot \in Slots /\ (\A p \in Ports : Quiet(p)) /\ call.count = 1
      /\ hba[u].table \in [Slots -> TableEntries] /\ call.lba \in 0 .. Word - 1
      /\ spin \in 0 .. SpinLimit
  BY <1>3, InAhci DEF Port
<1>5. Room(call.count) \in Nat /\ Room(call.count) >= 1
  BY <1>4, RoomIsEnough
<1>6. lba \in [1 .. 4 -> 0 .. Byte - 1]
  <2>1. \A k \in 1 .. 4 : k - 1 \in 0 .. 3
    OBVIOUS
  <2>2. call.lba \in Nat
    BY <1>4, GeometryTypes
  <2>3. QED
    BY <2>1, <2>2, DigitFits
<1>7. call.op \in Operations /\ call.count \in 0 .. 1
  BY <1>4 DEF Requests
<1> HIDE DEF lba
<1>8. c \in TableEntries
  BY <1>5, <1>6, <1>7 DEF TableEntries
<1>9. /\ c.op = call.op /\ c.count = call.count /\ c.room = Room(call.count)
      /\ c.lba = lba
  OBVIOUS
<1> HIDE DEF c
<1>10. t \in [Slots -> TableEntries] /\ t[slot] = c
  BY <1>4, <1>8
<1> HIDE DEF t
<1>11. /\ new \in PortStates /\ new.tfes = hba[u].tfes /\ new.clb = hba[u].clb /\ new.st = hba[u].st
       /\ new.table = t /\ new.ci = hba[u].ci /\ new.current = hba[u].current
       /\ new.halted = hba[u].halted
  BY <1>4, <1>10 DEF PortStates
<1>12. hba' = [hba EXCEPT ![u] = new]
  BY <1>2, <1>4 DEF c, t
<1> HIDE DEF new
<1>13. hba' \in [Ports -> PortStates] /\ hba'[u] = new /\ \A p \in Ports : p # u => hba'[p] = hba[p]
  BY <1>4, <1>11, <1>12
<1>14. \A p \in Ports :
          /\ hba'[p].clb = hba[p].clb /\ hba'[p].st = hba[p].st
          /\ hba[p].clb = "kernel" => hba'[p].table \in [Slots -> TableEntries]
          /\ p # u => hba'[p] = hba[p]
  <2>1. \A p \in Ports : hba[p].clb = "kernel" => hba[p].table \in [Slots -> TableEntries]
    BY KernelTables
  <2>2. QED
    BY <1>10, <1>11, <1>13, <2>1
<1>15. OnPort'
  <2>1. \A p \in Ports : Quiet(p)'
    BY <1>4, <1>11, <1>13 DEF Quiet
  <2>2. Ports' = Ports
    BY <1>1 DEF Ports
  <2>3. ~hba[u].tfes /\ slot \notin hba[u].ci
    BY <1>1 DEF IInv, OnPort
  <2>4. ~hba'[u].tfes /\ slot \notin hba'[u].ci
    BY <1>11, <1>13, <2>3
  <2>5. pc' \notin Polling
    BY <1>1 DEF Polling
  <2>6. QED
    BY <1>1, <2>1, <2>2, <2>4, <2>5 DEF OnPort
<1>16. EntryFilled'
  <2>1. hba'[u].table[slot] = c
    BY <1>10, <1>11, <1>13
  <2>2. QED
    BY <1>1, <1>4, <1>5, <1>9, <2>1 DEF EntryFilled, lba
<1>17. Moved'
  <2>1. <<>> \in Seq(Int) /\ Len(<<>>) <= 1
    OBVIOUS
  <2>2. QED
    BY <1>1, <1>4, <2>1 DEF Moved
<1>18. Results'
  BY <1>1 DEF Results, ErrorIsReal, SuccessIsReal
<1>19. QED
  BY <1>1, <1>3, <1>4, <1>13, <1>14, <1>15, <1>16, <1>17, <1>18, AhciCallKeeps

\* Another look at a busy port.
LEMMA SpinBusyKeeps ==
    ASSUME IInv, spin_busy, UNCHANGED <<ata_vars, cmd>>
    PROVE  IInv'
<1>1. /\ pc = "spin" /\ spin < SpinLimit /\ spin' = spin + 1
      /\ UNCHANGED <<machine, pc, call, moved, ports, nports, hba, slot>>
  BY DEF spin_busy
<1>2. pc \in AhciPcs
  BY <1>1 DEF AhciPcs
<1>3. call \in Requests /\ spin' \in 0 .. SpinLimit /\ Ports' = Ports
  BY <1>1, <1>2, InAhci, AhciAssumption DEF Ports
<1>4. OnPort'
  BY <1>1, <1>3 DEF IInv, OnPort, Quiet, Polling
<1>5. EntryFilled'
  BY <1>1 DEF IInv, EntryFilled
<1>6. Asked' = Asked /\ Addressable' = Addressable
  BY <1>1, SameAsked DEF ata_vars
<1>7. Moved' /\ Results'
  BY <1>1, <1>6 DEF IInv, Moved, Results, ErrorIsReal, SuccessIsReal
<1>8. QED
  BY <1>1, <1>2, <1>3, <1>4, <1>5, <1>7, AhciWaitKeeps

\* A port that stays busy is given up; nothing was moved.
LEMMA HungKeeps ==
    ASSUME IInv, hung, UNCHANGED <<ata_vars, cmd>>
    PROVE  IInv'
<1>1. /\ pc = "spin" /\ Return("hung")
      /\ UNCHANGED <<machine, moved, ports, nports, hba, spin, slot>>
  BY DEF hung, ahci_vars
<1>2. pc \in AhciPcs /\ pc \notin Polling
  BY <1>1 DEF AhciPcs, Polling
<1>3. /\ call \in Requests /\ spin' \in 0 .. SpinLimit /\ Ports' = Ports /\ moved = <<>>
      /\ \A p \in Ports : Quiet(p)
  BY <1>1, <1>2, InAhci DEF Ports
<1>4. /\ pc' = "returned" /\ call' \in Requests /\ call'.result = "hung"
      /\ call'.unit = call.unit /\ call'.count = call.count /\ call'.taken = call.taken
  BY <1>1, <1>3, Returning
<1>5. OnPort'
  BY <1>1, <1>3, <1>4 DEF OnPort, Quiet, Polling
<1>6. EntryFilled'
  BY <1>4 DEF EntryFilled
<1>7. Moved'
  <2>1. <<>> \in Seq(Int) /\ Len(<<>>) <= 1
    OBVIOUS
  <2>2. QED
    BY <1>1, <1>3, <2>1 DEF Moved
<1>8. Results'
  BY <1>4 DEF Results, ErrorIsReal, SuccessIsReal
<1>9. QED
  BY <1>1, <1>2, <1>3, <1>4, <1>5, <1>6, <1>7, <1>8, AhciWaitKeeps

\* A command issued is taken in the end, unless the port has halted.
LEMMA IssueKeeps ==
    ASSUME IInv, issue, UNCHANGED <<ata_vars, cmd>>
    PROVE  IInv'
<1> DEFINE u == call.unit
           new == [hba[u] EXCEPT !.ci = hba[u].ci \union {slot}]
<1>1. /\ pc = "spin" /\ pc' = "poll_ci"
      /\ hba' = [hba EXCEPT ![u].ci = @ \union {slot}]
      /\ UNCHANGED <<machine, call, moved, ports, nports, spin, slot>>
  BY DEF issue
<1>2. pc \in AhciPcs /\ pc \notin Polling /\ pc' \in AhciPcs
  BY <1>1 DEF AhciPcs, Polling
<1>3. /\ call \in Requests /\ u \in Ports /\ hba \in [Ports -> PortStates] /\ hba[u] \in PortStates
      /\ moved = <<>> /\ slot \in Slots /\ (\A p \in Ports : Quiet(p))
      /\ spin \in 0 .. SpinLimit
  BY <1>2, InAhci
<1>4. /\ new \in PortStates /\ new.tfes = hba[u].tfes /\ new.clb = hba[u].clb /\ new.st = hba[u].st
      /\ new.table = hba[u].table /\ new.ci = hba[u].ci \union {slot} /\ new.current = hba[u].current
      /\ new.halted = hba[u].halted
  BY <1>3 DEF PortStates
<1>5. hba' = [hba EXCEPT ![u] = new]
  BY <1>1, <1>3
<1> HIDE DEF new
<1>6. hba' \in [Ports -> PortStates] /\ hba'[u] = new /\ \A p \in Ports : p # u => hba'[p] = hba[p]
  BY <1>3, <1>4, <1>5
<1>7. \A p \in Ports :
          /\ hba'[p].clb = hba[p].clb /\ hba'[p].st = hba[p].st
          /\ hba[p].clb = "kernel" => hba'[p].table \in [Slots -> TableEntries]
          /\ p # u => hba'[p] = hba[p]
  <2>1. \A p \in Ports :
            hba'[p].table = hba[p].table /\ hba'[p].clb = hba[p].clb /\ hba'[p].st = hba[p].st
    BY <1>4, <1>6
  <2>2. QED
    BY <1>6, <2>1, KernelTables
<1>8. OnPort'
  <2>1. Ports' = Ports
    BY <1>1 DEF Ports
  <2>2. \A p \in Ports : p # u => Quiet(p)'
    BY <1>3, <1>6 DEF Quiet
  <2>3. ~hba[u].tfes /\ slot \notin hba[u].ci
    BY <1>1 DEF IInv, OnPort
  <2>4. hba[u].current = NULL /\ (hba[u].halted \/ hba[u].ci = {})
    BY <1>3 DEF Quiet
  <2>5. CASE hba[u].halted
    BY <1>1, <1>3, <1>4, <1>6, <2>1, <2>2, <2>3, <2>4, <2>5 DEF OnPort, Polling, Stuck, Quiet
  <2>6. CASE ~hba[u].halted
    BY <1>1, <1>3, <1>4, <1>6, <2>1, <2>2, <2>3, <2>4, <2>6 DEF OnPort, Polling, Pending
  <2>7. QED
    BY <2>5, <2>6
<1>9. EntryFilled'
  <2>1. hba'[u].table = hba[u].table
    BY <1>4, <1>6
  <2>2. QED
    BY <1>1, <2>1 DEF IInv, EntryFilled
<1>10. Moved'
  <2>1. <<>> \in Seq(Int) /\ Len(<<>>) <= 1
    OBVIOUS
  <2>2. QED
    BY <1>1, <1>3, <2>1 DEF Moved
<1>11. Results'
  BY <1>1 DEF Results, ErrorIsReal, SuccessIsReal
<1>12. QED
  BY <1>1, <1>2, <1>3, <1>6, <1>7, <1>8, <1>9, <1>10, <1>11, AhciCallKeeps

\* What is not outstanding was served or has failed.
LEMMA PollCiKeeps ==
    ASSUME IInv, poll_ci, UNCHANGED <<ata_vars, cmd>>
    PROVE  IInv'
<1>1. /\ pc = "poll_ci" /\ pc' \in {"poll_is", "check"}
      /\ pc' = "check" <=> slot \notin Port.ci
      /\ UNCHANGED <<machine, call, moved, ports, nports, hba, spin, slot>>
  BY DEF poll_ci, ahci_vars
<1>2. pc \in AhciPcs /\ pc' \in AhciPcs
  BY <1>1 DEF AhciPcs
<1>3. call \in Requests /\ spin \in 0 .. SpinLimit /\ Ports' = Ports
  BY <1>1, <1>2, InAhci DEF Ports
<1>4. Asked' = Asked /\ Addressable' = Addressable
  BY <1>1, SameAsked DEF ata_vars
<1>5. OnPort'
  <2>1. \A p : Quiet(p)' = Quiet(p)
    BY <1>1 DEF Quiet
  <2>2. \/ Pending(call.unit) \/ Served_(call.unit) \/ Failed(call.unit) \/ Stuck(call.unit)
    BY <1>1 DEF IInv, OnPort, Polling
  <2>3. \/ Pending(call.unit)' \/ Served_(call.unit)' \/ Failed(call.unit)' \/ Stuck(call.unit)'
    BY <1>1, <1>4, <2>1, <2>2 DEF Pending, Served_, Failed, Stuck, Port, Reaches, Misdirected
  <2>4. \A p \in Ports : p = call.unit \/ Quiet(p)
    BY DEF IInv, OnPort
  <2>5. pc' \in Polling /\ pc' \notin {"fill", "spin"}
    BY <1>1 DEF Polling
  <2>6. QED
    BY <1>1, <1>3, <2>1, <2>3, <2>4, <2>5 DEF OnPort
<1>6. EntryFilled'
  BY <1>1 DEF IInv, EntryFilled
<1>7. Moved' /\ Results'
  BY <1>1, <1>4 DEF IInv, Moved, Polling, Results, ErrorIsReal, SuccessIsReal
<1>8. QED
  BY <1>1, <1>2, <1>3, <1>5, <1>6, <1>7, AhciWaitKeeps

\* A call that returns after it polled: its port is quiet.
LEMMA PolledReturns ==
    ASSUME IInv, pc \in Polling, NEW result \in {"ok", "error"}, Return(result),
           UNCHANGED <<machine, moved, ahci_vars, ata_vars, cmd>>,
           \/ result = "error" /\ Failed(call.unit)
           \/ result = "ok" /\ Served_(call.unit)
    PROVE  IInv'
<1>1. UNCHANGED <<machine, moved, ports, nports, hba, spin, slot, ide_devices>>
  BY DEF ahci_vars, ata_vars
<1>2. pc \in AhciPcs
  BY DEF AhciPcs, Polling
<1>3. /\ call \in Requests /\ spin \in 0 .. SpinLimit /\ Ports' = Ports /\ nports > 0
      /\ \A p \in Ports : p # call.unit => Quiet(p)
  BY <1>1, <1>2, InAhci DEF Ports
<1>4. /\ pc' = "returned" /\ call' \in Requests /\ call'.result = result
      /\ call'.unit = call.unit /\ call'.op = call.op /\ call'.lba = call.lba
      /\ call'.count = call.count /\ call'.failed = call.failed /\ call'.taken = call.taken
  BY <1>3, Returning
<1>5. Asked' = Asked /\ Addressable' = Addressable
  BY <1>1, <1>4, SameAsked
<1>6. OnPort'
  <2>1. \A p \in Ports : Quiet(p)
    BY <1>3 DEF Failed, Served_
  <2>2. QED
    BY <1>1, <1>3, <1>4, <2>1 DEF OnPort, Quiet, Polling
<1>7. EntryFilled'
  BY <1>4 DEF EntryFilled
<1>8. Moved'
  BY <1>1, <1>4, <1>5 DEF IInv, Moved
<1>9. Results'
  BY <1>1, <1>3, <1>4, <1>5 DEF Results, ErrorIsReal, SuccessIsReal, OnIde, Failed, Served_, Port, Reaches,
                                Misdirected
<1>10. QED
  BY <1>1, <1>2, <1>3, <1>4, <1>6, <1>7, <1>8, <1>9, AhciWaitKeeps

\* A wait that an error ends: the error is this command's.
LEMMA PollIsKeeps ==
    ASSUME IInv, poll_is, UNCHANGED <<ata_vars, cmd>>
    PROVE  IInv'
<1>1. pc = "poll_is" /\ UNCHANGED <<machine, moved, ports, nports, hba, spin, slot>>
      /\ UNCHANGED ahci_vars
  BY DEF poll_is, ahci_vars
<1>2. pc \in AhciPcs /\ pc \in Polling
  BY <1>1 DEF AhciPcs, Polling
<1>3. \/ Pending(call.unit) \/ Served_(call.unit) \/ Failed(call.unit) \/ Stuck(call.unit)
  BY <1>2 DEF IInv, OnPort
<1>4. CASE Port.tfes
  <2>1. Return("error")
    BY <1>4 DEF poll_is
  <2>2. Failed(call.unit)
    BY <1>3, <1>4 DEF Pending, Served_, Stuck, Port
  <2>3. QED
    BY <1>1, <1>2, <2>1, <2>2, PolledReturns
<1>5. CASE ~Port.tfes
  <2>1. pc' = "poll_ci" /\ call' = call
    BY <1>5 DEF poll_is
  <2>2. call \in Requests /\ spin \in 0 .. SpinLimit /\ Ports' = Ports /\ pc' \in AhciPcs
    BY <1>1, <1>2, <2>1, InAhci DEF Ports, AhciPcs
  <2>3. Asked' = Asked /\ Addressable' = Addressable
    BY <1>1, <2>1, SameAsked DEF ata_vars
  <2>4. OnPort'
    <3>1. \A p : Quiet(p)' = Quiet(p)
      BY <1>1 DEF Quiet
    <3>2. \/ Pending(call.unit)' \/ Served_(call.unit)' \/ Failed(call.unit)' \/ Stuck(call.unit)'
      BY <1>1, <1>3, <2>1, <2>3, <3>1 DEF Pending, Served_, Failed, Stuck, Reaches,
                                          Misdirected
    <3>3. \A p \in Ports : p = call.unit \/ Quiet(p)
      BY DEF IInv, OnPort
    <3>4. pc' \in Polling /\ pc' \notin {"fill", "spin"}
      BY <2>1 DEF Polling
    <3>5. QED
      BY <1>1, <2>1, <2>2, <3>1, <3>2, <3>3, <3>4 DEF OnPort
  <2>5. EntryFilled'
    BY <1>1, <2>1 DEF IInv, EntryFilled
  <2>6. Moved' /\ Results'
    BY <1>1, <2>1, <2>3 DEF IInv, Moved, Polling, Results, ErrorIsReal, SuccessIsReal
  <2>7. QED
    BY <1>1, <1>2, <2>1, <2>2, <2>4, <2>5, <2>6, AhciWaitKeeps
<1>6. QED
  BY <1>4, <1>5

\* The error is looked at again: what is not one is a success.
LEMMA CheckAgainKeeps ==
    ASSUME IInv, check_again, UNCHANGED <<ata_vars, cmd>>
    PROVE  IInv'
<1>1. pc = "check" /\ UNCHANGED <<machine, moved>> /\ UNCHANGED ahci_vars
  BY DEF check_again
<1>2. pc \in Polling
  BY <1>1 DEF Polling
<1>3. Served_(call.unit) \/ Failed(call.unit)
  BY <1>1, <1>2 DEF IInv, OnPort, Pending, Stuck
<1>4. CASE Port.tfes
  <2>1. Return("error") /\ Failed(call.unit)
    BY <1>3, <1>4 DEF check_again, Served_, Port
  <2>2. QED
    BY <1>1, <1>2, <2>1, PolledReturns
<1>5. CASE ~Port.tfes
  <2>1. Return("ok") /\ Served_(call.unit)
    BY <1>3, <1>5 DEF check_again, Failed, Port
  <2>2. QED
    BY <1>1, <1>2, <2>1, PolledReturns
<1>6. QED
  BY <1>4, <1>5

\* What is known before and while the port is set up.
LEMMA InInit ==
    ASSUME IInv, pc \in InitPcs
    PROVE  /\ call \in Requests /\ moved = <<>> /\ hba \in [Ports -> PortStates]
           /\ \A p \in Ports : Quiet(p) /\ hba[p] \in PortStates
           /\ ports \in [Ports -> Ports \union {NULL}] /\ nports \in 0 .. Cardinality(Ports)
           /\ \A i \in Ports : ports[i] \in {i, NULL}
           /\ spin \in 0 .. SpinLimit /\ slot \in Slots
           /\ Ports \subseteq Nat /\ IsFiniteSet(Ports)
<1>1. Ports \subseteq Nat /\ IsFiniteSet(Ports)
  BY MachineShape DEF IInv, CallTypes
<1>2. moved = <<>>
  BY DEF IInv, Moved, InitPcs, Polling
<1>3. \A p \in Ports : Quiet(p)
  BY DEF IInv, OnPort, InitPcs, Polling
<1>4. QED
  BY <1>1, <1>2, <1>3 DEF IInv, CallTypes, AhciTypes

\* What the driver knows of a call and of the ports holds by itself while no
\* command is under way.
LEMMA NothingUnderWay ==
    ASSUME pc' \notin {"fill", "spin", "poll_ci", "poll_is", "check", "returned"},
           moved' = <<>>, \A p \in Ports' : Quiet(p)'
    PROVE  OnPort' /\ EntryFilled' /\ Moved' /\ Results'
<1>1. <<>> \in Seq(Int) /\ Len(<<>>) <= 1
  OBVIOUS
<1>2. Moved'
  BY <1>1 DEF Moved
<1>3. QED
  BY <1>2 DEF OnPort, EntryFilled, Results, ErrorIsReal, SuccessIsReal, Polling

\* The entries in use are ports that are there.
LEMMA ProbePortsKeeps ==
    ASSUME IInv, probe_ports, UNCHANGED <<ata_vars, cmd>>
    PROVE  IInv'
<1> DEFINE awake == {i \in Ports : check_type(i)}
<1>1. /\ pc = "init_ahci" /\ pc' = "init_loop"
      /\ ports' = [i \in Ports |-> IF check_type(i) THEN i ELSE NULL]
      /\ nports' = Cardinality(awake)
      /\ UNCHANGED <<machine, call, moved, hba, spin, slot>>
  BY DEF probe_ports
<1>2. pc \in InitPcs /\ pc' \in InitPcs
  BY <1>1 DEF InitPcs
<1>3. /\ call \in Requests /\ moved = <<>> /\ hba \in [Ports -> PortStates]
      /\ \A p \in Ports : Quiet(p)
      /\ spin \in 0 .. SpinLimit /\ slot \in Slots /\ IsFiniteSet(Ports)
  BY <1>2, InInit
<1>4. Ports' = Ports /\ Slots' = Slots
  BY <1>1 DEF Ports, Slots
<1>5. Cardinality(awake) \in 0 .. Cardinality(Ports)
  <2>1. awake \subseteq Ports
    OBVIOUS
  <2>2. IsFiniteSet(awake) /\ Cardinality(awake) <= Cardinality(Ports)
    BY <1>3, <2>1, FS_Subset
  <2>3. Cardinality(awake) \in Nat /\ Cardinality(Ports) \in Nat
    BY <1>3, <2>2, FS_CardinalityType
  <2> HIDE DEF awake
  <2>4. QED
    BY <2>2, <2>3
<1> HIDE DEF awake
<1>6. nports' > 0 => 0 \in Ports
  <2>1. PICK n \in Nat : Ports = 0 .. n - 1
    BY MachineShape DEF IInv, CallTypes
  <2>2. n = 0 => Ports = {}
    BY <2>1
  <2>3. n = 0 => Cardinality(Ports) = 0
    BY <2>2, FS_EmptySet
  <2>4. nports' > 0 => n # 0
    BY <1>1, <1>5, <2>3
  <2>5. QED
    BY <2>1, <2>4
<1>7. AhciTypes'
  <2>1. \A i \in Ports : ports'[i] \in {i, NULL}
    BY <1>1
  <2>2. ports' \in [Ports -> Ports \union {NULL}]
    BY <1>1
  <2>3. PortStates' = PortStates
    BY <1>4 DEF PortStates
  <2>4. QED
    BY <1>1, <1>3, <1>4, <1>5, <2>1, <2>2, <2>3 DEF AhciTypes
<1>8. InDriver'
  BY <1>1, <1>4, <1>6 DEF InDriver, AhciPcs, IdePcs
<1>9. PortOwned'
  BY <1>1, <1>4 DEF IInv, PortOwned, AhciPcs
<1>10. OnPort' /\ EntryFilled' /\ Moved' /\ Results'
  <2>1. \A p \in Ports' : Quiet(p)'
    BY <1>1, <1>3, <1>4 DEF Quiet
  <2>2. QED
    BY <1>1, <1>3, <2>1, NothingUnderWay
<1>11. QED
  BY <1>1, <1>2, <1>3, <1>7, <1>8, <1>9, <1>10, AhciKeepsRest

\* Without a usable port, port 0 is not one.
LEMMA InitNothingKeeps ==
    ASSUME IInv, init_nothing, UNCHANGED <<ata_vars, cmd>>
    PROVE  IInv'
<1>1. /\ pc = "init_loop" /\ Usable = {} /\ pc' = "ata_select"
      /\ UNCHANGED <<machine, call, moved, ports, nports, hba, spin, slot>>
  BY DEF init_nothing, ahci_vars
<1>2. pc \in InitPcs
  BY <1>1 DEF InitPcs
<1>3. /\ call \in Requests /\ moved = <<>> /\ (\A p \in Ports : Quiet(p))
      /\ Ports' = Ports /\ Slots' = Slots
  BY <1>1, <1>2, InInit DEF Ports, Slots
<1>4. AhciTypes'
  <2>1. PortStates' = PortStates
    BY <1>3 DEF PortStates
  <2>2. QED
    BY <1>1, <1>3, <2>1 DEF IInv, AhciTypes
<1>5. InDriver'
  BY <1>1, <1>3 DEF IInv, InDriver, AhciPcs, IdePcs
<1>6. nports > 0 => ports[0] = NULL
  BY <1>1 DEF IInv, InDriver, Usable
<1>7. PortOwned'
  BY <1>1, <1>3, <1>6 DEF IInv, PortOwned, AhciPcs
<1>8. OnPort' /\ EntryFilled' /\ Moved' /\ Results'
  <2>1. \A p \in Ports' : Quiet(p)'
    BY <1>1, <1>3 DEF Quiet
  <2>2. QED
    BY <1>1, <1>3, <2>1, NothingUnderWay
<1>9. QED
  BY <1>1, <1>2, <1>3, <1>4, <1>5, <1>7, <1>8, AhciKeepsRest

\* The port that is set up is the first usable one: port 0, if it is usable.
LEMMA StopKeeps ==
    ASSUME IInv, stop_cmd, UNCHANGED <<ata_vars, cmd>>
    PROVE  IInv'
<1> DEFINE u == CHOOSE i \in Usable : \A k \in Usable : i <= k
           new == [hba[u] EXCEPT !.fre = FALSE, !.st = FALSE]
<1>1. /\ pc = "init_loop" /\ Usable # {} /\ pc' = "stop_wait"
      /\ call' = Request("identify", ports[u], 0, 1) /\ moved' = <<>>
      /\ hba' = [hba EXCEPT ![ports[u]].st = FALSE, ![ports[u]].fre = FALSE]
      /\ UNCHANGED <<machine, ports, nports, spin, slot>>
  BY DEF stop_cmd, Begin
<1>2. pc \in InitPcs /\ pc' \in InitPcs
  BY <1>1 DEF InitPcs
<1>3. /\ hba \in [Ports -> PortStates] /\ (\A p \in Ports : Quiet(p))
      /\ ports \in [Ports -> Ports \union {NULL}] /\ nports \in 0 .. Cardinality(Ports)
      /\ \A i \in Ports : ports[i] \in {i, NULL}
      /\ spin \in 0 .. SpinLimit /\ slot \in Slots
      /\ Ports \subseteq Nat /\ IsFiniteSet(Ports)
  BY <1>2, InInit
<1>4. Ports' = Ports /\ Slots' = Slots
  BY <1>1 DEF Ports, Slots
<1>5. Usable \subseteq Nat
  BY <1>3 DEF Usable
<1>6. u \in Usable /\ \A k \in Usable : u <= k
  <2>1. \E i \in Usable : \A k \in Usable : i <= k
    BY <1>1, <1>5, SmallestExists
  <2>2. QED
    BY <2>1
<1> HIDE DEF u
<1>7. u \in Ports /\ u \in Nat /\ u < nports /\ ports[u] = u
  BY <1>3, <1>6 DEF Usable
<1>8. nports > 0 /\ nports \in Nat
  <2>1. Cardinality(Ports) \in Nat
    BY <1>3, FS_CardinalityType
  <2>2. QED
    BY <1>3, <1>7, <2>1
<1>9. /\ call' \in Requests /\ call'.unit = u /\ call'.count = 1 /\ call'.taken
  <2>1. "identify" \in Operations /\ 0 \in 0 .. Word - 1 /\ 1 \in 0 .. 1
    BY GeometryTypes DEF Operations
  <2>2. Request("identify", u, 0, 1) \in Requests
    BY <1>7, <2>1, RequestTypes
  <2>3. QED
    BY <1>1, <1>7, <2>2 DEF Request
<1>10. ports[0] # NULL => u = 0
  <2>1. 0 \in Ports
    BY <1>8 DEF IInv, InDriver
  <2>2. ports[0] # NULL => 0 \in Usable
    BY <1>8, <2>1 DEF Usable
  <2>3. QED
    BY <1>6, <1>7, <2>2
<1>11. /\ new \in PortStates /\ new.clb = hba[u].clb
       /\ new.table = hba[u].table /\ new.ci = hba[u].ci /\ new.current = hba[u].current
       /\ new.halted = hba[u].halted
  BY <1>3, <1>7 DEF PortStates
<1>12. hba' = [hba EXCEPT ![u] = new]
  BY <1>1, <1>3, <1>7
<1> HIDE DEF new
<1>13. hba' \in [Ports -> PortStates] /\ hba'[u] = new /\ \A p \in Ports : p # u => hba'[p] = hba[p]
  BY <1>3, <1>7, <1>11, <1>12
<1>14. AhciTypes'
  <2>1. PortStates' = PortStates
    BY <1>4 DEF PortStates
  <2>2. QED
    BY <1>1, <1>3, <1>4, <1>13, <2>1 DEF AhciTypes
<1>15. InDriver'
  BY <1>1, <1>4, <1>7, <1>8, <1>9 DEF IInv, InDriver, AhciPcs, IdePcs
<1>16. PortOwned'
  <2>1. \A p \in Ports : hba[p].clb = "firmware" /\ hba[p].ci = {} /\ hba[p].current = NULL
    BY <1>1 DEF IInv, PortOwned
  <2>2. \A p \in Ports : hba'[p].clb = "firmware" /\ hba'[p].ci = {} /\ hba'[p].current = NULL
    BY <1>11, <1>13, <2>1
  <2>3. QED
    BY <1>1, <1>4, <1>9, <1>10, <2>2 DEF PortOwned, AhciPcs
<1>17. OnPort' /\ EntryFilled' /\ Moved' /\ Results'
  <2>1. \A p \in Ports' : Quiet(p)'
    BY <1>3, <1>4, <1>11, <1>13 DEF Quiet
  <2>2. QED
    BY <1>1, <2>1, NothingUnderWay
<1>18. QED
  BY <1>1, <1>2, <1>9, <1>14, <1>15, <1>16, <1>17, AhciKeepsRest

\* The port gets the kernel's table, with nothing outstanding.
LEMMA PortRebaseKeeps ==
    ASSUME IInv, port_rebase, UNCHANGED <<ata_vars, cmd>>
    PROVE  IInv'
<1> DEFINE u == call.unit
           t == [s \in Slots |-> NoCommand]
           new == [hba[u] EXCEPT !.clb = "kernel", !.table = t]
<1>1. /\ pc = "stop_wait" /\ pc' = "start_wait"
      /\ hba' = [hba EXCEPT ![u].clb = "kernel", ![u].table = t]
      /\ UNCHANGED <<machine, call, moved, ports, nports, spin, slot>>
  BY DEF port_rebase
<1>2. pc \in InitPcs /\ pc' \in InitPcs
  BY <1>1 DEF InitPcs
<1>3. /\ hba \in [Ports -> PortStates] /\ (\A p \in Ports : Quiet(p)) /\ moved = <<>>
      /\ call \in Requests /\ \A p \in Ports : hba[p] \in PortStates
  BY <1>2, InInit
<1>4. Ports' = Ports /\ Slots' = Slots /\ PortStates' = PortStates
  BY <1>1 DEF Ports, Slots, PortStates
<1>5. nports > 0 /\ u \in Ports /\ 0 \in Ports
  BY <1>1 DEF IInv, InDriver
<1>6. t \in [Slots -> TableEntries]
  <2>1. NoCommand \in TableEntries
    BY DEF NoCommand, TableEntries
  <2>2. QED
    BY <2>1
<1> HIDE DEF t
<1>7. /\ new \in PortStates /\ new.clb = "kernel" /\ new.table = t
      /\ new.ci = hba[u].ci /\ new.current = hba[u].current /\ new.halted = hba[u].halted
  <2>1. hba[u] \in PortStates
    BY <1>3, <1>5
  <2>2. QED
    BY <1>6, <2>1 DEF PortStates
<1>8. hba' = [hba EXCEPT ![u] = new]
  BY <1>1, <1>3, <1>5
<1> HIDE DEF new
<1>9. hba' \in [Ports -> PortStates] /\ hba'[u] = new /\ \A p \in Ports : p # u => hba'[p] = hba[p]
  BY <1>3, <1>5, <1>7, <1>8
<1>10. AhciTypes'
  BY <1>1, <1>4, <1>9 DEF IInv, AhciTypes
<1>11. InDriver'
  BY <1>1, <1>4 DEF IInv, InDriver, AhciPcs, IdePcs
<1>12. PortOwned'
  <2>1. \A p \in Ports : hba[p].clb = "firmware" /\ hba[p].ci = {} /\ hba[p].current = NULL
    BY <1>1 DEF IInv, PortOwned
  <2>2. \A p \in Ports :
            /\ hba'[p].ci = {} /\ hba'[p].current = NULL
            /\ p # u => hba'[p].clb = "firmware"
    BY <1>7, <1>9, <2>1
  <2>5. hba'[u].clb = "kernel" /\ hba'[u].table \in [Slots -> TableEntries]
    BY <1>6, <1>7, <1>9
  <2>3. ports[0] # NULL => u = 0
    BY <1>1 DEF IInv, PortOwned
  <2>6. call'.unit = u /\ ports' = ports /\ nports' > 0 /\ nports' # 0
    BY <1>1, <1>5
  <2>7. \A p \in Ports :
            /\ hba'[p].clb = "kernel" => p = u /\ hba'[p].table \in [Slots -> TableEntries]
    BY <2>2, <2>5
  <2> HIDE DEF u
  <2>8. QED
    BY <1>1, <1>4, <2>2, <2>3, <2>5, <2>6, <2>7 DEF PortOwned, AhciPcs
<1>13. OnPort' /\ EntryFilled' /\ Moved' /\ Results'
  <2>1. \A p \in Ports' : Quiet(p)'
    BY <1>3, <1>4, <1>7, <1>9 DEF Quiet
  <2>2. QED
    BY <1>1, <1>3, <2>1, NothingUnderWay
<1>14. QED
  BY <1>1, <1>2, <1>3, <1>10, <1>11, <1>12, <1>13, AhciKeepsRest

\* The port runs from here on.
LEMMA StartKeeps ==
    ASSUME IInv, start_cmd, UNCHANGED <<ata_vars, cmd>>
    PROVE  IInv'
<1> DEFINE u == call.unit
           new == [hba[u] EXCEPT !.fre = TRUE, !.st = TRUE]
<1>1. /\ pc = "start_wait" /\ pc' = "send_command"
      /\ hba' = [hba EXCEPT ![u].fre = TRUE, ![u].st = TRUE]
      /\ UNCHANGED <<machine, call, moved, ports, nports, spin, slot>>
  BY DEF start_cmd
<1>2. pc \in InitPcs /\ pc' \in AhciPcs /\ pc' \notin InitPcs \union {"ata_select"}
  BY <1>1 DEF InitPcs, AhciPcs
<1>3. /\ hba \in [Ports -> PortStates] /\ (\A p \in Ports : Quiet(p)) /\ moved = <<>>
      /\ call \in Requests /\ \A p \in Ports : hba[p] \in PortStates
  BY <1>2, InInit
<1>4. Ports' = Ports /\ Slots' = Slots /\ PortStates' = PortStates
  BY <1>1 DEF Ports, Slots, PortStates
<1>5. nports > 0 /\ u \in Ports /\ 0 \in Ports
  BY <1>1 DEF IInv, InDriver
<1>6. /\ new \in PortStates /\ new.clb = hba[u].clb /\ new.table = hba[u].table /\ new.st
      /\ new.ci = hba[u].ci /\ new.current = hba[u].current /\ new.halted = hba[u].halted
  <2>1. hba[u] \in PortStates
    BY <1>3, <1>5
  <2>2. QED
    BY <2>1 DEF PortStates
<1>7. hba' = [hba EXCEPT ![u] = new]
  BY <1>1, <1>3, <1>5
<1> HIDE DEF new
<1>8. hba' \in [Ports -> PortStates] /\ hba'[u] = new /\ \A p \in Ports : p # u => hba'[p] = hba[p]
  BY <1>3, <1>5, <1>6, <1>7
<1>9. AhciTypes'
  BY <1>1, <1>4, <1>8 DEF IInv, AhciTypes
<1>10. InDriver'
  BY <1>1, <1>4 DEF IInv, InDriver, AhciPcs, IdePcs
<1>11. PortOwned'
  <2>1. \A p \in Ports : hba[p].ci = {} /\ hba[p].current = NULL
    BY <1>1 DEF IInv, PortOwned
  <2>2. \A p \in Ports :
            /\ hba'[p].ci = {} /\ hba'[p].current = NULL
            /\ hba'[p].clb = hba[p].clb /\ hba'[p].table = hba[p].table
            /\ hba[p].clb = "kernel" => hba'[p].st
    <3>1. \A p \in Ports : hba[p].clb = "kernel" /\ ~hba[p].st => p = u
      BY DEF IInv, PortOwned
    <3>2. QED
      BY <1>6, <1>8, <2>1, <3>1
  <2>3. \A p \in Ports : hba[p].clb = "kernel" => hba[p].table \in [Slots -> TableEntries]
    BY KernelTables
  <2>4. hba[u].clb = "kernel" /\ (ports[0] # NULL => hba[0].clb = "kernel")
    BY <1>1, <1>5 DEF IInv, PortOwned
  <2>5. call'.unit = u /\ ports' = ports /\ nports' # 0
    BY <1>1, <1>5
  <2>6. hba'[u].clb = "kernel" /\ (ports[0] # NULL => hba'[0].clb = "kernel")
    BY <1>5, <2>2, <2>4
  <2>7. \A p \in Ports :
            hba'[p].clb = "kernel" => hba'[p].st /\ hba'[p].table \in [Slots -> TableEntries]
    BY <2>2, <2>3
  <2> HIDE DEF u
  <2>8. QED
    BY <1>1, <1>4, <2>2, <2>5, <2>6, <2>7 DEF PortOwned, AhciPcs
<1>12. OnPort' /\ EntryFilled' /\ Moved' /\ Results'
  <2>1. \A p \in Ports' : Quiet(p)'
    BY <1>3, <1>4, <1>6, <1>8 DEF Quiet
  <2>2. QED
    BY <1>1, <1>3, <2>1, NothingUnderWay
<1>13. QED
  BY <1>1, <1>2, <1>3, <1>9, <1>10, <1>11, <1>12, AhciKeepsRest

\* A step of the AHCI driver keeps the invariant.
LEMMA AhciKeeps ==
    ASSUME IInv, AhciStep, UNCHANGED <<ata_vars, cmd>>
    PROVE  IInv'
BY ProbePortsKeeps, InitNothingKeeps, StopKeeps, PortRebaseKeeps, StartKeeps, FindSlotKeeps,
   FillSlotKeeps, SpinBusyKeeps, HungKeeps, IssueKeeps, PollCiKeeps, PollIsKeeps,
   CheckAgainKeeps DEF AhciStep

\* What does not change the state keeps the invariant.
LEMMA StutterKeeps ==
    ASSUME IInv, UNCHANGED vars
    PROVE  IInv'
<1>1. UNCHANGED <<machine, pc, call, moved, regs, drv, ide_devices, j,
                  ports, nports, hba, spin, slot, cmd>>
  BY DEF vars, ata_vars, ahci_vars
<1>2. SameCall
  BY UnchangedIsSame DEF IInv, CallTypes, vars
<1>3. AhciTypes' /\ PortOwned' /\ OnPort' /\ EntryFilled'
  <2>1. UNCHANGED <<machine, pc, ahci_vars>> /\ moved' = moved
    BY DEF vars
  <2>2. QED
    BY <1>2, <2>1, PortsUntouched DEF IInv
<1>4. Asked' = Asked /\ Addressable' = Addressable
  BY <1>1, SameAsked
<1>5. CallTypes' /\ IdeTypes'
  BY <1>1, <1>2 DEF IInv, CallTypes, IdeTypes, SameCall, Requests, Ports
<1>6. Booted' /\ InDriver'
  BY <1>1 DEF IInv, Booted, InDriver, Ports
<1>7. OnlySelected'
  BY <1>1 DEF IInv, OnlySelected
<1>8. OnDrive'
  <2>1. Transfer(drv[regs.sel])' = Transfer(drv[regs.sel])
    BY <1>1, <1>4 DEF Transfer, JobIsCall
  <2>2. Storing(drv[regs.sel])' = Storing(drv[regs.sel])
    BY <1>1, <1>4 DEF Storing, JobIsCall
  <2>3. QED
    BY <1>1, <2>1, <2>2 DEF IInv, OnDrive
<1>9. Moved'
  BY <1>1, <1>4 DEF IInv, Moved
<1>10. Results'
  BY <1>1, <1>4 DEF IInv, Results, ErrorIsReal, SuccessIsReal, OnIde, Port, Reaches,
                    Misdirected
<1>11. QED
  BY <1>3, <1>5, <1>6, <1>7, <1>8, <1>9, <1>10 DEF IInv

------------------------------------------------------------------------------
(* The invariant, and what follows from it.                                *)

\* The invariant holds at power-on.
LEMMA InitHolds == Init => IInv
<1> SUFFICES ASSUME Init PROVE IInv
  OBVIOUS
<1>1. /\ machine \in Machines /\ pc = "init_ahci" /\ call = NoRequest /\ moved = <<>>
      /\ AtaInit /\ AhciInit /\ cmd = [NoCmd EXCEPT !.name = "init_ahci"]
  BY DEF Init
<1>2. /\ 0 \in 0 .. Byte - 1 /\ 0 \in 0 .. Nibble - 1 /\ 0 \in 0 .. Word - 1
      /\ 0 \in 0 .. Quads /\ 0 \in Drives /\ 0 \in 0 .. SpinLimit
  BY GeometryTypes, QuadsNat, AhciAssumption DEF Drives
<1>3. CallTypes
  <2>1. cmd \in CommandTypes
    BY <1>1, <1>2 DEF NoCmd, CommandTypes, CmdNames
  <2>2. QED
    BY <1>1, <2>1, RequestTypes DEF CallTypes, InitPcs
<1>4. IdeTypes
  <2>1. <<0, 0, 0, 0>> \in Registers
    BY <1>2 DEF Registers
  <2>2. regs \in [sel : Drives, flat : BOOLEAN, head : 0 .. Nibble - 1,
                  cur : Registers, prev : Registers]
    BY <1>1, <1>2, <2>1 DEF AtaInit
  <2>3. [busy |-> FALSE, left |-> 0, err |-> FALSE, job |-> NoJob] \in DriveStates
    BY <1>2, JobTypes DEF DriveStates
  <2>4. drv \in [Drives -> DriveStates]
    BY <1>1, <2>3 DEF AtaInit
  <2>5. <<>> \in Seq(Entries)
    OBVIOUS
  <2>6. QED
    BY <1>1, <1>2, <2>2, <2>4, <2>5 DEF AtaInit, IdeTypes
<1>5. /\ \A i \in Ports : ports[i] \in {i, NULL}
      /\ ports \in [Ports -> Ports \union {NULL}] /\ nports = 0
      /\ spin = 0 /\ slot = 0 /\ 0 \in Slots
  BY <1>1, MachineShape DEF AhciInit
<1>6. PICK running, busy \in BOOLEAN :
          hba = [p \in Ports |->
                    [st |-> running, fre |-> running, cr |-> running, fr |-> running,
                     busy |-> busy, tfes |-> FALSE, halted |-> FALSE, ci |-> {}, current |-> NULL,
                     clb |-> "firmware", table |-> <<>>]]
  BY <1>1 DEF AhciInit
<1> DEFINE new == [st |-> running, fre |-> running, cr |-> running, fr |-> running,
                   busy |-> busy, tfes |-> FALSE, halted |-> FALSE, ci |-> {}, current |-> NULL,
                   clb |-> "firmware", table |-> <<>>]
<1>7. new \in PortStates /\ new.ci = {} /\ new.current = NULL /\ new.clb = "firmware"
  BY DEF PortStates
<1> HIDE DEF new
<1>8. hba \in [Ports -> PortStates] /\ \A p \in Ports : hba[p] = new
  BY <1>6, <1>7 DEF new
<1>9. AhciTypes
  <2>1. Cardinality(Ports) \in Nat
    BY <1>1, MachineShape
  <2>2. 0 \in 0 .. Cardinality(Ports)
    BY <2>1
  <2>3. QED
    BY <1>2, <1>5, <1>8, <2>2 DEF AhciTypes
<1>10. Booted
  <2>1. Len(<<>>) = 0
    OBVIOUS
  <2>2. QED
    BY <1>1, <2>1 DEF Booted, AhciPcs, AtaInit
<1>11. InDriver
  BY <1>1, <1>5 DEF InDriver, IdePcs, AhciPcs
<1>12. PortOwned
  BY <1>1, <1>5, <1>7, <1>8 DEF PortOwned, AhciPcs
<1>13. OnPort
  BY <1>1, <1>7, <1>8 DEF OnPort, Quiet, Polling
<1>14. EntryFilled
  BY <1>1 DEF EntryFilled
<1>15. OnlySelected
  BY <1>1 DEF OnlySelected, AtaInit, NoJob, Job
<1>16. OnDrive
  BY <1>1 DEF OnDrive
<1>17. Moved
  <2>1. <<>> \in Seq(Int) /\ Len(<<>>) <= 1
    OBVIOUS
  <2>2. QED
    BY <1>1, <2>1 DEF Moved
<1>18. Results
  BY <1>1 DEF Results, ErrorIsReal, SuccessIsReal
<1>19. QED
  BY <1>3, <1>4, <1>9, <1>10, <1>11, <1>12, <1>13, <1>14, <1>15, <1>16, <1>17, <1>18 DEF IInv

\* Every step keeps it.
LEMMA NextKeeps == IInv /\ [Next]_vars => IInv'
<1> SUFFICES ASSUME IInv, [Next]_vars PROVE IInv'
  OBVIOUS
<1>1. CASE CommandStep
  <2>1. CASE pc = "lost"
    <3>1. UNCHANGED vars
      BY <1>1, <2>1 DEF CommandStep, rdisk, wdisk, wipesect, wipedisk_ahci, wipedisk_ide,
                        wipedisk_identified, next_call, command_ends, init_ahci_ends, lost
    <3>2. QED
      BY <3>1, StutterKeeps
  <2>2. QED
    BY <1>1, <2>1, CommandKeeps
<1>2. CASE DriverStep
  BY <1>2, AtaKeeps, AhciKeeps DEF DriverStep
<1>3. CASE \E d \in Drives : DriveStep(d)
  BY <1>3, DriveKeeps
<1>4. CASE \E p \in Ports : ControllerStep(p)
  BY <1>4, ControllerKeeps
<1>5. CASE UNCHANGED vars
  BY <1>5, StutterKeeps
<1>6. QED
  BY <1>1, <1>2, <1>3, <1>4, <1>5 DEF Next

------------------------------------------------------------------------------
(* The probe of the IDE channel.                                           *)

BeforeProbe ==
    pc \in InitPcs \/ (pc \in AhciPcs \union {"returned"} /\ cmd.name = "init_ahci")

\* Nothing is asked of the drives before.
Untouched ==
    BeforeProbe => /\ regs.sel = 0
                   /\ \A d \in Drives : ~drv[d].busy /\ drv[d].left = 0

\* The master once it has been probed: it is not busy, so that the slave can be
\* selected, unless it is a packet device; an ATA drive is listed, or has failed.
MasterProbed ==
    /\ Len(ide_devices) = 1 => ide_devices[1].drive = 0 /\ Present(0)
    /\ Present(0) /\ machine.drive[0] # "atapi" => ~drv[0].busy
    /\ IsAta(0) /\ ~drv[0].err => ide_devices = <<ListedAs(0)>>

\* The words of its identification are all there, or none.
Whole(d) == drv[d].left \in {0, Quads}

Probing ==
    pc \in ProbePcs /\ ~machine.deaf =>
        /\ j = 0 => regs.sel = 0 /\ Whole(0)
        /\ j = 1 => MasterProbed
        /\ Whole(1)
        /\ pc = "ata_select" => regs.sel = 0
        /\ pc # "ata_select" /\ j = 1 /\ machine.drive[0] # "atapi" => regs.sel = 1
        /\ pc = "ata_packet" => machine.drive[regs.sel] = "atapi"

PInv == Untouched /\ Probing

\* A step that is no part of the probe keeps it.
LEMMA ProbeFrame ==
    ASSUME PInv, UNCHANGED <<machine, regs, drv, ide_devices, j>>,
           BeforeProbe' => BeforeProbe, pc' \in ProbePcs => pc' = pc
    PROVE  PInv'
<1>1. Untouched'
  BY DEF PInv, Untouched
<1>2. Probing'
  <2>1. SUFFICES ASSUME pc' \in ProbePcs, ~machine'.deaf
                 PROVE  Probing'
    BY DEF Probing
  <2>2. pc' = pc
    BY <2>1
  <2>3. \A d : Whole(d)' = Whole(d)
    BY DEF Whole
  <2>4. MasterProbed' = MasterProbed
    BY DEF MasterProbed, Present, IsAta, ListedAs
  <2>5. QED
    BY <2>1, <2>2, <2>3, <2>4 DEF PInv, Probing
<1>3. QED
  BY <1>1, <1>2 DEF PInv

\* The probe begins with the master, and with nothing listed.
LEMMA ProbeBegins ==
    ASSUME IInv, PInv, BeforeProbe, pc' = "ata_select",
           UNCHANGED <<machine, regs, drv, ide_devices, j>>
    PROVE  PInv'
<1>1. j = 0 /\ regs.sel = 0 /\ \A d \in Drives : drv[d].left = 0
  BY DEF IInv, Booted, PInv, Untouched, BeforeProbe
<1>2. 0 \in Drives /\ 1 \in Drives
  BY DEF Drives
<1>3. Whole(0)' /\ Whole(1)'
  BY <1>1, <1>2 DEF Whole
<1>4. Probing'
  BY <1>1, <1>3 DEF Probing
<1>5. Untouched'
  BY DEF Untouched, BeforeProbe, InitPcs, AhciPcs
<1>6. QED
  BY <1>4, <1>5 DEF PInv

\* A step of a drive keeps it: it leaves the drive not busy, and the master is
\* busy only as a packet device once the slave is probed.
LEMMA DriveKeepsProbe ==
    ASSUME IInv, PInv, NEW d \in Drives, DriveStep(d)
    PROVE  PInv'
<1>1. /\ UNCHANGED <<machine, pc, regs, ide_devices, j, cmd>> /\ drv[d].busy
      /\ \E new : drv' = [drv EXCEPT ![d] = new] /\ Steps(d, new)
  BY DriveStepsAre
<1>2. PICK new : drv' = [drv EXCEPT ![d] = new] /\ Steps(d, new)
  BY <1>1
<1>3. new.left \in {0, Quads} /\ new.busy = FALSE
  BY <1>2 DEF Steps
<1>4. drv'[d] = new /\ \A e \in Drives : e # d => drv'[e] = drv[e]
  BY <1>2 DEF IInv, IdeTypes
<1>5. Untouched'
  BY <1>1 DEF PInv, Untouched, BeforeProbe
<1>6. 0 \in Drives /\ 1 \in Drives
  BY DEF Drives
<1>7. (Whole(0) => Whole(0)') /\ (Whole(1) => Whole(1)')
  BY <1>3, <1>4, <1>6 DEF Whole
<1>8. MasterProbed => MasterProbed'
  <2> SUFFICES ASSUME MasterProbed PROVE MasterProbed'
    OBVIOUS
  <2>1. d = 0 => ~Present(0) \/ machine.drive[0] = "atapi"
    BY <1>1 DEF MasterProbed
  <2>2. d # 0 => drv'[0] = drv[0]
    BY <1>4, <1>6
  <2>3. Present(0)' = Present(0) /\ IsAta(0)' = IsAta(0) /\ ListedAs(0)' = ListedAs(0)
    BY <1>1 DEF Present, IsAta, ListedAs
  <2>4. IsAta(0) => Present(0) /\ machine.drive[0] # "atapi"
    BY DEF IsAta, Present
  <2>5. QED
    BY <1>1, <2>1, <2>2, <2>3, <2>4 DEF MasterProbed
<1>9. Probing'
  BY <1>1, <1>7, <1>8 DEF PInv, Probing
<1>10. QED
  BY <1>5, <1>9 DEF PInv

\* A step of the controller or of a command keeps it.
LEMMA ControllerKeepsProbe ==
    ASSUME IInv, PInv, NEW p \in Ports, ControllerStep(p)
    PROVE  PInv'
<1>1. UNCHANGED <<machine, pc, ata_vars, cmd>>
  BY ControllerStepsAre DEF IInv
<1>2. QED
  BY <1>1, ProbeFrame DEF ata_vars, BeforeProbe

\* A command begins the probe, or starts a call after it.
LEMMA CommandKeepsProbe ==
    ASSUME IInv, PInv, CommandStep, pc # "lost"
    PROVE  PInv'
<1>1. /\ UNCHANGED <<machine, ata_vars>> /\ Started /\ cmd'.name # "init_ahci"
      /\ pc \in {"idle", "returned"}
      /\ pc' = "ata_select" => pc = "returned" /\ cmd.name = "init_ahci"
      /\ UNCHANGED ahci_vars
  BY CommandStepsAre
<1>2. UNCHANGED <<machine, regs, drv, ide_devices, j>>
  BY <1>1 DEF ata_vars
<1>3. pc' \in {"idle", "ata_select", "ata_wait", "send_command", "returned", "lost"}
  BY <1>1, StartedIs, Zenon
<1>4. CASE pc' = "ata_select"
  BY <1>1, <1>2, <1>4, ProbeBegins DEF BeforeProbe
<1>5. CASE pc' # "ata_select"
  <2>1. pc' \notin InitPcs \union ProbePcs
    BY <1>5, <1>3 DEF InitPcs, ProbePcs
  <2>2. ~BeforeProbe'
    BY <1>1, <2>1 DEF BeforeProbe
  <2>3. QED
    BY <1>2, <2>1, <2>2, ProbeFrame
<1>6. QED
  BY <1>4, <1>5

\* A step of the AHCI driver begins the probe, or is no part of it.
LEMMA AhciKeepsProbe ==
    ASSUME IInv, PInv, AhciStep, UNCHANGED <<ata_vars, cmd>>
    PROVE  PInv'
<1>1. UNCHANGED <<machine, regs, drv, ide_devices, j, cmd>>
  <2>1. machine' = machine
    <3>1. CASE probe_ports \/ init_nothing \/ stop_cmd \/ port_rebase \/ start_cmd
      BY <3>1 DEF probe_ports, init_nothing, stop_cmd, port_rebase, start_cmd
    <3>2. CASE find_cmdslot
      BY <3>2, Zenon DEF find_cmdslot
    <3>3. CASE fill_slot \/ spin_busy \/ hung \/ issue
      BY <3>3, Zenon DEF fill_slot, spin_busy, hung, issue
    <3>4. CASE poll_ci \/ poll_is \/ check_again
      BY <3>4, Zenon DEF poll_ci, poll_is, check_again
    <3>5. QED
      BY <3>1, <3>2, <3>3, <3>4 DEF AhciStep
  <2>2. QED
    BY <2>1 DEF ata_vars
<1>2. CASE init_nothing
  BY <1>1, <1>2, ProbeBegins DEF init_nothing, BeforeProbe, InitPcs
<1>3. CASE probe_ports \/ stop_cmd \/ port_rebase \/ start_cmd
  <2>1. pc \in InitPcs
    BY <1>3 DEF probe_ports, stop_cmd, port_rebase, start_cmd, InitPcs
  <2>2. pc' \notin ProbePcs
    BY <1>3 DEF probe_ports, stop_cmd, port_rebase, start_cmd, Begin, ProbePcs
  <2>3. QED
    BY <1>1, <2>1, <2>2, ProbeFrame DEF BeforeProbe
<1>4. CASE \/ find_cmdslot \/ fill_slot \/ spin_busy \/ hung \/ issue
           \/ poll_ci \/ poll_is \/ check_again
  <2>1. pc \in AhciPcs /\ pc' \in AhciPcs \union {"returned"}
    <3>1. CASE find_cmdslot
      <4>1. pc = "send_command" /\ pc' \in {"fill", "returned"}
        BY <3>1, Zenon DEF find_cmdslot, Return
      <4>2. QED
        BY <4>1 DEF AhciPcs
    <3>2. CASE fill_slot \/ spin_busy \/ hung \/ issue
      BY <3>2 DEF fill_slot, spin_busy, hung, issue, Return, AhciPcs
    <3>3. CASE poll_ci \/ poll_is \/ check_again
      BY <3>3 DEF poll_ci, poll_is, check_again, Return, AhciPcs
    <3>4. QED
      BY <1>4, <3>1, <3>2, <3>3
  <2>2. pc' \notin ProbePcs \union InitPcs
    BY <2>1 DEF AhciPcs, ProbePcs, InitPcs
  <2>3. BeforeProbe' => BeforeProbe
    BY <1>1, <2>1, <2>2 DEF BeforeProbe
  <2>4. QED
    BY <1>1, <2>2, <2>3, ProbeFrame
<1>5. QED
  BY <1>2, <1>3, <1>4 DEF AhciStep

\* A step of a call by IDE is no part of the probe.
LEMMA CallKeepsProbe ==
    ASSUME IInv, PInv, UNCHANGED <<machine, cmd>>,
           send_params \/ read_error \/ read_sector \/ write_sector \/ write_returns
    PROVE  PInv'
<1>1. pc \in IdePcs
  BY DEF send_params, read_error, read_sector, write_sector, write_returns, Polled, IdePcs
<1>2. cmd'.name # "init_ahci"
  BY <1>1 DEF IInv, InDriver
<1>3. pc' \in IdePcs \union {"returned"}
  BY <1>1 DEF send_params, read_error, read_sector, write_sector, write_returns, Return,
              IdePcs
<1>4. pc' \notin InitPcs \union ProbePcs
  BY <1>3 DEF IdePcs, InitPcs, ProbePcs
<1>5. QED
  BY <1>2, <1>4 DEF PInv, Untouched, Probing, BeforeProbe

\* What the probe knows of the drives, of which none is deaf.
LEMMA InProbe ==
    ASSUME IInv, PInv, pc \in ProbePcs, ~machine.deaf
    PROVE  /\ regs.sel \in {0, 1} /\ j \in {0, 1} /\ Drives = {0, 1}
           /\ regs \in RegsTypes /\ drv \in [Drives -> DriveStates]
           /\ \A d \in Drives : Hears(d) <=> Present(d) /\ ~drv[d].busy
           /\ j = 0 => regs.sel = 0 /\ Whole(0) /\ ide_devices = <<>>
           /\ j = 1 => MasterProbed
           /\ Whole(1)
           /\ pc = "ata_select" => regs.sel = 0
           /\ pc # "ata_select" /\ j = 1 /\ machine.drive[0] # "atapi" => regs.sel = 1
           /\ pc = "ata_packet" => machine.drive[regs.sel] = "atapi"
           /\ ide_devices = <<>> \/ \E e \in Entries : ide_devices = <<e>>
<1>1. Drives = {0, 1}
  BY DEF Drives
<1>2. regs.sel \in Drives /\ j \in Drives /\ ide_devices \in Seq(Entries)
      /\ regs \in RegsTypes /\ drv \in [Drives -> DriveStates]
  BY DEF IInv, IdeTypes, RegsTypes
<1>3. Len(ide_devices) <= j
  BY DEF IInv, Booted
<1>4. \A s \in Seq(Entries) : Len(s) <= 0 => s = <<>>
  OBVIOUS
<1>5. \A s \in Seq(Entries) : Len(s) <= 1 => s = <<>> \/ \E e \in Entries : s = <<e>>
  <2> SUFFICES ASSUME NEW s \in Seq(Entries), Len(s) <= 1, s # <<>>
               PROVE  \E e \in Entries : s = <<e>>
    OBVIOUS
  <2>1. PICK n \in Nat : n = Len(s)
    OBVIOUS
  <2>2. n = 1
    BY <1>4, <2>1
  <2>3. s[1] \in Entries
    BY <2>1, <2>2
  <2>4. s = <<s[1]>>
    <3>1. \A f, g \in [1 .. 1 -> Entries] : f[1] = g[1] => f = g
      OBVIOUS
    <3>2. s \in [1 .. 1 -> Entries]
      <4>1. s \in [1 .. Len(s) -> Entries]
        OBVIOUS
      <4>2. QED
        BY <2>1, <2>2, <4>1, Zenon
    <3>3. \A e \in Entries : <<e>> \in [1 .. 1 -> Entries] /\ <<e>>[1] = e
      OBVIOUS
    <3>4. QED
      BY <2>3, <3>1, <3>2, <3>3
  <2>5. QED
    BY <2>3, <2>4
<1>6. j = 0 => ide_devices = <<>>
  BY <1>2, <1>3, <1>4
<1>7. ide_devices = <<>> \/ \E e \in Entries : ide_devices = <<e>>
  BY <1>1, <1>2, <1>3, <1>5, <1>6
<1>8. \A d \in Drives : Hears(d) <=> Present(d) /\ ~drv[d].busy
  BY DEF Hears
<1>9. QED
  BY <1>1, <1>2, <1>6, <1>7, <1>8 DEF PInv, Probing

\* A command without a sector number leaves the words of an answer whole, and
\* the drives that it is not for alone.
LEMMA CommandIsWhole ==
    ASSUME drv \in [Drives -> DriveStates], NEW d \in Drives,
           NEW name \in {"identify", "identify_packet"},
           Command(d, Job(name, 0, 0, FALSE, FALSE))
    PROVE  /\ \A e \in Drives : Whole(e) => Whole(e)'
           /\ \A e \in Drives : e # d \/ ~Hears(d) => drv'[e] = drv[e]
<1>1. Job(name, 0, 0, FALSE, FALSE) \in Jobs
  BY IdentifyJobs
<1>2. /\ \A e \in Drives : e # d => drv'[e] = drv[e]
      /\ Hears(d) => drv'[d] = [busy |-> TRUE, left |-> 0, err |-> FALSE,
                                job |-> Job(name, 0, 0, FALSE, FALSE)]
      /\ ~Hears(d) => drv'[d] = drv[d]
  BY <1>1, CommandTaken
<1>3. \A job : [busy |-> TRUE, left |-> 0, err |-> FALSE, job |-> job].left = 0
  OBVIOUS
<1>4. Hears(d) => drv'[d].left = 0
  BY <1>2, <1>3, Zenon
<1>5. QED
  BY <1>2, <1>4 DEF Whole

\* A step of ide_init keeps it.
LEMMA IdeInitKeepsProbe ==
    ASSUME IInv, PInv, ide_init
    PROVE  PInv'
<1>1. pc \in ProbePcs /\ machine' = machine
  BY DEF ide_init, ide_init_select, ide_init_nothing, ide_init_error, ide_init_read, ProbePcs
<1>2. pc' \in ProbePcs \union {"idle"}
  BY DEF ide_init, ide_init_select, ide_init_nothing, ide_init_error, ide_init_read, NextDrive,
         ProbePcs
<1>3. Untouched'
  BY <1>2 DEF Untouched, BeforeProbe, ProbePcs, InitPcs, AhciPcs
<1>4. SUFFICES ASSUME ~machine.deaf, pc' \in ProbePcs PROVE Probing'
  BY <1>1, <1>3 DEF PInv, Probing
<1>5. /\ regs.sel \in {0, 1} /\ j \in {0, 1} /\ Drives = {0, 1}
      /\ regs \in RegsTypes /\ drv \in [Drives -> DriveStates]
      /\ \A d \in Drives : Hears(d) <=> Present(d) /\ ~drv[d].busy
      /\ j = 0 => regs.sel = 0 /\ Whole(0) /\ ide_devices = <<>>
      /\ j = 1 => MasterProbed
      /\ Whole(1)
      /\ pc = "ata_select" => regs.sel = 0
      /\ pc # "ata_select" /\ j = 1 /\ machine.drive[0] # "atapi" => regs.sel = 1
      /\ pc = "ata_packet" => machine.drive[regs.sel] = "atapi"
  BY <1>1, <1>4, InProbe
<1>6. /\ Present(0)' = Present(0) /\ IsAta(0)' = IsAta(0) /\ ListedAs(0)' = ListedAs(0)
      /\ IsAta(0) => Present(0) /\ machine.drive[0] # "atapi"
  BY <1>1 DEF Present, IsAta, ListedAs
<1>7. CASE ide_init_select
  <2> DEFINE d == IF Listening(regs.sel) THEN j ELSE regs.sel
  <2>1. d \in Drives /\ regs.sel = 0 /\ (d = j \/ d = 0)
    BY <1>5, <1>7 DEF ide_init_select
  <2>2. j = 1 => \/ d = 1
                 \/ d = 0 /\ Present(0) /\ drv[0].busy
    BY <1>5, <2>1 DEF Listening
  <2> HIDE DEF d
  <2>3. /\ regs' = [regs EXCEPT !.sel = d] /\ pc' = "ata_identify"
        /\ Command(d, Job("identify", 0, 0, FALSE, FALSE))
        /\ UNCHANGED <<ide_devices, j>>
    BY <1>7 DEF ide_init_select, d
  <2>4. regs'.sel = d
    BY <1>5, <2>3 DEF RegsTypes
  <2>5. /\ \A e \in Drives : Whole(e) => Whole(e)'
        /\ \A e \in Drives : e # d \/ ~Hears(d) => drv'[e] = drv[e]
    BY <1>5, <2>1, <2>3, CommandIsWhole
  <2>6. j = 1 => drv'[0] = drv[0]
    BY <1>5, <2>1, <2>2, <2>5
  <2>7. j = 1 => MasterProbed'
    BY <1>1, <1>5, <1>6, <2>3, <2>6 DEF MasterProbed
  <2>8. j = 1 /\ machine.drive[0] # "atapi" => d = 1
    BY <1>5, <2>2 DEF MasterProbed
  <2>9. j = 0 => d = 0
    BY <2>1
  <2>10. Whole(1)' /\ (j = 0 => Whole(0)')
    BY <1>5, <2>5
  <2>11. QED
    BY <1>1, <2>3, <2>4, <2>7, <2>8, <2>9, <2>10 DEF Probing
\* The probe goes on with the slave.
<1>8. ASSUME NextDrive, regs' = regs, j = 0 => MasterProbed', drv'[1] = drv[1]
      PROVE  Probing'
  <2>1. j = 0 /\ j' = 1 /\ pc' = "ata_select"
    BY <1>4, <1>5, <1>8 DEF NextDrive, ProbePcs
  <2>2. regs'.sel = 0 /\ MasterProbed' /\ Whole(1)'
    BY <1>5, <1>8, <2>1 DEF Whole
  <2>3. QED
    BY <2>1, <2>2 DEF Probing
<1>9. Len(<<>>) = 0
  OBVIOUS
<1>10. CASE ide_init_nothing
  <2>1. NextDrive /\ UNCHANGED <<regs, drv, ide_devices>> /\ ~Present(regs.sel)
    BY <1>10 DEF ide_init_nothing
  <2>2. j = 0 => MasterProbed'
    BY <1>5, <1>6, <1>9, <2>1 DEF MasterProbed
  <2>3. QED
    BY <1>8, <2>1, <2>2
<1>11. CASE ide_init_error
  <2>1. UNCHANGED <<regs, ide_devices>> /\ ~drv[regs.sel].busy /\ drv[regs.sel].err
    BY <1>11 DEF ide_init_error
  <2>2. CASE machine.drive[regs.sel] = "atapi"
    <3>1. /\ Command(regs.sel, Job("identify_packet", 0, 0, FALSE, FALSE))
          /\ pc' = "ata_packet" /\ j' = j /\ pc = "ata_identify"
      BY <1>11, <2>2 DEF ide_init_error
    <3>2. /\ \A e \in Drives : Whole(e) => Whole(e)'
          /\ \A e \in Drives : e # regs.sel => drv'[e] = drv[e]
      BY <1>5, <3>1, CommandIsWhole
    <3>3. j = 1 => MasterProbed'
      <4>1. CASE regs.sel = 1
        BY <1>1, <1>5, <1>6, <2>1, <3>2, <4>1 DEF MasterProbed
      <4>2. CASE regs.sel = 0
        BY <1>1, <1>5, <1>6, <2>1, <2>2, <4>2 DEF MasterProbed
      <4>3. QED
        BY <1>5, <4>1, <4>2
    <3>4. Whole(1)' /\ (j = 0 => Whole(0)')
      BY <1>5, <3>2
    <3>5. QED
      BY <1>1, <1>5, <2>1, <2>2, <3>1, <3>3, <3>4 DEF Probing
  <2>3. CASE machine.drive[regs.sel] # "atapi"
    <3>1. NextDrive /\ drv' = drv
      BY <1>11, <2>3 DEF ide_init_error
    <3>2. j = 0 => MasterProbed'
      BY <1>5, <1>6, <1>9, <2>1, <3>1 DEF MasterProbed
    <3>3. QED
      BY <1>8, <2>1, <3>1, <3>2
  <2>4. QED
    BY <2>2, <2>3
<1>12. CASE ide_init_read
  <2>1. /\ NextDrive /\ regs' = regs /\ Present(regs.sel)
        /\ pc = "ata_packet" \/ (~drv[regs.sel].busy /\ drv[regs.sel].left > 0)
        /\ \E words : drv' = [drv EXCEPT ![regs.sel].left = words]
    <3>1. NextDrive /\ regs' = regs /\ Present(regs.sel)
      BY <1>12, Zenon DEF ide_init_read
    <3>2. /\ pc \in {"ata_identify", "ata_packet"}
          /\ pc = "ata_identify" => ~drv[regs.sel].busy /\ drv[regs.sel].left > 0
      BY <1>12, Zenon DEF ide_init_read
    <3>3. \E words : drv' = [drv EXCEPT ![regs.sel].left = words]
      BY <1>12, Zenon DEF ide_init_read
    <3>4. QED
      BY <3>1, <3>2, <3>3
  <2>2. PICK size \in {0, Capacity[machine.drive[regs.sel]]}, flat \in BOOLEAN :
            /\ drv[regs.sel].left = Quads =>
                  /\ size = Capacity[machine.drive[regs.sel]]
                  /\ flat = (machine.drive[regs.sel] \in {"lba28", "lba48"})
            /\ ide_devices' = Append(ide_devices, [drive |-> j, flat |-> flat, size |-> size])
    BY <1>12, ZenonT(60) DEF ide_init_read
  <2>3. \A e \in Drives : drv'[e].busy = drv[e].busy /\ drv'[e].err = drv[e].err
    BY <1>5, <2>1 DEF DriveStates
  <2>4. j = 0
    BY <1>4, <1>5, <2>1 DEF NextDrive, ProbePcs
  <2>5. regs.sel = 0 /\ ide_devices' = <<[drive |-> 0, flat |-> flat, size |-> size]>>
    BY <1>5, <2>2, <2>4
  <2>6. drv'[1] = drv[1]
    BY <1>5, <2>1, <2>5
  <2>7. IsAta(0) => ide_devices' = <<ListedAs(0)>> /\ ~drv'[0].busy
    <3>1. SUFFICES ASSUME IsAta(0) PROVE ide_devices' = <<ListedAs(0)>> /\ ~drv'[0].busy
      OBVIOUS
    <3>2. ~drv[0].busy /\ drv[0].left > 0
      BY <1>5, <1>6, <2>1, <2>5, <3>1
    <3>3. drv[0].left = Quads
      BY <1>5, <2>4, <3>2 DEF Whole
    <3>4. QED
      BY <1>5, <2>2, <2>3, <2>5, <3>2, <3>3 DEF ListedAs
  <2>8. \A e : Len(<<e>>) = 1 /\ <<e>>[1] = e
    OBVIOUS
  <2>9. MasterProbed'
    <3>1. ide_devices'[1].drive = 0
      BY <2>5
    <3>2. Present(0) /\ machine.drive[0] # "atapi" => ~drv'[0].busy
      <4>1. Present(0) /\ machine.drive[0] # "atapi" => ~drv[0].busy
        BY <1>5, <2>1, <2>5
      <4>2. QED
        BY <1>5, <2>3, <4>1
    <3>3. QED
      BY <1>1, <1>6, <2>1, <2>5, <2>7, <3>1, <3>2 DEF MasterProbed
  <2>10. QED
    BY <1>8, <2>1, <2>6, <2>9
<1>13. QED
  BY <1>7, <1>10, <1>11, <1>12 DEF ide_init

\* Every step keeps it.
LEMMA NextKeepsProbe == IInv /\ PInv /\ [Next]_vars => PInv'
<1> SUFFICES ASSUME IInv, PInv, [Next]_vars PROVE PInv'
  OBVIOUS
<1>1. CASE UNCHANGED vars
  BY <1>1, ProbeFrame DEF vars, ata_vars, BeforeProbe
<1>2. CASE CommandStep
  <2>1. CASE pc = "lost"
    <3>1. UNCHANGED vars
      BY <1>2, <2>1 DEF CommandStep, rdisk, wdisk, wipesect, wipedisk_ahci, wipedisk_ide,
                        wipedisk_identified, next_call, command_ends, init_ahci_ends, lost
    <3>2. QED
      BY <1>1, <3>1
  <2>2. QED
    BY <1>2, <2>1, CommandKeepsProbe
<1>3. CASE AtaStep /\ UNCHANGED <<ahci_vars, cmd>>
  <2>1. CASE ide_init
    BY <2>1, IdeInitKeepsProbe
  <2>2. CASE send_params \/ read_error \/ read_sector \/ write_sector \/ write_returns
    <3>1. UNCHANGED <<machine, cmd>>
      BY <1>3, <2>2 DEF send_params, read_error, read_sector, write_sector, write_returns
    <3>2. QED
      BY <2>2, <3>1, CallKeepsProbe
  <2>3. QED
    BY <1>3, <2>1, <2>2 DEF AtaStep
<1>4. CASE AhciStep /\ UNCHANGED <<ata_vars, cmd>>
  BY <1>4, AhciKeepsProbe
<1>5. CASE \E d \in Drives : DriveStep(d)
  BY <1>5, DriveKeepsProbe
<1>6. CASE \E p \in Ports : ControllerStep(p)
  BY <1>6, ControllerKeepsProbe
<1>7. QED
  BY <1>1, <1>2, <1>3, <1>4, <1>5, <1>6 DEF Next, DriverStep

\* It holds at power-on.
LEMMA InitProbe == Init => PInv
<1> SUFFICES ASSUME Init PROVE PInv
  OBVIOUS
<1>1. pc = "init_ahci" /\ AtaInit
  BY DEF Init
<1>2. Untouched
  BY <1>1 DEF Untouched, AtaInit
<1>3. Probing
  BY <1>1 DEF Probing, ProbePcs
<1>4. QED
  BY <1>2, <1>3 DEF PInv

\* The inductive invariant holds in every state of every behaviour: what the
\* two drivers, the drives and the controller know of a call agrees.
THEOREM Invariance == Spec => []IInv
<1>1. Init => IInv
  BY InitHolds
<1>2. IInv /\ [Next]_vars => IInv'
  BY NextKeeps
<1>3. QED
  BY <1>1, <1>2, PTL DEF Spec

\* The type invariant follows.
LEMMA TypesImplied == IInv => TypeOK
<1> SUFFICES ASSUME IInv PROVE TypeOK
  OBVIOUS
<1>1. /\ machine \in Machines /\ call \in Requests
      /\ cmd.sector \in 0 .. Word - 1 /\ cmd.left \in Nat
  BY DEF IInv, CallTypes, CommandTypes
<1>2. Len(moved) <= 1
  BY DEF IInv, Moved
<1>3. /\ regs.cur \in Registers /\ regs.prev \in Registers
      /\ regs.sel \in Drives /\ regs.head \in 0 .. Nibble - 1 /\ j \in Drives
  BY DEF IInv, IdeTypes
<1>4. drv \in [Drives -> [busy : BOOLEAN, left : 0 .. Quads, err : BOOLEAN, job : Jobs]]
  BY DEF IInv, IdeTypes, DriveStates
<1>5. Len(ide_devices) <= 2
  BY DEF IInv, Booted
<1>6. /\ ports \in [Ports -> Ports \union {NULL}] /\ nports \in 0 .. Cardinality(Ports)
      /\ spin \in 0 .. SpinLimit /\ slot \in Slots
  BY DEF IInv, AhciTypes
<1>7. \A p \in Ports : hba[p].ci \subseteq Slots /\ hba[p].current \in Slots \union {NULL}
  BY DEF IInv, AhciTypes, PortStates
<1>8. \A k \in 1 .. 4 : {regs.cur[k], regs.prev[k]} \subseteq 0 .. Byte - 1
  BY <1>3 DEF Registers
<1>9. QED
  BY <1>1, <1>2, <1>3, <1>4, <1>5, <1>6, <1>7, <1>8 DEF TypeOK

\* A drive reads and stores only the sector that a call is about, and once:
\* send_params and fill_slot write the number of a sector so that the drive
\* understands the same, in each of the modes of addressing.
THEOREM OnlyAskedAlwaysMoves == Spec => []OnlyAskedMoves
<1>1. IInv => OnlyAskedMoves
  <2> SUFFICES ASSUME IInv PROVE OnlyAskedMoves
    OBVIOUS
  <2>1. TypeOK
    BY TypesImplied
  <2>2. ASSUME call.taken, Addressable
        PROVE  Len(moved) <= Len(Asked) /\ \A k \in 1 .. Len(moved) : moved[k] = Asked[k]
    <3>1. CASE moved = <<>>
      <4>1. Len(Asked) >= 0
        <5>1. call.count \in 0 .. 1
          BY DEF IInv, CallTypes, Requests
        <5>2. CASE call.op = "identify"
          BY <5>2 DEF Asked
        <5>3. CASE call.op # "identify"
          BY <5>1, <5>3 DEF Asked
        <5>4. QED
          BY <5>2, <5>3
      <4>2. Len(<<>>) = 0
        OBVIOUS
      <4>3. QED
        BY <3>1, <4>1, <4>2
    <3>2. CASE moved # <<>>
      <4>1. moved = Asked /\ moved \in Seq(Int)
        BY <2>2, <3>2 DEF IInv, Moved
      <4>2. \A s \in Seq(Int) : Len(s) <= Len(s)
        OBVIOUS
      <4>3. QED
        BY <4>1, <4>2
    <3>3. QED
      BY <3>1, <3>2
  <2>3. QED
    BY <2>1, <2>2 DEF OnlyAskedMoves
<1>2. QED
  BY <1>1, Invariance, PTL

\* A call that returns success has moved the sector: ide_ata_access and
\* send_command look at the status that this command left.  The exceptions are
\* those that SuccessIsReal names, a write by AHCI to a controller that goes by
\* the header's direction (ahci.c:211) among them.
THEOREM SuccessIsAlwaysReal == Spec => []SuccessIsReal
<1>1. IInv => SuccessIsReal
  BY DEF IInv, Results
<1>2. QED
  BY <1>1, Invariance, PTL

\* A call returns an error only if the drive reported one during this call:
\* the bits of an earlier error are cleared, or were overwritten.
THEOREM ErrorIsAlwaysReal == Spec => []ErrorIsReal
<1>1. IInv => ErrorIsReal
  BY DEF IInv, Results
<1>2. QED
  BY <1>1, Invariance, PTL

\* A step that ends the probe is one of ide_init, of the slave.
LEMMA EndIsOfTheProbe ==
    ASSUME IInv, [Next]_vars, EndOfProbe
    PROVE  /\ ide_init_nothing \/ ide_init_error \/ ide_init_read
           /\ pc \in ProbePcs /\ pc # "ata_select" /\ j = 1 /\ machine' = machine
<1>1. pc \in {"ata_identify", "ata_packet"} /\ pc' = "idle"
  BY DEF EndOfProbe
<1>2. Next
  BY <1>1 DEF vars
<1>3. ~CommandStep
  BY <1>1, CommandStepsAre
<1>4. ~AhciStep
  <2>1. AhciStep => pc \in InitPcs \union AhciPcs
    <3>1. find_cmdslot => pc = "send_command"
      BY Zenon DEF find_cmdslot
    <3>2. QED
      BY <3>1 DEF AhciStep, probe_ports, init_nothing, stop_cmd, port_rebase, start_cmd,
                  fill_slot, spin_busy, hung, issue, poll_ci, poll_is, check_again,
                  InitPcs, AhciPcs
  <2>2. QED
    BY <1>1, <2>1 DEF InitPcs, AhciPcs
<1>5. \A d \in Drives : ~DriveStep(d)
  BY <1>1, DriveStepsAre
<1>6. \A p \in Ports : ~ControllerStep(p)
  <2>1. \A p \in Ports : ControllerStep(p) => pc' = pc
    BY ControllerStepsAre DEF IInv
  <2>2. QED
    BY <1>1, <2>1
<1>7. ide_init
  BY <1>1, <1>2, <1>3, <1>4, <1>5, <1>6
     DEF Next, DriverStep, AtaStep, send_params, read_error, read_sector, write_sector,
         write_returns, Polled
<1>8. ide_init_nothing \/ ide_init_error \/ ide_init_read
  BY <1>1, <1>7 DEF ide_init, ide_init_select
<1>9. NextDrive /\ machine' = machine
  BY <1>1, <1>8 DEF ide_init_nothing, ide_init_error, ide_init_read
<1>10. j = 1
  BY <1>1, <1>9 DEF NextDrive, IInv, IdeTypes, Drives
<1>11. QED
  BY <1>1, <1>8, <1>9, <1>10 DEF ProbePcs

\* An entry that is appended comes after the others.
LEMMA AppendOne ==
    ASSUME NEW S, NEW s \in Seq(S), NEW x \in S
    PROVE  /\ Append(s, x) \in Seq(S) /\ Len(Append(s, x)) = Len(s) + 1
           /\ Append(s, x)[Len(s) + 1] = x
           /\ \A i \in 1 .. Len(s) : Append(s, x)[i] = s[i]
OBVIOUS

\* A second entry comes after the first.
LEMMA AppendToOne ==
    ASSUME NEW e, NEW x
    PROVE  /\ Len(Append(<<e>>, x)) = 2 /\ DOMAIN Append(<<e>>, x) = {1, 2}
           /\ Append(<<e>>, x)[1] = e /\ Append(<<e>>, x)[2] = x
<1>1. PICK S : e \in S /\ x \in S
  <2>1. e \in {e, x} /\ x \in {e, x}
    OBVIOUS
  <2>2. QED
    BY <2>1
<1>2. <<e>> \in Seq(S) /\ Len(<<e>>) = 1 /\ <<e>>[1] = e
  BY <1>1
<1>3. /\ Append(<<e>>, x) \in Seq(S) /\ Len(Append(<<e>>, x)) = Len(<<e>>) + 1
      /\ Append(<<e>>, x)[Len(<<e>>) + 1] = x
      /\ \A i \in 1 .. Len(<<e>>) : Append(<<e>>, x)[i] = <<e>>[i]
  BY <1>1, <1>2, AppendOne
<1>4. \A s \in Seq(S) : Len(s) = 2 => DOMAIN s = {1, 2}
  OBVIOUS
<1>5. 1 + 1 = 2 /\ 1 \in 1 .. 1
  OBVIOUS
<1>6. QED
  BY <1>2, <1>3, <1>4, <1>5, Zenon

\* What the end of the probe finds in the registers and the lists.
LEMMA EndFinds ==
    ASSUME IInv, PInv, [Next]_vars, EndOfProbe, ~machine.deaf
    PROVE  AllFound
<1>1. /\ ide_init_nothing \/ ide_init_error \/ ide_init_read
      /\ pc \in ProbePcs /\ pc # "ata_select" /\ j = 1 /\ machine' = machine
  BY EndIsOfTheProbe
<1>2. /\ Drives = {0, 1} /\ drv \in [Drives -> DriveStates]
      /\ MasterProbed /\ Whole(1)
      /\ machine.drive[0] # "atapi" => regs.sel = 1
      /\ pc = "ata_packet" => machine.drive[regs.sel] = "atapi"
      /\ ide_devices = <<>> \/ \E e \in Entries : ide_devices = <<e>>
  BY <1>1, InProbe
<1>3. \A d : /\ Present(d)' = Present(d) /\ IsAta(d)' = IsAta(d) /\ ListedAs(d)' = ListedAs(d)
             /\ IsAta(d) => Present(d) /\ machine.drive[d] # "atapi"
  BY <1>1 DEF Present, IsAta, ListedAs
<1>4. \A e : Len(<<e>>) = 1 /\ <<e>>[1] = e /\ DOMAIN <<e>> = {1}
  OBVIOUS
<1>5. Len(<<>>) = 0 /\ DOMAIN <<>> = {}
  OBVIOUS
\* The slave is not there, or has failed: the list is that of the master.
<1>6. ASSUME ide_devices' = ide_devices, regs.sel = 1 => ~IsAta(1) \/ drv[1].err
      PROVE  AllFound
  <2>1. Len(ide_devices') # 2
    BY <1>2, <1>4, <1>5, <1>6
  <2>2. \A k \in DOMAIN ide_devices' : Present(ide_devices'[k].drive)
    BY <1>2, <1>4, <1>5, <1>6 DEF MasterProbed
  <2>3. IsAta(0) /\ ~drv[0].err => \E k \in DOMAIN ide_devices' : ide_devices'[k] = ListedAs(0)
    BY <1>2, <1>4, <1>6 DEF MasterProbed
  <2>4. QED
    BY <1>2, <1>3, <1>6, <2>1, <2>2, <2>3 DEF AllFound
<1>7. CASE ide_init_nothing
  BY <1>3, <1>6, <1>7 DEF ide_init_nothing
<1>8. CASE ide_init_error
  BY <1>6, <1>8 DEF ide_init_error
<1>9. CASE ide_init_read
  <2>1. /\ Present(regs.sel)
        /\ pc = "ata_identify" => drv[regs.sel].left > 0
        /\ pc \in {"ata_identify", "ata_packet"}
    BY <1>9, Zenon DEF ide_init_read
  <2>2. PICK size \in {0, Capacity[machine.drive[regs.sel]]}, flat \in BOOLEAN :
            /\ drv[regs.sel].left = Quads =>
                  /\ size = Capacity[machine.drive[regs.sel]]
                  /\ flat = (machine.drive[regs.sel] \in {"lba28", "lba48"})
            /\ ide_devices' = Append(ide_devices, [drive |-> j, flat |-> flat, size |-> size])
    BY <1>9, ZenonT(60) DEF ide_init_read
  <2> DEFINE new == [drive |-> 1, flat |-> flat, size |-> size]
  <2>3. new.drive = 1
    OBVIOUS
  <2>4. regs.sel = 1 /\ IsAta(1) => new = ListedAs(1)
    <3>1. SUFFICES ASSUME regs.sel = 1, IsAta(1) PROVE new = ListedAs(1)
      OBVIOUS
    <3>2. pc = "ata_identify"
      BY <1>2, <1>3, <2>1, <3>1
    <3>3. drv[1].left = Quads
      BY <1>2, <2>1, <3>1, <3>2 DEF Whole
    <3>4. QED
      BY <2>2, <3>1, <3>3 DEF ListedAs
  <2>5. ide_devices' = Append(ide_devices, new)
    BY <1>1, <2>2
  <2> HIDE DEF new
  <2>6. Append(<<>>, new) = <<new>>
    OBVIOUS
  <2>7. CASE ide_devices = <<>>
    <3>1. ide_devices' = <<new>>
      BY <2>5, <2>6, <2>7
    <3>2. ~(IsAta(0) /\ ~drv[0].err)
      <4>1. <<ListedAs(0)>> # <<>>
        OBVIOUS
      <4>2. QED
        BY <1>2, <2>7, <4>1 DEF MasterProbed
    <3>3. QED
      BY <1>2, <1>3, <1>4, <2>1, <2>3, <2>4, <3>1, <3>2 DEF AllFound
  <2>8. CASE \E e \in Entries : ide_devices = <<e>>
    <3>1. PICK e \in Entries : ide_devices = <<e>>
      BY <2>8
    <3>2. e.drive = 0 /\ Present(0)
      BY <1>2, <1>4, <3>1 DEF MasterProbed
    <3>3. IsAta(0) /\ ~drv[0].err => e = ListedAs(0)
      <4>1. <<e>>[1] = e /\ <<ListedAs(0)>>[1] = ListedAs(0)
        OBVIOUS
      <4>2. QED
        BY <1>2, <3>1, <4>1 DEF MasterProbed
    <3>4. /\ Len(ide_devices') = 2 /\ DOMAIN ide_devices' = {1, 2}
          /\ ide_devices'[1] = e /\ ide_devices'[2] = new
      <4>1. ide_devices' = Append(<<e>>, new)
        BY <2>5, <3>1, Zenon
      <4>2. /\ Len(Append(<<e>>, new)) = 2 /\ DOMAIN Append(<<e>>, new) = {1, 2}
            /\ Append(<<e>>, new)[1] = e /\ Append(<<e>>, new)[2] = new
        BY AppendToOne
      <4>3. QED
        BY <4>1, <4>2, Zenon
    <3>5. QED
      BY <1>2, <1>3, <2>1, <2>3, <2>4, <3>2, <3>3, <3>4 DEF AllFound
  <2>9. QED
    BY <1>2, <2>7, <2>8
<1>10. QED
  BY <1>1, <1>7, <1>8, <1>9

\* ide_init lists drives in order and none twice, only such as are there, and
\* every ATA drive that reported no error with its own parameters, unless the
\* selection of the slave was ignored by a packet device that is still busy.
THEOREM ProbeAlwaysFindsDrives == Spec => ProbeFindsDrives
<1>1. Init => PInv
  BY InitProbe
<1>2. IInv /\ PInv /\ [Next]_vars => PInv'
  BY NextKeepsProbe
<1>3. IInv /\ PInv /\ [Next]_vars => [EndOfProbe /\ ~machine.deaf => AllFound]_vars
  BY EndFinds
<1>4. QED
  BY <1>1, <1>2, <1>3, Invariance, PTL DEF Spec, ProbeFindsDrives
==============================================================================
