--------------------------------- MODULE Disk --------------------------------
(***************************************************************************)
(* The disks of SnekOS: both drivers, disk_read and disk_write, which      *)
(* choose between them (drivers/disk.c), and the commands that use them    *)
(* (console/commands.c).  Commands use drive 0 and one sector at a time.   *)
(***************************************************************************)
EXTENDS Ata, Ahci

CONSTANT Sectors        \* the sectors that users name in commands

VARIABLE cmd            \* the command that is running

\* What users type becomes a uint32_t.
ASSUME SectorsAssumption == Sectors \subseteq 0 .. Word - 1

vars == <<machine, pc, call, moved, ata_vars, ahci_vars, cmd>>

NoRequest == Request("identify", 0, 0, 0)

NoCmd == [name |-> "none", sector |-> 0, left |-> 0]

Init ==
    /\ machine \in Machines
    /\ pc = "init_ahci"
    /\ call = NoRequest
    /\ moved = <<>>
    /\ AtaInit /\ AhciInit
    /\ cmd = [NoCmd EXCEPT !.name = "init_ahci"]

------------------------------------------------------------------------------
NoDrive == /\ Begin("returned", [Request("read", 0, 0, 0) EXCEPT !.result = "no drive"])
           /\ UNCHANGED <<machine, ata_vars, ahci_vars>>

\* A port that is not there is read and written at address 0, where anything
\* may happen: the model ends here.
Lost == pc' = "lost" /\ UNCHANGED <<machine, call, moved, ata_vars, ahci_vars>>

\* AHCI comes before IDE, whatever its first port is.
disk_access(op, sector) ==
    IF nports > 0
    THEN IF ports[0] = NULL THEN Lost
         ELSE ahci_access(op, ports[0], sector, 1) /\ UNCHANGED ata_vars
    ELSE IF ide_devices # <<>>
         THEN ide_ata_access(op, 0, sector, 1) /\ UNCHANGED ahci_vars
         ELSE NoDrive

rdisk ==
    /\ pc = "idle"
    /\ \E s \in Sectors :
          /\ disk_access("read", s)
          /\ cmd' = [name |-> "rdisk", sector |-> s, left |-> 0]

wdisk ==
    /\ pc = "idle"
    /\ \E s \in Sectors :
          /\ disk_access("read", s)
          /\ cmd' = [name |-> "wdisk", sector |-> s, left |-> 1]

wipesect ==
    /\ pc = "idle"
    /\ \E s \in Sectors, n \in 1 .. 2 :
          /\ disk_access("write", s)
          /\ cmd' = [name |-> "wipesect", sector |-> s, left |-> n - 1]

\* The size is the drive's as it was identified: by AHCI now, by IDE at boot.
wipedisk_ahci ==
    /\ pc = "idle" /\ nports > 0
    /\ cmd' = [name |-> "identify", sector |-> 0, left |-> 0]
    /\ IF ports[0] = NULL THEN Lost
       ELSE ahci_access("identify", ports[0], 0, 1) /\ UNCHANGED ata_vars

Wipe(size) ==
    IF size = 0
    THEN Begin("idle", NoRequest) /\ cmd' = NoCmd /\ UNCHANGED <<machine, ata_vars, ahci_vars>>
    ELSE /\ disk_access("write", 0)
         /\ cmd' = [name |-> "wipedisk", sector |-> 0, left |-> size - 1]

wipedisk_ide ==
    /\ pc = "idle" /\ nports = 0 /\ ide_devices # <<>>
    /\ Wipe(ide_devices[1].size)

\* If identify fails, the size is what was on the stack.
wipedisk_identified ==
    /\ pc = "returned" /\ cmd.name = "identify"
    /\ \E size \in {0, 1, Capacity["lba48"]} :
          /\ call.result = "ok" => size = Capacity["lba48"]
          /\ Wipe(size)

\* The next call of a command: wdisk writes where it read, the others go on
\* with the next sector, a uint32_t.
After(c) == [c EXCEPT !.left = @ - 1,
                      !.sector = IF c.name = "wdisk" THEN @ ELSE (@ + 1) % Word]

GoesOn == call.result = "ok" /\ cmd.left > 0

next_call ==
    /\ pc = "returned" /\ cmd.name \in {"wdisk", "wipesect", "wipedisk"} /\ GoesOn
    /\ cmd' = After(cmd)
    /\ disk_access("write", After(cmd).sector)

command_ends ==
    /\ pc = "returned" /\ cmd.name \in {"rdisk", "wdisk", "wipesect", "wipedisk"} /\ ~GoesOn
    /\ Begin("idle", NoRequest) /\ cmd' = NoCmd
    /\ UNCHANGED <<machine, ata_vars, ahci_vars>>

\* init_ahci prints what was identified, or nothing; init_ata follows.
init_ahci_ends ==
    /\ pc = "returned" /\ cmd.name = "init_ahci"
    /\ Begin("ata_select", NoRequest) /\ cmd' = NoCmd
    /\ UNCHANGED <<machine, ata_vars, ahci_vars>>

lost == pc = "lost" /\ UNCHANGED vars

CommandStep ==
    \/ rdisk \/ wdisk \/ wipesect \/ wipedisk_ahci \/ wipedisk_ide
    \/ wipedisk_identified \/ next_call \/ command_ends \/ init_ahci_ends \/ lost

DriverStep == (AtaStep /\ UNCHANGED <<ahci_vars, cmd>>) \/ (AhciStep /\ UNCHANGED <<ata_vars, cmd>>)

DriveStep(d) == DriveAnswers(d) /\ UNCHANGED <<ahci_vars, cmd>>

ControllerStep(p) == Controller(p) /\ UNCHANGED <<ata_vars, cmd>>

Next ==
    \/ CommandStep \/ DriverStep
    \/ \E d \in Drives : DriveStep(d)
    \/ \E p \in Ports : ControllerStep(p)

\* The hardware answers in the end, and the processor runs on in a call.
Spec ==
    /\ Init /\ [][Next]_vars
    /\ WF_vars(DriverStep)
    /\ \A d \in Drives : WF_vars(DriveStep(d))
    /\ WF_vars(\E p \in Ports : ControllerStep(p))

------------------------------------------------------------------------------
Jobs == [cmd : {"none", "identify", "identify_packet", "read", "write", "store", "flush"},
         lba : Int, todo : 0 .. 1, ext : BOOLEAN, flat : BOOLEAN]

Requests ==
    [op : Operations, unit : Ports \union Drives, lba : 0 .. Word - 1, count : 0 .. 1,
     sent : 0 .. 1, failed : BOOLEAN, taken : BOOLEAN,
     result : {"none", "ok", "error", "hung", "no slot", "no drive"}]

\* Everything has its type: every digit of a sector number fits the register
\* of the drive that it is written to, and no slot is used that is not there.
TypeOK ==
    /\ machine \in Machines
    /\ call \in Requests /\ Len(moved) <= 1
    /\ \A k \in 1 .. 4 : {regs.cur[k], regs.prev[k]} \subseteq 0 .. Byte - 1
    /\ regs.sel \in Drives /\ regs.head \in 0 .. Nibble - 1
    /\ drv \in [Drives -> [busy : BOOLEAN, left : 0 .. Quads, err : BOOLEAN, job : Jobs]]
    /\ Len(ide_devices) <= 2 /\ j \in Drives
    /\ ports \in [Ports -> Ports \union {NULL}] /\ nports \in 0 .. Cardinality(Ports)
    /\ spin \in 0 .. SpinLimit /\ slot \in Slots
    /\ \A p \in Ports : hba[p].ci \subseteq Slots /\ hba[p].current \in Slots \union {NULL}
    /\ cmd.sector \in 0 .. Word - 1 /\ cmd.left \in Nat

OnIde == nports = 0

\* The geometry ends where the number of the cylinder does not fit 16 bits.
Addressable ==
    OnIde /\ ide_devices # <<>> /\ ~ide_devices[1].flat /\ call.lba < Nibble * Weight(3)
        => call.lba < Weight(2) * Nibble * SectorsPerTrack

\* A drive reads and stores only the sectors that the call is about, in order
\* and none twice: the modes of addressing meet at their boundaries, and each
\* part of an address fits its register.
OnlyAskedMoves ==
    /\ TypeOK
    /\ call.taken /\ Addressable
        => Len(moved) <= Len(Asked) /\ \A k \in 1 .. Len(moved) : moved[k] = Asked[k]

\* Success means that the drive has moved every sector.  The exceptions are
\* listed as hazards: a write by IDE that the drive refused, a drive that
\* did not take the command, a command addressed to a port multiplier, and a
\* write by AHCI, whose header says that it reads, if the controller goes by that.
SuccessIsReal ==
    (/\ pc = "returned" /\ call.result = "ok" /\ call.taken /\ Addressable
     /\ OnIde /\ call.op = "write" => ~call.failed
     /\ ~OnIde => Reaches(Port.table[slot]))
        => moved = Asked

\* A call reports an error only if the drive reported one during this call.
ErrorIsReal ==
    pc = "returned" /\ call.result = "error" /\ call.taken => call.failed

EndOfProbe == pc \in {"ata_identify", "ata_packet"} /\ pc' = "idle"

IsAta(d) == machine.drive[d] \in {"chs", "lba28", "lba48"}

ListedAs(d) ==
    [drive |-> d, size |-> Capacity[machine.drive[d]],
     flat |-> machine.drive[d] \in {"lba28", "lba48"}]

\* ide_init lists drives in order and none twice, only such as are there, and
\* every ATA drive of the channel that reported no error with its own
\* parameters; unless the selection of the slave was ignored, by a packet device
\* that is still busy with its identification, for which one tick is waited.
AllFound ==
    /\ Len(ide_devices') = 2 => ide_devices'[1].drive < ide_devices'[2].drive
    /\ machine.drive[0] # "atapi" => regs.sel = 1
    /\ regs.sel = 1 =>
          /\ \A k \in DOMAIN ide_devices' : Present(ide_devices'[k].drive)
          /\ \A d \in Drives :
                IsAta(d) /\ ~drv[d].err
                    => \E k \in DOMAIN ide_devices' : ide_devices'[k] = ListedAs(d)

\* Unless a drive with data pending is deaf, the probe finds them.
ProbeFindsDrives == [][EndOfProbe /\ ~machine.deaf => AllFound]_vars

\* As long as no port has halted, a call returns; the one that meets the
\* error still does.
Returned == pc \in {"returned", "idle", "lost"}

CallsReturn == (~Returned /\ \A p \in Ports : ~hba[p].halted) ~> Returned

==============================================================================
