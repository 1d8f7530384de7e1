--------------------------------- MODULE Ata ---------------------------------
(***************************************************************************)
(* The IDE driver (drivers/ata.c): ide_init probes the two drives of the   *)
(* primary channel, ide_ata_access reads and writes sectors through the    *)
(* data register.  The drives are external: they answer in their own time, *)
(* and may fail.  Registers are written while the drive is not busy, so    *)
(* writing all of them is one step.                                        *)
(***************************************************************************)
EXTENDS DiskCall

VARIABLES
    regs,           \* the registers of the channel; cur and prev: two deep
    drv,            \* external: the drives
    ide_devices,    \* the entries that are reserved, in order
    j               \* the drive that ide_init probes

ata_vars == <<regs, drv, ide_devices, j>>

\* ext: a command for 48-bit numbers; flat: the bit that says the number is one.
Job(cmd, lba, todo, ext, flat) ==
    [cmd |-> cmd, lba |-> lba, todo |-> todo, ext |-> ext, flat |-> flat]

NoJob == Job("none", 0, 0, FALSE, FALSE)

AtaInit ==
    /\ regs = [sel |-> 0, flat |-> FALSE, head |-> 0,
               cur |-> <<0, 0, 0, 0>>, prev |-> <<0, 0, 0, 0>>]
    /\ drv = [d \in Drives |->
                 [busy |-> FALSE, left |-> 0, err |-> FALSE, job |-> NoJob]]
    /\ ide_devices = <<>>
    /\ j = 0

------------------------------------------------------------------------------
(* External: the drives.  left counts the words of data pending (DRQ).     *)

Present(d) == machine.drive[d] # "none"

Hears(d) == Present(d) /\ ~drv[d].busy /\ (machine.deaf => drv[d].left = 0)

\* The registers change unless the drive selected is busy or deaf.
Listening(d) == Present(d) => Hears(d)

\* The sector that a drive understands from registers r.
Address(r, ext) ==
    IF ext THEN Number(<<r.cur[2], r.cur[3], r.cur[4], r.prev[2], r.prev[3], r.prev[4]>>)
    ELSE IF r.flat THEN Number(<<r.cur[2], r.cur[3], r.cur[4], r.head>>)
    ELSE (Number(<<r.cur[3], r.cur[4]>>) * Nibble + r.head) * SectorsPerTrack
            + r.cur[2] - 1

Command(d, job) ==
    drv' = IF Hears(d)
           THEN [drv EXCEPT ![d] = [busy |-> TRUE, left |-> 0, err |-> FALSE, job |-> job]]
           ELSE drv

\* Whether drive d knows the command and has the sector.
CanDo(d) ==
    LET job == drv[d].job
    IN  CASE job.cmd = "identify"        -> machine.drive[d] # "atapi"
          [] job.cmd = "identify_packet" -> machine.drive[d] = "atapi"
          [] job.cmd = "flush"           -> TRUE
          [] OTHER ->
                /\ job.lba < Capacity[machine.drive[d]]
                /\ job.ext => machine.drive[d] = "lba48"
                /\ job.flat => machine.drive[d] # "chs"

Settle(d, left, err, job) ==
    drv' = [drv EXCEPT ![d] = [busy |-> FALSE, left |-> left, err |-> err, job |-> job]]

DriveFails(d) ==
    /\ drv[d].busy
    /\ Settle(d, 0, TRUE, NoJob)
    /\ call' = [call EXCEPT !.failed = TRUE]
    /\ UNCHANGED <<machine, pc, moved, regs, ide_devices, j>>

\* Data to be read is there, or the drive waits for data to write.
DriveReady(d) ==
    /\ drv[d].busy /\ CanDo(d)
    /\ drv[d].job.cmd \in {"identify", "identify_packet", "read", "write"}
    /\ Settle(d, Quads, FALSE, drv[d].job)
    /\ UNCHANGED <<machine, pc, call, moved, regs, ide_devices, j>>

\* The job after one more sector.
NextSector(job) ==
    IF job.todo = 1 THEN NoJob
    ELSE [job EXCEPT !.lba = @ + 1, !.todo = @ - 1]

DriveStores(d) ==
    LET next == NextSector([drv[d].job EXCEPT !.cmd = "write"])
    IN  /\ drv[d].busy /\ drv[d].job.cmd = "store"
        /\ Settle(d, IF next = NoJob THEN 0 ELSE Quads, FALSE, next)
        /\ moved' = Append(moved, drv[d].job.lba)
        /\ UNCHANGED <<machine, pc, call, regs, ide_devices, j>>

DriveFlushes(d) ==
    /\ drv[d].busy /\ drv[d].job.cmd = "flush"
    /\ Settle(d, 0, FALSE, NoJob)
    /\ UNCHANGED <<machine, pc, call, moved, regs, ide_devices, j>>

DriveAnswers(d) == DriveFails(d) \/ DriveReady(d) \/ DriveStores(d) \/ DriveFlushes(d)

------------------------------------------------------------------------------
(* ide_init.  It ends with the primary channel: the loop that prints the   *)
(* devices reuses the counter of the loop over the channels.               *)

\* Mutant of NextDrive: the slave is forgotten.
NoNextDrive == j' = 0 /\ pc' = "idle"

NextDrive == IF j = 0 THEN j' = 1 /\ pc' = "ata_select" ELSE j' = 0 /\ pc' = "idle"

ide_init_select ==
    LET d == IF Listening(regs.sel) THEN j ELSE regs.sel
    IN  /\ pc = "ata_select"
        /\ regs' = [regs EXCEPT !.sel = d]
        /\ Command(d, Job("identify", 0, 0, FALSE, FALSE))
        /\ pc' = "ata_identify"
        /\ UNCHANGED <<machine, call, moved, ide_devices, j>>

\* The status is 0, or that of a bus with nothing on it.
ide_init_nothing ==
    /\ pc = "ata_identify" /\ ~Present(regs.sel)
    /\ NextDrive
    /\ UNCHANGED <<machine, call, moved, regs, drv, ide_devices>>

\* An error: it may be an ATAPI drive, which shows its signature.
ide_init_error ==
    /\ pc = "ata_identify" /\ Present(regs.sel)
    /\ ~drv[regs.sel].busy /\ drv[regs.sel].err
    /\ IF machine.drive[regs.sel] = "atapi"
       THEN /\ Command(regs.sel, Job("identify_packet", 0, 0, FALSE, FALSE))
            /\ pc' = "ata_packet" /\ UNCHANGED j
       ELSE NextDrive /\ UNCHANGED drv
    /\ UNCHANGED <<machine, call, moved, regs, ide_devices>>

\* What count words read from the data register leave pending.
Unread(left, count) == IF left > count THEN left - count ELSE 0

\* insl reads one word less than it is asked for.
insl(count) == count - 1

\* After IDENTIFY the data is waited for; after IDENTIFY PACKET only for one
\* tick.  What is not read from the drive's answer is arbitrary.
ide_init_read ==
    LET d == regs.sel
        answered == drv[d].left = Quads
    IN  /\ pc \in {"ata_identify", "ata_packet"} /\ Present(d)
        /\ pc = "ata_identify" => ~drv[d].busy /\ drv[d].left > 0
        /\ drv' = [drv EXCEPT ![d].left = Unread(@, insl(Quads))]
        /\ \E size \in {0, Capacity[machine.drive[d]]}, flat \in BOOLEAN :
               /\ answered => /\ size = Capacity[machine.drive[d]]
                              /\ flat = (machine.drive[d] \in {"lba28", "lba48"})
               /\ ide_devices' = Append(ide_devices, [drive |-> j, flat |-> flat, size |-> size])
        /\ NextDrive
        /\ UNCHANGED <<machine, call, moved, regs>>

ide_init == ide_init_select \/ ide_init_nothing \/ ide_init_error \/ ide_init_read

------------------------------------------------------------------------------
(* ide_ata_access.                                                         *)

\* Mutant of LbaMode: off by one.
LbaModeAbove(lba, flat) ==
    IF lba > Nibble * Weight(3) THEN "lba48" ELSE IF flat THEN "lba28" ELSE "chs"

LbaMode(lba, flat) ==
    IF lba >= Nibble * Weight(3) THEN "lba48" ELSE IF flat THEN "lba28" ELSE "chs"

\* The low half of the drive register.
DriveHead(mode, lba) ==
    CASE mode = "lba48" -> 0
      [] mode = "lba28" -> Digit(lba, 3) % Nibble
      [] mode = "chs"   ->
            ((lba - (lba % SectorsPerTrack)) % (Nibble * SectorsPerTrack)) \div SectorsPerTrack

\* lba_io, the low three of them.
LowDigits(mode, lba) ==
    LET sect == (lba % SectorsPerTrack) + 1
        cyl == (lba + 1 - sect) \div (Nibble * SectorsPerTrack)
    IN  IF mode = "chs" THEN <<sect, Digit(cyl, 0), Digit(cyl, 1)>>
        ELSE <<Digit(lba, 0), Digit(lba, 1), Digit(lba, 2)>>

\* drive is the index of an entry of ide_devices.
ide_ata_access(op, drive, lba, count) ==
    /\ Begin("ata_wait", Request(op, drive, lba, count))
    /\ UNCHANGED <<machine, regs, drv, ide_devices, j>>

Unit == ide_devices[call.unit + 1].drive

\* The registers of the channel once unit d has been selected and they are written.
Params(mode, d) ==
    LET low == LowDigits(mode, call.lba)
    IN  [sel |-> d, flat |-> mode # "chs", head |-> DriveHead(mode, call.lba),
         cur |-> <<call.count, low[1], low[2], low[3]>>,
         prev |-> IF mode = "lba48" THEN <<0, Digit(call.lba, 3), 0, 0>> ELSE regs.cur]

send_params ==
    LET mode == LbaMode(call.lba, ide_devices[call.unit + 1].flat)
        d == IF Listening(regs.sel) THEN Unit ELSE regs.sel
        new == Params(mode, d)
    IN  /\ pc = "ata_wait" /\ ~drv[regs.sel].busy
        /\ regs' = IF Listening(regs.sel) THEN new ELSE regs
        /\ Command(d, Job(call.op, Address(new, mode = "lba48"), call.count,
                          mode = "lba48", mode # "chs"))
        /\ pc' = "ata_poll"
        /\ call' = [call EXCEPT !.taken = Hears(d)]
        /\ UNCHANGED <<machine, moved, ide_devices, j>>

\* ide_polling(channel, 0) waits for this; the status is the selected drive's.
Polled == pc = "ata_poll" /\ ~drv[regs.sel].busy

read_error ==
    /\ Polled /\ call.op = "read"
    /\ drv[regs.sel].err \/ drv[regs.sel].left = 0
    /\ Return("error")
    /\ UNCHANGED <<machine, moved, ata_vars>>

read_sector ==
    LET d == regs.sel
        wanted == drv[d].left = Quads /\ drv[d].job.cmd = "read"
        next == NextSector(drv[d].job)
    IN  /\ Polled /\ call.op = "read"
        /\ ~drv[d].err /\ drv[d].left > 0
        /\ moved' = Append(moved, IF wanted THEN drv[d].job.lba ELSE NoData)
        /\ drv' = [drv EXCEPT ![d].left = 0,
                              ![d].busy = wanted /\ next # NoJob,
                              ![d].job = IF wanted THEN next ELSE NoJob]
        /\ IF Len(moved') = call.count THEN Return("ok") ELSE UNCHANGED <<pc, call>>
        /\ UNCHANGED <<machine, regs, ide_devices, j>>

\* Errors are not looked at.  The last sector is followed by the command to
\* flush the cache, without waiting: a drive that stores data is busy.
write_sector ==
    LET d == regs.sel
        wanted == drv[d].left > 0 /\ drv[d].job.cmd = "write"
        last == call.sent + 1 = call.count
    IN  /\ Polled /\ call.op = "write"
        /\ IF wanted
           THEN drv' = [drv EXCEPT ![d].left = 0, ![d].busy = TRUE, ![d].job.cmd = "store"]
           ELSE IF last THEN Command(d, Job("flush", 0, 0, FALSE, FALSE)) ELSE UNCHANGED drv
        /\ call' = [call EXCEPT !.sent = @ + 1]
        /\ pc' = IF last THEN "ata_flush" ELSE "ata_poll"
        /\ UNCHANGED <<machine, moved, regs, ide_devices, j>>

write_returns ==
    /\ pc = "ata_flush" /\ ~drv[regs.sel].busy
    /\ Return("ok")
    /\ UNCHANGED <<machine, moved, ata_vars>>

AtaStep == ide_init \/ send_params \/ read_error \/ read_sector \/ write_sector \/ write_returns

==============================================================================
