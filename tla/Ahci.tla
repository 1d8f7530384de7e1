-------------------------------- MODULE Ahci ---------------------------------
(***************************************************************************)
(* The AHCI driver (drivers/ahci.c).  The controller takes commands from a *)
(* table in memory and reports through registers that the driver polls; it *)
(* and its drives are external and run on their own.                       *)
(***************************************************************************)
EXTENDS DiskCall

CONSTANTS
    NULL,
    SpinLimit,          \* 1000000: how often a busy port is looked at
    SectorsPerEntry,    \* 16: what one entry of a PRDT describes
    EntryLimit,         \* 8192: the sectors that dbc, a field of 22 bits, can describe
    PMPorts             \* what pmport, which no caller sets, may hold

VARIABLES
    ports,      \* the port that ports[i].port points to
    nports,
    hba,        \* external: the registers and state of each port
    spin,
    slot        \* the command slot in use

ASSUME AhciAssumption ==
    /\ {SectorsPerEntry, EntryLimit} \subseteq Nat \ {0}
    /\ SpinLimit \in Nat

ahci_vars == <<ports, nports, hba, spin, slot>>

Ports == DOMAIN machine.port

NoCommand == [op |-> "none", lba |-> <<>>, count |-> 0, room |-> 0,
              pmport |-> 0, w |-> FALSE]

\* table is what the kernel put at clb; before that, clb is the firmware's.
\* The firmware may have left the port running, and the drive spinning up.
AhciInit ==
    /\ ports = [i \in Ports |-> NULL] /\ nports = 0
    /\ \E running, busy \in BOOLEAN :
          hba = [p \in Ports |->
                    [st |-> running, fre |-> running, cr |-> running, fr |-> running,
                     busy |-> busy, tfes |-> FALSE, halted |-> FALSE, ci |-> {}, current |-> NULL,
                     clb |-> "firmware", table |-> <<>>]]
    /\ spin = 0 /\ slot = 0

------------------------------------------------------------------------------
(* External: the controller.                                               *)

Update(p, port) ==
    /\ hba' = [hba EXCEPT ![p] = port]
    /\ UNCHANGED <<machine, pc, ports, nports, spin, slot>>

\* An engine that was stopped forgets its commands.
EngineStops(p) ==
    /\ ~hba[p].st /\ hba[p].cr
    /\ Update(p, [hba[p] EXCEPT !.cr = FALSE, !.halted = FALSE, !.ci = {}])
    /\ UNCHANGED <<call, moved>>

EngineStarts(p) ==
    /\ hba[p].st /\ ~hba[p].cr
    /\ Update(p, [hba[p] EXCEPT !.cr = TRUE])
    /\ UNCHANGED <<call, moved>>

ReceiverFollows(p) ==
    /\ hba[p].fre # hba[p].fr
    /\ Update(p, [hba[p] EXCEPT !.fr = hba[p].fre])
    /\ UNCHANGED <<call, moved>>

SpunUp(p) ==
    /\ hba[p].busy /\ hba[p].current = NULL
    /\ Update(p, [hba[p] EXCEPT !.busy = FALSE])
    /\ UNCHANGED <<call, moved>>

Takes(p) ==
    /\ hba[p].cr /\ ~hba[p].halted /\ ~hba[p].busy /\ hba[p].clb = "kernel"
    /\ \E s \in hba[p].ci :
          Update(p, [hba[p] EXCEPT !.busy = TRUE, !.current = s])
    /\ UNCHANGED <<call, moved>>

Lowest(a, b) == IF a < b THEN a ELSE b

\* The header of c says that its data go the other way: w is 1 for data that go
\* to the drive.  A controller that heeds it neither sends nor stores them.
Misdirected(c) == machine.heeds /\ ~(c.w <=> c.op = "write")

\* Whether c reaches its drive: there is no port multiplier.
Reaches(c) == c.pmport = 0 /\ ~Misdirected(c)

\* The sectors that command c moves: as many as its PRDT has room for.
Served(c) ==
    IF ~Reaches(c) THEN <<>>
    ELSE IF c.op = "identify" THEN <<Identification>>
    ELSE [k \in 1 .. Lowest(c.count, c.room) |-> Number(c.lba) + k - 1]

InRange(c) ==
    c.op \in {"read", "write"} => Number(c.lba) + c.count <= Capacity["lba48"]

Completes(p) ==
    /\ hba[p].current # NULL
    /\ InRange(hba[p].table[hba[p].current])
    /\ moved' = moved \o Served(hba[p].table[hba[p].current])
    /\ Update(p, [hba[p] EXCEPT !.busy = FALSE, !.current = NULL, !.ci = @ \ {hba[p].current}])
    /\ UNCHANGED call

\* By the standard the port halts and the command stays outstanding; some
\* controllers go on.
Fails(p) ==
    /\ hba[p].current # NULL
    /\ \E halts \in BOOLEAN :
          Update(p, [hba[p] EXCEPT !.busy = FALSE, !.current = NULL, !.tfes = TRUE,
                        !.halted = halts, !.ci = IF halts THEN @ ELSE @ \ {hba[p].current}])
    /\ call' = [call EXCEPT !.failed = TRUE]
    /\ UNCHANGED moved

Controller(p) ==
    \/ EngineStops(p) \/ EngineStarts(p) \/ ReceiverFollows(p) \/ SpunUp(p)
    \/ Takes(p) \/ Completes(p) \/ Fails(p)

------------------------------------------------------------------------------
(* init_ahci.                                                              *)

\* Drives that are there and awake, other than ATAPI and the like.
check_type(p) == machine.port[p] = "sata"

probe_ports ==
    /\ pc = "init_ahci"
    /\ ports' = [i \in Ports |-> IF check_type(i) THEN i ELSE NULL]
    /\ nports' = Cardinality({i \in Ports : check_type(i)})
    /\ pc' = "init_loop"
    /\ UNCHANGED <<machine, call, moved, hba, spin, slot>>

\* Only the first nports entries are looked at, and only one drive is set up.
Usable == {i \in Ports : i < nports /\ ports[i] # NULL}

init_nothing ==
    /\ pc = "init_loop" /\ Usable = {}
    /\ pc' = "ata_select"
    /\ UNCHANGED <<machine, call, moved, ahci_vars>>

stop_cmd ==
    LET i == CHOOSE i \in Usable : \A k \in Usable : i <= k
    IN  /\ pc = "init_loop" /\ Usable # {}
        /\ Begin("stop_wait", Request("identify", ports[i], 0, 1))
        /\ hba' = [hba EXCEPT ![ports[i]].st = FALSE, ![ports[i]].fre = FALSE]
        /\ UNCHANGED <<machine, ports, nports, spin, slot>>

Stopped(port) == ~port.fr /\ ~port.cr

\* The first command slot is number 0; the mask keeps four bits of ncs.
Slots == 0 .. machine.ncs

port_rebase ==
    /\ pc = "stop_wait" /\ Stopped(hba[call.unit])
    /\ hba' = [hba EXCEPT ![call.unit].clb = "kernel",
                          ![call.unit].table = [s \in Slots |-> NoCommand]]
    /\ pc' = "start_wait"
    /\ UNCHANGED <<machine, call, moved, ports, nports, spin, slot>>

\* ahci_identify follows: its call was prepared by stop_cmd.
start_cmd ==
    /\ pc = "start_wait" /\ ~hba[call.unit].cr
    /\ hba' = [hba EXCEPT ![call.unit].fre = TRUE, ![call.unit].st = TRUE]
    /\ pc' = "send_command"
    /\ UNCHANGED <<machine, call, moved, ports, nports, spin, slot>>

------------------------------------------------------------------------------
(* ahci_read, ahci_write and ahci_identify, which differ in the command,   *)
(* and send_command.                                                       *)

ahci_access(op, port, lba, count) ==
    /\ Begin("send_command", Request(op, port, lba, count))
    /\ UNCHANGED <<machine, ahci_vars>>

Port == hba[call.unit]

\* Bits 11:8 of CAP, taken for the number of slots.
cmdslots == machine.ncs % 16

FreeSlots == {s \in 0 .. cmdslots - 1 : s \notin Port.ci}

\* Mutant of ClearInterrupts: the bits of the last command stay.
KeepInterrupts == hba' = hba

ClearInterrupts == hba' = [hba EXCEPT ![call.unit].tfes = FALSE]

find_cmdslot ==
    /\ pc = "send_command"
    /\ ClearInterrupts
    /\ spin' = 0
    /\ IF FreeSlots = {}
       THEN Return("no slot") /\ UNCHANGED slot
       ELSE /\ slot' = CHOOSE s \in FreeSlots : \A t \in FreeSlots : s <= t
            /\ pc' = "fill" /\ UNCHANGED call
    /\ UNCHANGED <<machine, moved, ports, nports>>

\* What the PRDT for count sectors has room for.  Of the last entry dbc is one
\* less than its bytes; with none left to describe it wraps.
Room(count) ==
    LET full == count \div SectorsPerEntry
        rest == count % SectorsPerEntry
    IN  full * SectorsPerEntry + (IF rest = 0 THEN EntryLimit ELSE rest)

\* The header's w is cleared whatever the command is: "Read from device".
fill_slot ==
    /\ pc = "fill"
    /\ \E pm \in PMPorts :
          LET c == [op |-> call.op, lba |-> [k \in 1 .. 4 |-> Digit(call.lba, k - 1)],
                    count |-> call.count, room |-> Room(call.count),
                    pmport |-> pm, w |-> FALSE]
          IN  hba' = [hba EXCEPT ![call.unit].table[slot] = c]
    /\ pc' = "spin"
    /\ UNCHANGED <<machine, call, moved, ports, nports, spin, slot>>

spin_busy ==
    /\ pc = "spin" /\ Port.busy /\ spin < SpinLimit
    /\ spin' = spin + 1
    /\ UNCHANGED <<machine, pc, call, moved, ports, nports, hba, slot>>

hung ==
    /\ pc = "spin" /\ spin = SpinLimit
    /\ Return("hung")
    /\ UNCHANGED <<machine, moved, ahci_vars>>

issue ==
    /\ pc = "spin" /\ ~Port.busy /\ spin < SpinLimit
    /\ hba' = [hba EXCEPT ![call.unit].ci = @ \union {slot}]
    /\ pc' = "poll_ci"
    /\ UNCHANGED <<machine, call, moved, ports, nports, spin, slot>>

poll_ci ==
    /\ pc = "poll_ci"
    /\ pc' = IF slot \in Port.ci THEN "poll_is" ELSE "check"
    /\ UNCHANGED <<machine, call, moved, ahci_vars>>

\* Mutant of poll_is: only completion ends the wait.
poll_isBlind ==
    /\ pc = "poll_is"
    /\ pc' = "poll_ci"
    /\ UNCHANGED <<machine, call, moved, ahci_vars>>

poll_is ==
    /\ pc = "poll_is"
    /\ IF Port.tfes THEN Return("error") ELSE pc' = "poll_ci" /\ UNCHANGED call
    /\ UNCHANGED <<machine, moved, ahci_vars>>

\* Mutant of check_again: what is not outstanding has succeeded.
check_nothing ==
    /\ pc = "check"
    /\ Return("ok")
    /\ UNCHANGED <<machine, moved, ahci_vars>>

check_again ==
    /\ pc = "check"
    /\ Return(IF Port.tfes THEN "error" ELSE "ok")
    /\ UNCHANGED <<machine, moved, ahci_vars>>

AhciStep ==
    \/ probe_ports \/ init_nothing \/ stop_cmd \/ port_rebase \/ start_cmd
    \/ find_cmdslot \/ fill_slot \/ spin_busy \/ hung \/ issue
    \/ poll_ci \/ poll_is \/ check_again

==============================================================================
