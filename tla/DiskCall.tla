------------------------------ MODULE DiskCall -------------------------------
(***************************************************************************)
(* What the two disk drivers share: the one processor that runs them, the  *)
(* call it is in, and the machine, which never changes.  Drivers poll: a   *)
(* call occupies the processor until it returns.  Registers hold less      *)
(* than a sector number, which is sent and understood digit by digit.      *)
(***************************************************************************)
EXTENDS Integers, Sequences, FiniteSets

CONSTANTS
    Machines,           \* see Machine below
    Capacity,           \* the sectors of a drive of each kind
    Byte,               \* 256: the values of a register of a drive
    Nibble,             \* 16: the heads, and the values of half a register
    SectorsPerTrack,    \* 63
    Quads               \* the 32-bit words of a sector: 128

VARIABLES
    machine,    \* the hardware: an element of Machines
    pc,         \* where the processor is
    call,       \* the request to a driver, and its result
    moved       \* history: the sectors the drive read or stored for this call

Word == Byte * Byte * Byte * Byte       \* a sector number is a uint32_t

Drives == 0 .. 1                        \* the master and the slave of a channel
DriveKinds == {"none", "chs", "lba28", "lba48", "atapi"}
PortKinds == {"none", "sata", "satapi"}

\* port: what is on each port of the AHCI controller (one without any ports
\* stands for no controller); ncs: its number of command slots, less one;
\* drive: what is on the primary IDE channel; deaf: whether a drive with data
\* pending does not take commands (the standard leaves it open); heeds: whether
\* the AHCI controller goes by the direction in the header of a command, or by
\* the command itself.
IsMachine(m) ==
    /\ IsFiniteSet(DOMAIN m.port)
    /\ m.port \in [0 .. Cardinality(DOMAIN m.port) - 1 -> PortKinds]
    /\ m.ncs \in Nat
    /\ m.drive \in [Drives -> DriveKinds]
    /\ m.deaf \in BOOLEAN
    /\ m.heeds \in BOOLEAN

ASSUME DiskAssumption ==
    /\ \A m \in Machines : IsMachine(m)
    /\ Capacity \in [DriveKinds -> Nat]
    /\ {Byte, Nibble, Quads} \subseteq Nat \ 0 .. 1
    /\ SectorsPerTrack \in 1 .. Byte - 1

\* What may be moved, besides sectors.
Identification == -1
NoData == -2

\* What one counts for in digit k, the lowest being digit 0.
Weight(k) ==
    CASE k = 0 -> 1
      [] k = 1 -> Byte
      [] k = 2 -> Byte * Byte
      [] k = 3 -> Byte * Byte * Byte

Digit(n, k) == (n \div Weight(k)) % Byte

\* The number with the given digits, up to six, the lowest first.
Number(digits) ==
    LET d(k) == IF k \in DOMAIN digits THEN digits[k] ELSE 0
    IN  d(1) + Byte * (d(2) + Byte * (d(3) + Byte * (d(4) + Byte * (d(5) + Byte * d(6)))))

Operations == {"read", "write", "identify"}

\* sent: the sectors handed to the drive; failed: the hardware reported an
\* error; taken: it took the command.
Request(op, unit, lba, count) ==
    [op |-> op, unit |-> unit, lba |-> lba, count |-> count, sent |-> 0,
     failed |-> FALSE, taken |-> TRUE, result |-> "none"]

Begin(where, request) == pc' = where /\ call' = request /\ moved' = <<>>

Return(result) == pc' = "returned" /\ call' = [call EXCEPT !.result = result]

\* What a call that succeeds has moved.
Asked == IF call.op = "identify" THEN <<Identification>>
         ELSE [k \in 1 .. call.count |-> call.lba + k - 1]

==============================================================================
