-------------------------------- MODULE Pci ----------------------------------
(***************************************************************************)
(* The scan of the PCI buses (drivers/pci.c) and the two drivers' search   *)
(* of its list (drivers/ahci.c, drivers/ata.c).  The machine's functions   *)
(* are external: config maps the place of each to its class and to the     *)
(* multi-function bit of its header; a place outside its domain answers    *)
(* every read with ones.                                                   *)
(***************************************************************************)
EXTENDS Integers, Sequences, FiniteSets, FiniteSetsExt, SequencesExt

CONSTANTS
    DEVICE_PER_BUS,     \* 32 in the code
    FUNCTIONS,          \* functions of a device, and host controllers: 8
    Classes, SATA, IDE, \* class and subclass of a function: 0x0106, 0x0101
    Machines            \* the values that config may have

VARIABLES
    config,
    device_list,        \* the functions found, in order
    bus, device,        \* the counters of the loops
    function,
    sata, ide           \* the controllers that the drivers took, or <<>>

pci_vars == <<config, device_list, bus, device, function, sata, ide>>

Functions == 0 .. FUNCTIONS - 1
Places == Functions \X (0 .. DEVICE_PER_BUS - 1) \X Functions

\* What the standard asks of a machine: a device has its function 0, and
\* others only with the multi-function bit.
Conforms(m) ==
    \A p \in DOMAIN m :
        p[3] # 0 => LET f0 == <<p[1], p[2], 0>>
                    IN  f0 \in DOMAIN m /\ m[f0].multi

ASSUME PciAssumption ==
    /\ DEVICE_PER_BUS \in Nat \ {0} /\ FUNCTIONS \in Nat \ {0}
    /\ {SATA, IDE} \subseteq Classes /\ SATA # IDE
    /\ \A m \in Machines :
          /\ DOMAIN m \subseteq Places
          /\ \A p \in DOMAIN m : m[p] \in [class : Classes, multi : BOOLEAN]
          /\ Conforms(m)

\* The machine is chosen when it is first looked at.
PciInit ==
    /\ config = <<>>
    /\ device_list = <<>> /\ bus = 0 /\ device = 0 /\ function = 0
    /\ sata = <<>> /\ ide = <<>>

------------------------------------------------------------------------------
\* pci_read_vendor(...) != 0xffff
Present(p) == p \in DOMAIN config

\* pci_read_header_type(...) & 0x80
Multi(p) == Present(p) => config[p].multi

Here == <<bus, device, function>>

\* Mutant of LastFunction: the loop ends one function early.
LastFunctionEarly == function + 2 = FUNCTIONS

\* for(function = 1; function < 8; function++) is at its end.
LastFunction == function + 1 = FUNCTIONS

\* Without a first function, or with that one only, a device has no others.
DeviceIsDone == LastFunction \/ (function = 0 /\ ~(Present(Here) /\ Multi(Here)))

\* The host controller has one function.
SingleHost == ~Multi(<<0, 0, 0>>)

\* One host: bus 0.  Otherwise the bus of each host function in turn, and the
\* loop breaks at the first function that is present.
BusIsNext ==
    /\ device = 0 /\ function = 0
    /\ IF SingleHost THEN bus = 0
       ELSE bus < FUNCTIONS /\ ~Present(<<0, 0, bus>>)

Machine ==
    /\ config' \in Machines
    /\ UNCHANGED <<device_list, bus, device, function, sata, ide>>

\* Within a bus, or at the beginning of one.
MoreToCheck == device > 0 \/ function > 0 \/ BusIsNext

\* pci_check_device visits a function and lists it if it is there
\* (pci_check_function).  Bridges are listed like any other function, the bus
\* behind them is not scanned.
pci_check_device ==
    /\ MoreToCheck
    /\ device_list' = IF Present(Here) THEN Append(device_list, Here) ELSE device_list
    /\ IF DeviceIsDone
       THEN /\ function' = 0
            /\ device' = (device + 1) % DEVICE_PER_BUS
            /\ bus' = IF device' = 0 THEN bus + 1 ELSE bus
       ELSE function' = function + 1 /\ UNCHANGED <<bus, device>>
    /\ UNCHANGED <<config, sata, ide>>

\* The first function listed with this class; the zeros behind the list have
\* no class that is looked for.
Lookup(class) ==
    LET matches == {k \in DOMAIN device_list : config[device_list[k]].class = class}
    IN  IF matches = {} THEN <<>> ELSE device_list[Min(matches)]

find_sata ==
    /\ sata' = Lookup(SATA)
    /\ UNCHANGED <<config, device_list, bus, device, function, ide>>

find_ide ==
    /\ ide' = Lookup(IDE)
    /\ UNCHANGED <<config, device_list, bus, device, function, sata>>

------------------------------------------------------------------------------
\* The order in which the places of a bus are visited.
Earlier(p, q) == p[2] < q[2] \/ (p[2] = q[2] /\ p[3] < q[3])

OnBus0(class) == {p \in DOMAIN config : p[1] = 0 /\ config[p].class \in class}

\* The driver has the first controller of its class, if there is one.
IsFirst(p, class) ==
    IF OnBus0({class}) = {} THEN p = <<>>
    ELSE /\ p \in OnBus0({class})
         /\ \A q \in OnBus0({class}) : q = p \/ Earlier(p, q)
==============================================================================
