------------------------------- MODULE MCDisk --------------------------------
(* Small drives and machines for Disk.                                      *)
EXTENDS Disk, TLC

\* Of registers with 3 values and half registers with 2: CHS reaches 36
\* sectors, LBA28 54 and LBA48 81 (of those a uint32_t can name).
MCCapacity ==
    [none |-> 0, atapi |-> 4, chs |-> 35, lba28 |-> 54, lba48 |-> 56]

Ide(master, slave, deaf) ==
    [port |-> [p \in {} |-> "none"], ncs |-> 0, deaf |-> deaf, heeds |-> FALSE,
     drive |-> 0 :> master @@ 1 :> slave]

AhciMachine(port, ncs, heeds) ==
    [port |-> [p \in 0 .. Len(port) - 1 |-> port[p + 1]], ncs |-> ncs, deaf |-> FALSE,
     heeds |-> heeds, drive |-> 0 :> "none" @@ 1 :> "none"]

MCMachines ==
    {Ide("none", "none", FALSE), Ide("lba48", "none", FALSE), Ide("lba48", "none", TRUE),
     Ide("chs", "lba28", FALSE), Ide("lba28", "atapi", FALSE), Ide("atapi", "chs", FALSE),
     Ide("atapi", "none", FALSE), Ide("none", "lba28", TRUE),
     AhciMachine(<<"sata">>, 0, FALSE), AhciMachine(<<"satapi", "sata">>, 1, FALSE),
     AhciMachine(<<"none", "sata", "sata">>, 1, FALSE),
     AhciMachine(<<"sata">>, 2, FALSE), AhciMachine(<<"sata">>, 1, TRUE)}

==============================================================================
