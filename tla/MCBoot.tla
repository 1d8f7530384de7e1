------------------------------- MODULE MCBoot --------------------------------
EXTENDS Boot, TLC

MCDevicesPerBus == 2
MCFunctions == 3

\* The device d of bus b: absent, or with functions of these classes, the
\* later ones only if it is a multi-function device.
Device(b, d, first, others) ==
    LET rest == [1 .. MCFunctions - 1 -> others \cup {"none"}]
        Build(c, m, r) ==
            [p \in {<<b, d, f>> : f \in {0} \cup {g \in DOMAIN r : m /\ r[g] # "none"}} |->
                [class |-> IF p[3] = 0 THEN c ELSE r[p[3]], multi |-> m]]
    IN  {<<>>} \cup {Build(c, m, r) : c \in first, m \in BOOLEAN, r \in rest}

\* A host controller or none, a device next to it, and one on the next bus.
MCMachines ==
    {h @@ d @@ e :
        h \in Device(0, 0, {"other"}, {"other"}),
        d \in Device(0, 1, {"0106", "0101", "other"}, {"0101"}),
        e \in {<<>>, <<1, 0, 0>> :> [class |-> "0101", multi |-> FALSE]}}
==============================================================================
