------------------------------ MODULE Keyboard -------------------------------
(***************************************************************************)
(* From a key struck to the callbacks that are told of it: the keyboard    *)
(* and its controller (hardware, outside the code), the interrupt          *)
(* dispatcher (interrupts/handlers.c), the decoder (drivers/keyboard.c)    *)
(* and the kernel's boot, which installs the handler with interrupts       *)
(* already enabled and attaches callbacks while keys are struck.           *)
(***************************************************************************)
EXTENDS Integers, Sequences

CONSTANTS
    Keys,           \* the scan codes of the keys that are struck
    Callbacks,      \* what may be attached
    MaxAttached,    \* bound on the callbacks attached
    MaxCodes,       \* bound on the scan codes sent
    None

VARIABLES
    pressed,        \* the keys held down
    wire,           \* scan codes that the controller has still to offer
    port,           \* the code in the controller's output buffer (port 0x60)
    irq,            \* interrupt 1 is latched and not yet served
    sent,           \* scan codes sent so far
    installed,      \* handlers[IRQ1] is set
    holding_lshift,
    holding_rshift,
    callbacks,
    callback_end,
    attaching,      \* the callback that attach_keyboard stores, or None
    info,           \* what the last interrupt told the callbacks
    called,         \* the callbacks it called, in order
    early           \* history: an interrupt came before the handler was set

hardware == <<pressed, wire, port, irq, sent>>
shifts   == <<holding_lshift, holding_rshift>>
table    == <<callbacks, callback_end, attaching>>
vars     == <<hardware, installed, shifts, table, info, called, early>>

KEY_MAX == 58
RELEASE_OFFSET == 128
L_SHIFT == 42
R_SHIFT == 54
L_SHIFT_RELEASE == L_SHIFT + RELEASE_OFFSET
R_SHIFT_RELEASE == R_SHIFT + RELEASE_OFFSET

\* The entries of keys_lower and keys_upper that hold 0: escape, backspace, tab,
\* enter, the control keys and entry 0.
NoCharacter == {0, 1, 14, 15, 28, 29, 42, 54, 55, 56}

ASSUME KeyboardAssumption ==
    /\ Keys \subseteq 1 .. RELEASE_OFFSET - 1
    /\ None \notin Callbacks
    /\ None \notin [code : 1 .. 2 * RELEASE_OFFSET - 1, shifted : BOOLEAN]
    /\ MaxAttached \in Nat /\ MaxCodes \in Nat

Init ==
    /\ pressed = {} /\ wire = <<>> /\ port = None /\ irq = FALSE /\ sent = 0
    /\ installed = FALSE
    /\ holding_lshift = FALSE /\ holding_rshift = FALSE
    /\ callbacks = [i \in 1 .. MaxAttached |-> None]
    /\ callback_end = 0
    /\ attaching = None
    /\ info = None /\ called = <<>>
    /\ early = FALSE

------------------------------------------------------------------------------
(* The hardware.  A code carries the state of the shift keys at the moment  *)
(* it was sent; the program sees the code alone.                            *)

Shifted(keys) == keys \cap {L_SHIFT, R_SHIFT} # {}

Send(code) ==
    /\ sent < MaxCodes /\ sent' = sent + 1
    /\ wire' = Append(wire, [code |-> code, shifted |-> Shifted(pressed')])
    /\ UNCHANGED <<port, irq, installed, shifts, table, info, called, early>>

\* A key that is held down repeats its code.
Press(k)   == pressed' = pressed \cup {k} /\ Send(k)

Release(k) == k \in pressed /\ pressed' = pressed \ {k} /\ Send(k + RELEASE_OFFSET)

\* The output buffer holds one code; a code that enters it raises interrupt 1.
Offer ==
    /\ wire # <<>> /\ port = None
    /\ port' = Head(wire) /\ wire' = Tail(wire)
    /\ irq' = TRUE
    /\ UNCHANGED <<pressed, sent, installed, shifts, table, info, called, early>>

------------------------------------------------------------------------------
(* The boot.                                                                *)

init_keyboard ==
    /\ ~ installed /\ installed' = TRUE
    /\ UNCHANGED <<hardware, shifts, table, info, called, early>>

\* attach_keyboard stores the callback, then counts it.  The code has no test
\* for a full table: its callbacks[] has 256 entries, and what the next call
\* would write over is not modelled; MaxAttached only ends the exploration.
attach_keyboard(callback) ==
    /\ installed
    /\ attaching = None
    /\ callback_end < MaxAttached
    /\ callbacks' = [callbacks EXCEPT ![callback_end + 1] = callback]
    /\ attaching' = callback
    /\ UNCHANGED <<hardware, installed, shifts, callback_end, info, called, early>>

attach_returns ==
    /\ attaching # None
    /\ callback_end' = callback_end + 1
    /\ attaching' = None
    /\ UNCHANGED <<hardware, installed, shifts, callbacks, info, called, early>>

------------------------------------------------------------------------------
(* The interrupt.                                                           *)

\* The entry of the table that handle_key reads for a scan code.
Index(c) == IF c > KEY_MAX THEN c - RELEASE_OFFSET ELSE c

\* Whether the entry holds a character; outside the table it may hold anything.
HasCharacter(c) ==
    IF Index(c) \in 0 .. KEY_MAX - 1 THEN {Index(c) \notin NoCharacter}
                                     ELSE BOOLEAN

\* Mutant of LShift: releasing either shift key ends both.
LShiftAny(c) == CASE c = L_SHIFT -> TRUE
                  [] c \in {L_SHIFT_RELEASE, R_SHIFT_RELEASE} -> FALSE
                  [] OTHER -> holding_lshift

LShift(c) == CASE c = L_SHIFT         -> TRUE
               [] c = L_SHIFT_RELEASE -> FALSE
               [] OTHER               -> holding_lshift

\* Mutant of RShift: the release is not decoded.
RShiftSticks(c) == holding_rshift \/ c = R_SHIFT

RShift(c) == CASE c = R_SHIFT         -> TRUE
               [] c = R_SHIFT_RELEASE -> FALSE
               [] OTHER               -> holding_rshift

\* Mutant of CallOrder: *tmp-- in place of *--tmp.
CallOrderHigh == [i \in 1 .. callback_end |-> callbacks[callback_end + 2 - i]]

\* handle_callbacks goes from the last callback to the first.
CallOrder == [i \in 1 .. callback_end |-> callbacks[callback_end + 1 - i]]

\* Mutant of ReadPort: port 0x60 stays full.
PeekPort == UNCHANGED port

\* in(0x60) empties the output buffer.
ReadPort == port' = None

handle_key ==
    LET c == port.code IN
    /\ ReadPort
    /\ holding_lshift' = LShift(c)
    /\ holding_rshift' = RShift(c)
    /\ \E char \in HasCharacter(c) :
          info' = [raw      |-> c,
                   release  |-> c >= RELEASE_OFFSET,
                   modifier |-> ~ char,
                   upper    |-> char /\ (holding_lshift' \/ holding_rshift'),
                   shifted  |-> port.shifted]
    /\ called' = CallOrder
    /\ UNCHANGED early

\* Mutant of irq_handler: the dispatcher empties the port itself.
irq_handlerDrains ==
    /\ irq /\ irq' = FALSE
    /\ IF installed
       THEN handle_key
       ELSE early' = TRUE /\ port' = None /\ UNCHANGED <<shifts, info, called>>
    /\ UNCHANGED <<pressed, wire, sent, installed, table>>

\* Without a handler the dispatcher only ends the interrupt: port is not read.
irq_handler ==
    /\ irq /\ irq' = FALSE
    /\ IF installed
       THEN handle_key
       ELSE early' = TRUE /\ UNCHANGED <<port, shifts, info, called>>
    /\ UNCHANGED <<pressed, wire, sent, installed, table>>

------------------------------------------------------------------------------
Next ==
    \/ \E k \in Keys : Press(k)
    \/ \E k \in Keys : Release(k)
    \/ Offer
    \/ init_keyboard
    \/ \E callback \in Callbacks : attach_keyboard(callback)
    \/ attach_returns
    \/ irq_handler

\* The controller and the interrupt act by themselves, and the boot goes on.
Spec == /\ Init /\ [][Next]_vars
        /\ WF_vars(Offer) /\ WF_vars(irq_handler) /\ WF_vars(init_keyboard)

------------------------------------------------------------------------------
(* Properties.                                                              *)

Codes == Keys \cup {k + RELEASE_OFFSET : k \in Keys}

TypeOK ==
    /\ pressed \subseteq Keys
    /\ wire \in Seq([code : Codes, shifted : BOOLEAN])
    /\ port \in [code : Codes, shifted : BOOLEAN] \cup {None}
    /\ {irq, installed, holding_lshift, holding_rshift, early} \subseteq BOOLEAN
    /\ sent \in 0 .. MaxCodes
    /\ callbacks \in [1 .. MaxAttached -> Callbacks \cup {None}]
    /\ callback_end \in Nat
    /\ attaching \in Callbacks \cup {None}

\* When every code has been handled, the flags say which shift keys are held:
\* with two shift keys, releasing one leaves the other in force.
ShiftFlagsAgree ==
    wire = <<>> /\ port = None =>
        /\ holding_lshift <=> L_SHIFT \in pressed
        /\ holding_rshift <=> R_SHIFT \in pressed

\* A character is upper case when a shift key was down as the key was struck,
\* however late the interrupt is served.
CaseAsStruck ==
    info # None /\ ~ info.modifier => (info.upper <=> info.shifted)

\* The callbacks called are those attached, "the last attached callback" first
\* (keyboard.h:33), and none of them is an empty slot although interrupts come
\* in the middle of attach_keyboard.
LastAttachedFirst ==
    /\ TypeOK
    /\ \A i \in 1 .. Len(called) :
          /\ called[i] # None
          /\ called[i] = callbacks[Len(called) + 1 - i]

\* kernel.c:30: a key struck before init_keyboard is never read, and no
\* interrupt comes after it, so that no key is ever handled.
DeadAfterEarlyKey == [][early => UNCHANGED <<info, called>>]_vars

\* Otherwise every key struck is handled.
KeysAreHandled == (wire # <<>>) ~> (wire = <<>> /\ port = None) \/ early

==============================================================================
