\* Keys: left shift, right shift, A, and the function key F1.
CONSTANTS
    Keys = {42, 54, 30, 59}
    Callbacks = {console_keyboard, handle_key_input}
    MaxAttached = 2
    MaxCodes = 4
    None = None

SPECIFICATION Spec

INVARIANTS
    ShiftFlagsAgree
    CaseAsStruck
    LastAttachedFirst

PROPERTIES
    DeadAfterEarlyKey
    KeysAreHandled

CHECK_DEADLOCK FALSE
