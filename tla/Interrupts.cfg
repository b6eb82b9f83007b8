\* Timer, keyboard, and two devices on the second controller.
CONSTANTS
    SwapPeriod = 2
    Devices = {0, 4}
SPECIFICATION Spec
INVARIANTS
    TypeOK
    NothingLeftInService
    EveryReadIsFresh
PROPERTIES
    NoWrongGate
    KeysAreRead
