\* Both shift keys, caps lock, two letters and the special keys.
CONSTANT
    Keys <- MCKeys
SPECIFICATION Spec
INVARIANTS
    TypeOK
    NoShiftLeftOver
    CapitalsAreRight
