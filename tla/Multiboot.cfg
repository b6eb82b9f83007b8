\* The boot information below and behind kernel_end.
CONSTANTS
    Infos <- MCInfos
    Places <- MCPlaces
    HalfRange = 1000
    TypeRange = 100
    LowMemory = 50
    Addresses <- MCAddresses
SPECIFICATION Spec
INVARIANTS
    TypeOK
    RangesRecorded
    EveryTagHandled
    HandedOver
PROPERTY
    StartsUp
