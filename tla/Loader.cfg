\* The boot loader on three memory maps and ten kernel files.
CONSTANTS
    MemPages = 9
    LimitPage = 6
    FirmwareMaps <- MCFirmwareMaps
    Images <- MCImages
    StackHeaders <- MCStackHeaders
    IndexRange = 5
    DescriptorSizes = {5, 6}
    SizeOf = 5
    MaxDisplays = 2
    MaxRows = 2
SPECIFICATION Spec
INVARIANTS
    TypeOK
    ImageIsLoaded
    MapIsWhole
PROPERTY
    AlwaysEnds
