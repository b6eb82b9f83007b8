\* The key ExitBootServices is called with.
CONSTANTS
    MemPages = 9
    LimitPage = 6
    FirmwareMaps <- MCFirmwareMaps
    Images <- MCImages
    StackHeaders <- MCStackHeaders
    IndexRange = 5
    DescriptorSizes = {5, 6}
    SizeOf = 5
    MaxDisplays = 2
    MaxRows = 2
SPECIFICATION Spec
INVARIANT
    BootServicesEnded
