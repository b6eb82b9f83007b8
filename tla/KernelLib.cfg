\* The library functions on eight-bit numbers and short memory and formats.
CONSTANTS
    Cells = 36
    Contents <- MCContents
    IndexWidth = 4
    MaxAmount = 15
    Places = {0, 2, 4, 9, 18}
    Width = 8
    Radixes = {2, 10, 16, 35}
    PageShift = 3
    Pieces <- MCPieces
    MaxPieces = 3
    MaxBeyond = 2
SPECIFICATION Spec
INVARIANTS
    NumbersReadBack
    HelpersAreExact
    MemoryCallsExact
    FormatsExpand
PROPERTY
    CallsReturn
