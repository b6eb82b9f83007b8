\* A screen of three rows and three columns; a port holds two bits.
CONSTANTS
    ScreenWidth = 3
    ScreenHeight = 3
    PortRange = 4
    Letters = {"a", "b"}
    Strings <- MCStrings
SPECIFICATION Spec
INVARIANT
    TypeOK
PROPERTIES
    CursorFollows
    ImplementsTerminal
