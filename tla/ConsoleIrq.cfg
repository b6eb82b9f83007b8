\* Letters and Enter interrupt the main line; a screen of 2 x 2.
CONSTANTS
    ScreenWidth = 2
    ScreenHeight = 2
    PortRange = 2
    Letters = {"a"}
    Strings <- MCStrings
    Keys = {"a", "ENTER"}
SPECIFICATION Spec
INVARIANTS
    TypeOK
    WritesStayOnScreen
    PositionRecovers
    QuietCallsAreAtomic
PROPERTY
    CallsReturn
