\* Backspace interrupts the main line as well.
CONSTANTS
    ScreenWidth = 2
    ScreenHeight = 2
    PortRange = 2
    Letters = {"a"}
    Strings <- MCStrings
    Keys = {"a", "BACKSPACE"}
SPECIFICATION Spec
INVARIANT
    WritesStayOnScreen
