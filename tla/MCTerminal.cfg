CONSTANTS
    Builds = {"Dec 3", "current"}
    Width = 8
    Height = 2
    Glyphs = {" ", "x"}
    Blank = " "
    Letter = "x"
    Codes = {1, 14, 15, 28, 42, 45, 57, 173}
    BufSize = 5
    Texts <- MCTexts
    Byte = 4
    MaxScrolls = 1
    MaxText = 4
    MaxTicks = 1
SPECIFICATION SpecTerminal
INVARIANTS
    CursorOnScreen
    LineAsShown
PROPERTY ImplementsPaper
CHECK_DEADLOCK FALSE
