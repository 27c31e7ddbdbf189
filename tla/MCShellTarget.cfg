CONSTANTS
    Characters <- MCCharacters
    Host <- MCHost
    Lines <- MCLines
    Slots = 5
    HeaderSize = 7
    IntSize = 1
    NameSize = 3
    NodeNameSize = 5
    Location = 20
    Fresh = "nul"
    BufSize = 8
    Spare = 3
    InternalSize = 11
    ReadSize = 11
SPECIFICATION Spec
PROPERTY WritesToNamed
CHECK_DEADLOCK FALSE
