CONSTANTS
    h1 = h1
    h2 = h2
    h3 = h3
    Nil = Nil
    MaxSize = 3
    Behind = 1
    Items <- MCItems
    Keys <- MCKeys
SPECIFICATION SpecArray
INVARIANTS
    TypeOKArray
    SortedUnlessResized
PROPERTIES
    PastEndUntouched
    ImplementsSortedList
