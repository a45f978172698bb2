SPECIFICATION FairSpec
CONSTANTS
    Putters = {p1, p2}
    Takers = {d1, d2}
    Items = {a, b}
    Nil = Nil
    Capacity = 2
INVARIANTS
    TypeOK
    PermitsConserved
PROPERTIES
    EveryEntryIsTaken
    ImplementsFifo
