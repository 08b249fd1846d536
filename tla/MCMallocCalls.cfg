SPECIFICATION FairSpec
CONSTANTS
    Word = 32
    LoadAddrs = {8}
    StackPointers = {20, 29}
    Requests = {}
    Root = 4
    BrkSize = 2
    MallocSizes = {4, 28}
    ReallocSizes = {0, 6}
    CallocSizes <- MCCallocSizes
    SbrkSizes = {3}
    UserValues = {31}
INVARIANTS TypeOK BlocksDisjoint RingOrdered HolesApart NothingLost
PROPERTIES IsAnAllocator GrowsOnlyWhenFull CallsReturn
