SPECIFICATION TreeSpec
CONSTANTS
    Keys = {1, 2, 3, 4, 5, 6}
    Nodes = {n1, n2, n3, n4, n5, n6}
    Nil = nil
    Scarce = TRUE
INVARIANTS WalksInOrder
PROPERTIES IsAnOrderedSet
SYMMETRY Addresses
