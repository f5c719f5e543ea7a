CONSTANTS
    Keys = {1, 2, 3, 4, 5, 6, 7, 8}
    Twice = {4}
SPECIFICATION Spec
INVARIANTS
    RedBlack
    WalksAndFinds
PROPERTIES
    ImplementsRegistry
