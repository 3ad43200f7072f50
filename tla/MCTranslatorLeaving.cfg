SPECIFICATION Spec
CONSTANTS
    Shapes <- Leaving
    Imports <- ImportTypes
    Answer <- ImportAnswer
    Modulus = 2
    Fuel = 5
    Junk = 99
    MaxNesting = 2
    Liberties = {"dead"}
INVARIANT BalancedBlocks
CHECK_DEADLOCK FALSE
