SPECIFICATION Spec
CONSTANTS
    Shapes <- Modules
    Imports <- ImportTypes
    Answer <- ImportAnswer
    Modulus = 3
    Fuel = 5
    Junk = 99
    MaxNesting = 2
    Liberties = {}
INVARIANTS TypeOK StackTopIsHeight CodeMeansProgram OptimisedMeansProgram
CHECK_DEADLOCK FALSE
