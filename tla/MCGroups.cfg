SPECIFICATION Spec
CONSTANTS
    Shapes <- SomeFunctions
    Junk = 170
    wasm_mem_space = 1016
    EntrySP = 4200
    Linear <- SomeBytes
INVARIANTS TypeOK OperandsAgree VariablesAgree FrameKept StoresAgree CallsFound
CHECK_DEADLOCK FALSE
