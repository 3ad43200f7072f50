SPECIFICATION Spec
CONSTANTS
    Byte = {0, 1}
    Space = 10
    SramSize = 10
    Base = 1
    StackPointer = 8
    StackRoom = 2
    WordLen = 2
    GlobalInit <- OneGlobal
    TempSpace = 5
    DirectRange = 8
    OffsetByte = 10
    OffsetNear = 3
    Wides <- OneWide
    Layouts <- AnyLayout
    HeapBase = 6
    Liberties = {}
INVARIANTS TypeOK MemoryAgrees GlobalsAgree StackIntact
PROPERTIES BoundsHold HostKept
CHECK_DEADLOCK FALSE
