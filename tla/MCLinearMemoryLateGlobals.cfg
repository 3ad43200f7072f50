SPECIFICATION Spec
CONSTANTS
    Byte = {0, 1}
    Space = 16
    SramSize = 10
    Base = 1
    StackPointer = 8
    StackRoom = 2
    WordLen = 2
    GlobalInit <- OneGlobal
    TempSpace = 3
    DirectRange = 60
    OffsetByte = 256
    OffsetNear = 30
    Wides <- NoWides
    Layouts <- TwoSegments
    HeapBase = 6
    Liberties = {}
INVARIANT GlobalsAgree
CHECK_DEADLOCK FALSE
