---------------------------- MODULE LinearMemory ----------------------------
(***************************************************************************)
(* The data memory a compiled program runs in: wasm_call_entry_method of    *)
(* src/src/compile.c lays it out, and the loads, stores, globals and imports*)
(* of src/src/instructions.c, memory.c and user_import.c use it.            *)
(*                                                                         *)
(* In the SRAM, from Base up: the wasm globals, the linear memory, and from *)
(* StackPointer down into it the stack of the compiled code.  A data segment*)
(* that comes first stays in flash and is read there; its addresses are     *)
(* read-only.  The compiler's heap lies inside the linear memory, for the   *)
(* program takes the place of the compiler.                                 *)
(*                                                                         *)
(* ref and globals are what WebAssembly says the memory and the globals     *)
(* hold; the program they belong to keeps within its memory and leaves room *)
(* for the stack, unless Liberties says what else it does.                 *)
(***************************************************************************)
EXTENDS Integers, Sequences, FiniteSets

CONSTANTS
    Byte,          \* the values of a cell
    Space,         \* a u16 address counts modulo this (65536)
    SramSize,      \* the cells of the SRAM
    Base,          \* ts.wasm_mem_space
    StackPointer,  \* STACK_POINTER() when the entry function is called
    StackRoom,     \* bound: how many cells deep the program's stack gets
    WordLen,       \* the cells of an i32 (4); an i64 has twice as many
    GlobalInit,    \* the initial values of the globals, words
    TempSpace,     \* ts.wasm_global_temp_space: where they are before the start
    DirectRange,   \* the offsets reached by LDD and STD with a constant (60)
    OffsetByte,    \* an offset takes two bytes from here on (256)
    OffsetNear,    \* i64.store: the offsets put into STD (30)
    Wides,         \* bound: the i64 constants of the program; none: it has no i64
    Layouts,       \* the data segments modules come with, each [start, data]
    HeapBase,      \* module_heap_base
    Liberties      \* what the program does that goes wrong: "wild", "i64", "far"

Cells == 0 .. SramSize - 1
Word  == [1 .. WordLen -> Byte]

GlobalSize == WordLen * Len(GlobalInit)
Target     == Base + GlobalSize
TempCells  == TempSpace .. TempSpace + GlobalSize - 1

\* Where the part of a module's memory begins that is in RAM: with two data
\* segments at the second, behind the only one otherwise (0 without any).
RamStart(ss) == IF Len(ss) = 0 THEN 0
                ELSE IF Len(ss) = 2 THEN ss[2].start ELSE ss[1].start + Len(ss[1].data)

\* The segments of a module that was linked for the device: they do not overlap,
\* the second fits the RAM, and the memory ends within a u16.
Fits(ss) ==
    /\ ss \in Seq([start : Nat, data : Seq(Byte)]) /\ Len(ss) <= 2
    /\ RamStart(ss) + StackPointer - Target < Space
    /\ Len(ss) = 2 => /\ ss[1].start + Len(ss[1].data) <= ss[2].start
                      /\ Target + Len(ss[2].data) <= StackPointer

ASSUME MemoryAssumption ==
    /\ {Space, SramSize, Base, StackPointer, StackRoom, TempSpace} \subseteq Nat
    /\ WordLen \in Nat \ {0} /\ HeapBase \in 0 .. Space - 1
    /\ Cardinality(Byte) \in Nat \ {0} /\ Byte = 0 .. Cardinality(Byte) - 1
    /\ Target < StackPointer - StackRoom /\ StackPointer < SramSize
    /\ GlobalInit \in Seq(Word)
    /\ TempCells \subseteq Cells
    /\ \A ss \in Layouts : Fits(ss)
    /\ Wides \subseteq [1 .. 2 * WordLen -> Byte]
    /\ Liberties \subseteq {"wild", "i64", "far"}
    /\ OffsetByte \in Nat /\ OffsetNear \in 1 .. OffsetByte /\ DirectRange \in 1 .. OffsetByte

VARIABLES
    segments,       \* the data segments of the module
    sram,           \* the data memory of the device
    areas,          \* mem_areas: the part in flash, and the part in RAM
    malloc_record,  \* the next address malloc gives out
    wide,           \* an i64 on the operand stack: the cells of both its words
    stack,          \* what the code has pushed, the first at StackPointer
    status,         \* "compiled", "run", or "break": stopped at a bad access
    ref,            \* reference: the linear memory
    globals,        \* reference: the globals
    wideRef         \* reference: the value of wide, its low word first

vars == <<segments, sram, areas, malloc_record, wide, stack, status, ref, globals, wideRef>>

Bytes(m, a, n) == [i \in 1 .. n |-> m[a + i - 1]]
Put(m, a, b)   == [x \in DOMAIN m |-> IF x \in a .. a + Len(b) - 1 THEN b[x - a + 1] ELSE m[x]]

Flash == areas[1]
Ram   == areas[2]
In(area, a) == a >= area.start /\ a < area.end
InRam == Ram.start .. Ram.end - 1

\* The word g of the initial values, cell by cell.
InitCell(k) == GlobalInit[(k \div WordLen) + 1][(k % WordLen) + 1]

Init ==
    /\ segments \in Layouts
    /\ \E junk \in Byte :
         sram = [x \in Cells |-> IF x \in TempCells THEN InitCell(x - TempSpace) ELSE junk]
    /\ areas = << [start |-> 0, end |-> 0, target |-> 0], [start |-> 0, end |-> 4096, target |-> 0] >>
    /\ malloc_record = 0 /\ stack = <<>> /\ status = "compiled"
    /\ wide = [i \in 1 .. 2 * WordLen |-> 0] /\ wideRef = wide
    /\ ref = <<>> /\ globals = GlobalInit

\* Mutant, not the code: the globals are not taken off the length.
RamAreaTooLong(from) ==
    [start |-> from, end |-> from + StackPointer - Base, target |-> Target]

\* The area in RAM ends where the stack is when the entry function is called.
RamArea(from) ==
    [start |-> from, end |-> from + StackPointer - Target, target |-> Target]

\* wasm_call_entry_method: the areas are laid out, then the data of the segment
\* in RAM and the globals are copied, in this order.  Without a data segment the
\* addresses begin at 0; one segment stays in flash and the RAM goes on behind
\* it; of two the second is in RAM.
Start ==
    LET n     == Len(segments)
        first == IF n = 0 THEN [start |-> 0, data |-> <<>>] ELSE segments[1]
        from  == RamStart(segments)
        data  == IF n = 2 THEN Put(sram, Target, segments[2].data) ELSE sram
        ram   == RamArea(from)
    IN  /\ status = "compiled"
        /\ areas' = << [start |-> first.start, end |-> first.start + Len(first.data),
                        target |-> 1], ram >>
        /\ malloc_record' = IF n = 0 THEN 0 ELSE HeapBase
        /\ sram' = Put(data, Base, Bytes(data, TempSpace, GlobalSize))
        /\ ref' = [a \in from .. ram.end - 1 |-> data[Target + a - from]]
        /\ status' = "run"
        /\ UNCHANGED <<segments, wide, stack, globals, wideRef>>

-----------------------------------------------------------------------------
\* Mutant, not the code: the globals are not stepped over.
W2NOverGlobals(a) == Base + a - Ram.start

\* addr_W2N: the cell of a linear address, unchecked.
W2N(a) == Ram.target + a - Ram.start

\* The part of the linear memory that the stack never reaches.
Owned == {a \in InRam : W2N(a) <= StackPointer - StackRoom}
Extent(a, n) == a .. a + n - 1

\* An access the program may make: inside its memory, or none of it there.
Access(a, n) ==
    \/ "wild" \in Liberties
    \/ Extent(a, n) \subseteq Owned
    \/ Extent(a, n) \subseteq Flash.start .. Flash.end - 1
    \/ a < Space /\ Extent(a, n) \cap (InRam \cup (Flash.start .. Flash.end - 1)) = {}

Running == status = "run" /\ UNCHANGED <<segments, areas>>

\* embed_i32load: the cells read at target; only its first byte is checked.
Loaded(target) ==
    [i \in 1 .. WordLen |->
        IF In(Flash, target)
        THEN LET k == Flash.target + target - Flash.start + i - 1
             IN IF k <= Len(segments[1].data) THEN segments[1].data[k] ELSE 0
        ELSE IF W2N(target) + i - 1 \in Cells THEN sram[W2N(target) + i - 1] ELSE 0]

U16(a) == a % Space

Outside(target) == ~In(Flash, target) /\ ~In(Ram, target)

\* A load changes nothing but where it stops the program: outside both areas.
Load(a) ==
    /\ Running /\ Outside(U16(a)) /\ Access(a, 1)
    /\ status' = "break"
    /\ UNCHANGED <<sram, malloc_record, wide, stack, ref, globals, wideRef>>

\* Mutant, not the code: only the read-only area is checked.
StoreUnbounded(a) == In(Flash, U16(a))

\* embed_i32store, 16 and 8: the first n cells of the value.
StoreBreaks(a) == In(Flash, U16(a)) \/ ~In(Ram, U16(a))

Store(a, n) ==
    /\ Running /\ Access(a, n)
    /\ \/ /\ StoreBreaks(a) /\ status' = "break"
          /\ UNCHANGED <<sram, ref>>
       \/ /\ ~StoreBreaks(a)
          /\ \E v \in [1 .. n -> Byte] :
               sram' = Put(sram, W2N(U16(a)), v) /\ ref' = Put(ref, a, v)
          /\ UNCHANGED status
    /\ UNCHANGED <<malloc_record, wide, stack, globals, wideRef>>

\* i64.const pushes the high word, then the low word.  An i64 operand is written
\* here from the top of the stack down.
Low(w)  == SubSeq(w, 1, WordLen)
High(w) == SubSeq(w, WordLen + 1, 2 * WordLen)

\* Without the liberties a module that has the i64 instructions has no segment.
HasLong == Wides # {} /\ ("i64" \in Liberties \/ Ram.start = 0)

I64Const(v) ==
    /\ Running /\ HasLong
    /\ wide' = v /\ wideRef' = v
    /\ UNCHANGED <<sram, malloc_record, stack, status, ref, globals>>

\* embed_i64load leaves the low word in R18.., which is pushed first.
I64Load(a) ==
    /\ Running /\ HasLong /\ Extent(a, 2 * WordLen) \subseteq Owned
    /\ wide' = Loaded(a + WordLen) \o Loaded(a)
    /\ wideRef' = Bytes(ref, a, 2 * WordLen)
    /\ UNCHANGED <<sram, malloc_record, stack, status, ref, globals>>

\* i64.store looks at the low byte of the offset behind the globals to choose
\* between STD with that byte as constant and adding both bytes to Z.
StoreOffset(o) ==
    LET n == o + GlobalSize
    IN  IF n % OffsetByte < OffsetNear THEN n % OffsetByte ELSE n

\* i64.store with the constant offset o, in line and unchecked; where the RAM
\* area starts plays no part.  Without the liberties the program stores a value
\* that I64Const made or whose two words are equal, at an offset of one byte.
I64Store(a, o) ==
    /\ Running /\ HasLong /\ Extent(a + o, 2 * WordLen) \subseteq Owned
    /\ "i64" \in Liberties \/ wide = wideRef
    /\ "far" \in Liberties \/ o + GlobalSize < OffsetByte
    /\ sram' = Put(sram, Base + a + StoreOffset(o), Low(wide) \o High(wide))
    /\ ref' = Put(ref, a + o, wideRef)
    /\ UNCHANGED <<malloc_record, wide, stack, status, globals, wideRef>>

\* Mutant, not the code: the test of the offset is inverted.
KeptInverted(offset, v) ==
    IF offset >= DirectRange THEN v
    ELSE [v EXCEPT ![1] = offset % Cardinality(Byte), ![2] = 0]

\* global.set: an offset out of the reach of STD is added to Z by way of R22 and
\* R23, which hold the value.
Kept(offset, v) ==
    IF offset < DirectRange THEN v
    ELSE [v EXCEPT ![1] = offset % Cardinality(Byte), ![2] = 0]

\* Where global.get and global.set find a global: LDI takes the low byte of
\* offset & 0xff00, which is 0.
GlobalCell(offset) ==
    Base + IF offset < DirectRange THEN offset ELSE offset % OffsetByte

GlobalSet(g, v) ==
    LET offset == WordLen * (g - 1)
    IN  /\ Running
        /\ sram' = Put(sram, GlobalCell(offset), Kept(offset, v))
        /\ globals' = [globals EXCEPT ![g] = v]
        /\ UNCHANGED <<malloc_record, wide, stack, status, ref, wideRef>>

\* The imports malloc, memset and memcpy, which check nothing.
Malloc(size) ==
    /\ Running /\ malloc_record + size <= Ram.end
    /\ malloc_record' = U16(malloc_record + size)
    /\ UNCHANGED <<sram, wide, stack, status, ref, globals, wideRef>>

Memset(s, ch, n) ==
    /\ Running /\ Extent(s, n) \subseteq Owned
    /\ sram' = Put(sram, W2N(s), [i \in 1 .. n |-> ch])
    /\ ref' = Put(ref, s, [i \in 1 .. n |-> ch])
    /\ UNCHANGED <<malloc_record, wide, stack, status, globals, wideRef>>

FlashBytes(s, n) == [i \in 1 .. n |-> segments[1].data[Flash.target + s - Flash.start + i - 1]]

Memcpy(d, s, n) ==
    LET inFlash == Extent(s, n) \subseteq Flash.start .. Flash.end - 1
    IN  /\ Running /\ Extent(d, n) \subseteq Owned
        /\ inFlash \/ (Extent(s, n) \subseteq Owned /\ Extent(s, n) \cap Extent(d, n) = {})
        /\ sram' = Put(sram, W2N(d), IF In(Flash, s) THEN FlashBytes(s, n)
                                                     ELSE Bytes(sram, W2N(s), n))
        /\ ref' = Put(ref, d, IF inFlash THEN FlashBytes(s, n) ELSE Bytes(ref, s, n))
        /\ UNCHANGED <<malloc_record, wide, stack, status, globals, wideRef>>

\* PUSH and POP of the compiled code, which share the RAM.
StackPush(b) ==
    /\ Running /\ Len(stack) < StackRoom
    /\ sram' = [sram EXCEPT ![StackPointer - Len(stack)] = b]
    /\ stack' = Append(stack, b)
    /\ UNCHANGED <<malloc_record, wide, status, ref, globals, wideRef>>

StackPop ==
    /\ Running /\ stack # <<>>
    /\ stack' = SubSeq(stack, 1, Len(stack) - 1)
    /\ UNCHANGED <<sram, malloc_record, wide, status, ref, globals, wideRef>>

Addresses == 0 .. Space + WordLen

Next ==
    \/ Start
    \/ \E a \in Addresses : Load(a)
    \/ \E a \in Addresses, n \in 1 .. WordLen : Store(a, n)
    \/ \E v \in Wides : I64Const(v)
    \/ \E a \in InRam : I64Load(a)
    \/ \E a \in InRam, o \in Addresses : I64Store(a, o)
    \/ \E g \in DOMAIN GlobalInit, v \in Word : GlobalSet(g, v)
    \/ Malloc(2 * WordLen)
    \/ \E s \in InRam, ch \in Byte, n \in 1 .. WordLen : Memset(s, ch, n)
    \/ \E d \in InRam, s \in Addresses, n \in 1 .. WordLen : Memcpy(d, s, n)
    \/ \E b \in Byte : StackPush(b)
    \/ StackPop

Spec == Init /\ [][Next]_vars

-----------------------------------------------------------------------------
\* The shape of the state.
TypeOK ==
    /\ sram \in [Cells -> Byte]
    /\ status \in {"compiled", "run", "break"}
    /\ wide \in [1 .. 2 * WordLen -> Byte] /\ wideRef \in [1 .. 2 * WordLen -> Byte]
    /\ stack \in Seq(Byte) /\ Len(stack) <= StackRoom
    /\ status # "compiled" =>
         /\ DOMAIN ref = InRam /\ Ram.end < Space
         /\ {W2N(a) : a \in InRam} \subseteq Target .. StackPointer - 1
    /\ malloc_record \in 0 .. Space - 1

\* Whatever way the memory is written, by a store that is checked, an i64.store
\* in line or an import, a load finds what WebAssembly says is there.
MemoryAgrees ==
    status = "run" =>
        \A a \in Owned, n \in 1 .. WordLen :
            Extent(a, n) \subseteq Owned => SubSeq(Loaded(a), 1, n) = Bytes(ref, a, n)

\* A global.get finds what was last set, and the initial value before that.
GlobalsAgree ==
    status # "compiled" =>
        \A g \in DOMAIN globals :
            Bytes(sram, GlobalCell(WordLen * (g - 1)), WordLen) = globals[g]

\* What the code has pushed is still there when it is popped, though the linear
\* memory ends above it.
StackIntact == \A i \in DOMAIN stack : sram[StackPointer - i + 1] = stack[i]

\* "write out of bound!" and "write to read-only section!" of memory.c: a step
\* that is not a push and not a global.set changes no cell but those that are
\* the program's linear memory.
BoundsHold ==
    [][status = "run" /\ stack' = stack /\ globals' = globals =>
          \A x \in Cells : sram'[x] # sram[x] => \E a \in Owned : W2N(a) = x]_vars

\* Nothing the program does reaches the cells below the globals, where mem_areas
\* and ts lie, or those above the stack pointer it was called with.
HostKept ==
    [][\A x \in Cells : x < Base \/ x > StackPointer => sram'[x] = sram[x]]_vars
=============================================================================
