------------------------------- MODULE Groups -------------------------------
(***************************************************************************)
(* The straight-line cases of emit_single_instruction, word by word: what   *)
(* each WebAssembly instruction is translated to is encoded (AsmEncoding)    *)
(* and run (AvrCpu) on bytes, and the operand stack, the locals, the globals *)
(* and the accesses to memory are compared with what WebAssembly says of    *)
(* them (WasmWords).  Translator has the same instructions with their        *)
(* branches and calls, and a value for four bytes.                          *)
(*                                                                         *)
(* The program is any sequence of instructions that validation admits, up to *)
(* the length its shape allows; the code is run as it grows.                 *)
(***************************************************************************)
EXTENDS SequencesExt, Leb128, AsmEncoding, AvrCpu

CONSTANTS
    Shapes,          \* bound: the functions: [args, locals, result, entry, globals,
                     \* size, ops, values, wides, offsets], args their values
    wasm_mem_space,  \* where the globals and the memory behind them begin
    EntrySP          \* the stack pointer when the function begins

\* wasm_call_entry_method passes no arguments; frames and globals are within 256
\* bytes; and the stack, which nothing checks, has room above the globals for the
\* saved registers, the frame and the operands.
IsShape(f) ==
    /\ f.args \in Seq(Int) /\ f.locals \in Nat /\ f.globals \in Nat /\ f.size \in Nat
    /\ f.result \in BOOLEAN /\ f.entry \in BOOLEAN
    /\ f.values \subseteq Int /\ f.offsets \subseteq Nat
    /\ \A w \in f.wides : w[1] \in Int /\ w[2] \in Int
    /\ f.entry => f.args = <<>>
    /\ Len(f.args) + f.locals + 1 < 64 /\ f.globals < 64
    /\ wasm_mem_space + 4 * f.globals + 20 + 4 * f.locals + 8 * f.size <= EntrySP
    /\ EntrySP + 2 + 4 * Len(f.args) < 65536

ASSUME ShapesAssumption  == \A f \in Shapes : IsShape(f)
ASSUME PlacesAssumption  == wasm_mem_space \in Nat /\ EntrySP \in Nat
ASSUME MachineAssumption == Junk \in Bytes /\ \A a \in Addresses : Linear(a) \in Bytes

VARIABLES
    func,       \* the function
    length,     \* how many of its instructions are translated
    code,       \* the words emitted
    cpu,        \* the processor that has run them
    operands,   \* reference: the operand stack, 4 bytes for an i32, 8 for an i64
    locals,     \* reference: parameters and locals, <<>> for one not set yet
    globals,    \* reference: the globals
    stored,     \* reference: the last store
    calls,      \* history: the functions called from the code
    stack_top,  \* ts.stack_top
    phase       \* "enter", "body" or "done"

vars == <<func, length, code, cpu, operands, locals, globals, stored, calls, stack_top, phase>>

Args          == Len(func.args)
numLocals     == func.locals
numLocalBytes == 4 * func.locals
HasFrame      == numLocals > 0 \/ Args > 0
wasm_globals_size == 4 * func.globals

\* Where the operand stack of the function begins, and the last cell it reaches with
\* size operands of eight bytes and the return address of a call below them.
Bottom == EntrySP - (IF func.entry THEN 16 ELSE 0) - IF HasFrame THEN 2 + numLocalBytes ELSE 0
Floor  == Bottom - 8 * func.size - 1

Word(n) == LET b == BitsOf(n) IN <<ByteOf(b, 1), ByteOf(b, 2), ByteOf(b, 3), ByteOf(b, 4)>>
Wide(w) == Word(w[1]) \o Word(w[2])
BitsOfWide(w) ==
    LET low  == BitsOf(w[1])
        high == BitsOf(w[2])
    IN  [j \in BitIndex |-> IF j < 32 THEN low[j] ELSE high[j - 32]]

\* What the caller has in its registers; R1 is 0, R2 the memory unless the entry
\* function has still to put it there.
Host(f) == [d \in 0 .. 31 |->
    CASE d = 1 -> 0
      [] d = 2 /\ ~f.entry -> wasm_mem_space % 256
      [] d = 3 /\ ~f.entry -> wasm_mem_space \div 256
      [] OTHER -> 64 + d]
ReturnAddress == <<201, 202>>

\* The return address, and above it the arguments, the last one lowest.
Above(f) == ReturnAddress \o FlattenSeq(Reverse([i \in DOMAIN f.args |-> Word(f.args[i])]))
GlobalCell(g) == wasm_mem_space + 4 * (g - 1)

Init ==
    /\ func \in Shapes
    /\ length = 0 /\ code = <<>> /\ calls = <<>> /\ phase = "enter" /\ stack_top = 0
    /\ operands = <<>>
    /\ locals = [i \in 0 .. Args + numLocals - 1 |-> IF i < Args THEN Word(func.args[i + 1]) ELSE <<>>]
    /\ globals = [g \in 1 .. func.globals |-> Zero]
    /\ stored = [at |-> 0, bytes |-> <<>>, inline |-> FALSE]
    /\ cpu = [r |-> Host(func), ip |-> 1, sp |-> EntrySP, status |-> "run", ret |-> <<>>,
              c |-> 0, z |-> 0, n |-> 0, s |-> 0,
              stored |-> [at |-> 0, bytes |-> <<>>],
              mem |-> [a \in (EntrySP + 1 .. EntrySP + Len(Above(func)))
                             \cup (wasm_mem_space .. wasm_mem_space + wasm_globals_size - 1) |->
                       IF a > EntrySP THEN Above(func)[a - EntrySP] ELSE 0]]

-----------------------------------------------------------------------------
(* Emitting and running.                                                    *)
Emit(words) == code' = code \o words /\ UNCHANGED cpu

\* Whether the processor has come to the end of the code.
Ran == cpu.status = "returned" \/ cpu.ip = Len(code) + 1

Execute ==
    /\ cpu.status = "run" /\ ~Ran
    /\ cpu' = Run(code, cpu)
    /\ UNCHANGED <<func, length, code, operands, locals, globals, stored, calls, stack_top, phase>>

\* The operand n places below the top, and whether the topmost have these sizes.
Operand(n) == operands[Len(operands) - n]
Typed(sizes) ==
    /\ Len(sizes) <= Len(operands)
    /\ \A n \in DOMAIN sizes : Len(Operand(Len(sizes) - n)) = sizes[n]

\* An instruction takes operands of these sizes from the stack and leaves others.
Instruction(op, sizes, left, words, top) ==
    /\ phase = "body" /\ Ran /\ length < func.size /\ op \in func.ops
    /\ Typed(sizes)
    /\ operands' = SubSeq(operands, 1, Len(operands) - Len(sizes)) \o left
    /\ Emit(words)
    /\ stack_top' = (stack_top + top) % 65536
    /\ length' = length + 1
    /\ UNCHANGED <<func, phase>>

Pure == UNCHANGED <<locals, globals, stored, calls>>
Calling(f) == calls' = Append(calls, f) /\ UNCHANGED <<locals, globals>>

LDI_4(base, b) == [i \in 1 .. 4 |-> emit_LDI(base + i - 1, b[i])]

\* Four instructions on the bytes of two registers, the first of which needs no carry.
FourBytes(First(_, _), Rest(_, _), d, r) ==
    <<First(d, r), Rest(d + 1, r + 1), Rest(d + 2, r + 2), Rest(d + 3, r + 3)>>

\* wasm_compile_function in front of the instructions.
Enter ==
    /\ phase = "enter"
    /\ Emit((IF func.entry
             THEN emit_x_call_save
                  \o <<emit_LDI(22, wasm_mem_space), emit_LDI(23, wasm_mem_space \div 256), emit_MOVW(2, 22)>>
             ELSE <<>>)
            \o IF HasFrame THEN emit_local_init(numLocalBytes) ELSE <<>>)
    /\ phase' = "body"
    /\ UNCHANGED <<func, length, operands, stack_top>> /\ Pure

\* The n bytes of a constant's operand, read from its encoding in k bytes.
Operands(bits, k, n) ==
    LET v == ReadLebSigned(LebEncoding(bits, k), 1, k + 1, 8 * n).value
    IN  [i \in 1 .. n |-> ByteOf(v, i)]

\* From the shortest and the longest legal encoding of every constant.
Encodings(n, bits) == { k \in {SignedLength(bits), (8 * n + 6) \div 7} : k >= SignedLength(bits) }
NarrowOperands ==
    [v \in UNION {f.values : f \in Shapes} |->
        {Operands(BitsOf(v), k, 4) : k \in Encodings(4, BitsOf(v))}]
WideOperands ==
    [w \in UNION {f.wides : f \in Shapes} |->
        {Operands(BitsOfWide(w), k, 8) : k \in Encodings(8, BitsOfWide(w))}]

I32Const(n) ==
    \E v \in NarrowOperands[n] :
        /\ Instruction("i32.const", <<>>, <<Word(n)>>, LDI_4(22, v) \o emit_x_PUSH_32bit(22), 1)
        /\ Pure

I64Const(w) ==
    \E v \in WideOperands[w] :
        /\ Instruction("i64.const", <<>>, <<Wide(w)>>,
                       [i \in 1 .. 8 |-> emit_LDI(17 + i, v[i])]
                           \o emit_x_PUSH_32bit(22) \o emit_x_PUSH_32bit(18), 2)
        /\ Pure

I32Eqz ==
    /\ Instruction("i32.eqz", <<4>>, <<Truth(Operand(0) = Zero)>>,
                   emit_x_POP_32bit(18) \o LDI_4(22, One)
                   \o <<emit_OR(18, 19), emit_OR(18, 20), emit_OR(18, 21), emit_BREQ(2), emit_LDI(22, 0)>>
                   \o emit_x_PUSH_32bit(22), 0)
    /\ Pure

\* Mutant, not the code: as for ge.
BranchForUnswapped(op) ==
    CASE op \in {"lt_s", "gt_s"} -> emit_BRLT(2)
      [] op \in {"lt_u", "gt_u"} -> emit_BRCS(2)
      [] op \in {"le_s", "ge_s"} -> emit_BRGE(2)
      [] op \in {"le_u", "ge_u"} -> emit_BRGE(2)
      [] op = "eq" -> emit_BREQ(2)
      [] op = "ne" -> emit_BRNE(2)

\* The branch over the LDI that makes the result 0.
BranchFor(op) ==
    CASE op \in {"lt_s", "gt_s"} -> emit_BRLT(2)
      [] op \in {"lt_u", "gt_u"} -> emit_BRCS(2)
      [] op \in {"le_s", "ge_s"} -> emit_BRGE(2)
      [] op \in {"le_u", "ge_u"} -> emit_BRCC(2)
      [] op = "eq" -> emit_BREQ(2)
      [] op = "ne" -> emit_BRNE(2)

Compared(op, a, b) ==
    CASE op = "eq" -> a = b
      [] op = "ne" -> a # b
      [] op = "lt_s" -> WLtS(a, b)
      [] op = "lt_u" -> WLtU(a, b)
      [] op = "gt_s" -> WLtS(b, a)
      [] op = "gt_u" -> WLtU(b, a)
      [] op = "le_s" -> ~WLtS(b, a)
      [] op = "le_u" -> ~WLtU(b, a)
      [] op = "ge_s" -> ~WLtS(a, b)
      [] op = "ge_u" -> ~WLtU(a, b)

Comparisons == {"eq", "ne", "lt_s", "lt_u", "gt_s", "gt_u", "le_s", "le_u", "ge_s", "ge_u"}

I32Compare(op) ==
    LET swapped == op \in {"le_s", "le_u", "gt_s", "gt_u"}
    IN  /\ Instruction("compare", <<4, 4>>, <<Truth(Compared(op, Operand(1), Operand(0)))>>,
                       emit_x_POP_32bit(22) \o emit_x_POP_32bit(18)
                       \o (IF swapped THEN FourBytes(emit_CP, emit_CPC, 22, 18)
                                      ELSE FourBytes(emit_CP, emit_CPC, 18, 22))
                       \o LDI_4(22, One) \o <<BranchFor(op), emit_LDI(22, 0)>>
                       \o emit_x_PUSH_32bit(22), -1)
        /\ Pure

\* An instruction whose work an embedded function does.
ByFunction(op, f, sizes, left, pops, pushes, top) ==
    /\ Instruction(op, sizes, left, pops \o emit_2_CALL(f) \o pushes, top)
    /\ Calling(f)

I32Clz ==
    /\ ByFunction("i32.clz", embed_func_clz32, <<4>>, <<WClz(Operand(0))>>,
                  emit_x_POP_32bit(22), emit_x_PUSH_32bit(22), 0)
    /\ UNCHANGED stored

Arithmetic(op, result, pops, words) ==
    /\ Instruction(op, <<4, 4>>, <<result>>, pops \o words \o emit_x_PUSH_32bit(22), -1)
    /\ Pure

FirstTo22  == emit_x_POP_32bit(18) \o emit_x_POP_32bit(22)
SecondTo22 == emit_x_POP_32bit(22) \o emit_x_POP_32bit(18)

I32Add ==
    Arithmetic("i32.add", WAdd(Operand(1), Operand(0)), SecondTo22,
               FourBytes(emit_ADD, emit_ADC, 22, 18))
I32Sub ==
    Arithmetic("i32.sub", WSub(Operand(1), Operand(0)), FirstTo22,
               FourBytes(emit_SUB, emit_SBC, 22, 18))

I32And == Arithmetic("i32.and", WAnd(Operand(1), Operand(0)), SecondTo22,
                     FourBytes(emit_AND, emit_AND, 22, 18))
I32Or  == Arithmetic("i32.or", WOr(Operand(1), Operand(0)), SecondTo22,
                     FourBytes(emit_OR, emit_OR, 22, 18))
I32Xor == Arithmetic("i32.xor", WXor(Operand(1), Operand(0)), SecondTo22,
                     FourBytes(emit_EOR, emit_EOR, 22, 18))

I32Mul ==
    /\ ByFunction("i32.mul", embed_func_umul, <<4, 4>>, <<WMul(Operand(1), Operand(0))>>,
                  FirstTo22, emit_x_PUSH_32bit(22), -1)
    /\ UNCHANGED stored

\* Where WebAssembly has a quotient; it traps otherwise and the code does not.
Divides(a, b, signed) == b # Zero /\ ~(signed /\ a = <<0, 0, 0, 128>> /\ b = <<255, 255, 255, 255>>)

I32Div(signed) ==
    /\ Typed(<<4, 4>>) /\ Divides(Operand(1), Operand(0), signed)
    /\ ByFunction("i32.div", IF signed THEN embed_func_idiv ELSE embed_func_udiv, <<4, 4>>,
                  <<IF signed THEN WDivS(Operand(1), Operand(0)) ELSE WDivU(Operand(1), Operand(0))>>,
                  FirstTo22, emit_x_PUSH_32bit(22), -1)
    /\ UNCHANGED stored

\* The loop is entered at its test.
ShiftLoop(body) == <<emit_RJMP(8)>> \o body \o <<emit_DEC(18), emit_BRPL(-12)>>

\* The code shifts as often as the low byte of the count says, up to 128 times;
\* from 129 on not at all.  WebAssembly takes the count modulo 32.
Shift(op, result, body) ==
    /\ Typed(<<4, 4>>) /\ WLtU(Operand(0), WordOfNat(32))
    /\ Arithmetic(op, result, FirstTo22, ShiftLoop(body))

I32Shl  == Shift("i32.shl", WShl(Operand(1), Operand(0)[1]),
                 <<emit_LSL(22), emit_ROL(23), emit_ROL(24), emit_ROL(25)>>)
I32ShrU == Shift("i32.shr_u", WShrU(Operand(1), Operand(0)[1]),
                 <<emit_LSR(25), emit_ROR(24), emit_ROR(23), emit_ROR(22)>>)
I32ShrS == Shift("i32.shr_s", WShrS(Operand(1), Operand(0)[1]),
                 <<emit_ASR(25), emit_ROR(24), emit_ROR(23), emit_ROR(22)>>)

\* Mutant, not the code: the static height is not lowered.
DropKeepsTop ==
    /\ Instruction("drop", <<4>>, <<>>, emit_x_POP_32bit(22), 0)
    /\ Pure

Drop ==
    /\ Instruction("drop", <<4>>, <<>>, emit_x_POP_32bit(22), -1)
    /\ Pure

Select ==
    /\ Instruction("select", <<4, 4, 4>>, <<IF Operand(0) # Zero THEN Operand(2) ELSE Operand(1)>>,
                   emit_x_POP_32bit(22) \o emit_x_POP_32bit(18)
                   \o <<emit_OR(22, 23), emit_OR(22, 24), emit_OR(22, 25), emit_BRNE(16)>>
                   \o emit_x_POP_32bit(22) \o emit_x_PUSH_32bit(18), -2)
    /\ Pure

-----------------------------------------------------------------------------
(* Locals and globals.                                                      *)

\* Mutant, not the code: the saved Y and the return address are not stepped over.
LocalBaseTight(i) ==
    IF i >= Args THEN 4 * (i - Args) ELSE numLocalBytes + 4 * (Args - 1 - i)

\* base of LocalGet, LocalSet and LocalTee.
LocalBase(i) ==
    IF i >= Args THEN 4 * (i - Args) ELSE numLocalBytes + 4 + 4 * (Args - 1 - i)

\* R22..R25 from or to the cells base + 1 .. base + 4 above Y.
LocalAccess(Access(_, _, _), i) ==
    LET base == LocalBase(i)
        At(n) == [k \in 1 .. 4 |-> Access(21 + k, Y, n + k)]
        Far(First(_, _), Rest(_, _)) == <<First(RYL, RZL), Rest(RYH, RZH)>>
    IN  IF base < 60 THEN At(base)
        ELSE <<emit_LDI(RZL, base % 256), emit_LDI(RZH, (base \div 256) * 256)>>
             \o Far(emit_ADD, emit_ADC) \o At(0) \o Far(emit_SUB, emit_SBC)

\* Locals that nothing has set hold what the stack held, which is not 0.
LocalGet(i) ==
    /\ locals[i] # <<>>
    /\ Instruction("local.get", <<>>, <<locals[i]>>,
                   LocalAccess(emit_LDD, i) \o emit_x_PUSH_32bit(22), 1)
    /\ Pure

LocalSet(i) ==
    /\ Instruction("local.set", <<4>>, <<>>, emit_x_POP_32bit(22) \o LocalAccess(emit_STD, i), -1)
    /\ locals' = [locals EXCEPT ![i] = Operand(0)]
    /\ UNCHANGED <<globals, stored, calls>>

LocalTee(i) ==
    /\ Instruction("local.tee", <<4>>, <<Operand(0)>>,
                   emit_x_POP_32bit(22) \o LocalAccess(emit_STD, i) \o emit_x_PUSH_32bit(22), 0)
    /\ locals' = [locals EXCEPT ![i] = Operand(0)]
    /\ UNCHANGED <<globals, stored, calls>>

\* R22..R25 from or to a global; from 60 on its offset comes in R22 and R23.
GlobalAccess(Access(_, _, _), g) ==
    LET offset == 4 * (g - 1)
        At(n) == [k \in 1 .. 4 |-> Access(21 + k, Z, n + k - 1)]
    IN  <<emit_MOVW(RZL, 2)>>
        \o IF offset < 60 THEN At(offset)
           ELSE <<emit_LDI(22, offset % 256), emit_LDI(23, (offset \div 256) * 256),
                  emit_ADD(RZL, 22), emit_ADC(RZH, 23)>> \o At(0)

GlobalGet(g) ==
    /\ Instruction("global.get", <<>>, <<globals[g]>>,
                   GlobalAccess(emit_LDD, g) \o emit_x_PUSH_32bit(22), 1)
    /\ Pure

\* A far global.set writes its own offset into the value's low bytes.
GlobalSet(g) ==
    /\ 4 * (g - 1) < 60
    /\ Instruction("global.set", <<4>>, <<>>, emit_x_POP_32bit(22) \o GlobalAccess(emit_STD, g), -1)
    /\ globals' = [globals EXCEPT ![g] = Operand(0)]
    /\ UNCHANGED <<locals, stored, calls>>

-----------------------------------------------------------------------------
(* Memory.  An access keeps to addresses of 16 bits, the offset included.   *)
InReach(address, offset, n) ==
    Half1(address) = 0 /\ Half0(address) + offset + n <= 65536

MemoryBytes(a, n) == [i \in 1 .. n |-> Linear(a + i - 1)]

Loads == {"load", "load8_u", "load8_s", "load16_u", "load16_s"}

\* What makes a word of the byte or the two bytes that were wanted.
Widen(op) ==
    CASE op = "load" -> <<>>
      [] op = "load8_u"  -> <<emit_EOR(23, 23), emit_EOR(24, 24), emit_EOR(25, 25)>>
      [] op = "load16_u" -> <<emit_EOR(24, 24), emit_EOR(25, 25)>>
      [] op = "load8_s" ->
           <<emit_SUBI(22, 0), emit_BRMI(8), emit_LDI(23, 0), emit_LDI(24, 0), emit_LDI(25, 0),
             emit_RJMP(6), emit_LDI(23, 255), emit_LDI(24, 255), emit_LDI(25, 255)>>
      [] op = "load16_s" ->
           <<emit_CP(22, 1), emit_CPC(23, 1), emit_BRMI(6), emit_LDI(24, 0), emit_LDI(25, 0),
             emit_RJMP(4), emit_LDI(24, 255), emit_LDI(25, 255)>>

LoadedWord(op, a) ==
    CASE op = "load" -> MemoryBytes(a, 4)
      [] op = "load8_u"  -> ExtendU(MemoryBytes(a, 1))
      [] op = "load8_s"  -> ExtendS(MemoryBytes(a, 1))
      [] op = "load16_u" -> ExtendU(MemoryBytes(a, 2))
      [] op = "load16_s" -> ExtendS(MemoryBytes(a, 2))

I32Load(op, offset) ==
    /\ Typed(<<4>>) /\ InReach(Operand(0), offset, 4)
    /\ ByFunction("i32.load", embed_func_i32load, <<4>>,
                  <<LoadedWord(op, Half0(Operand(0)) + offset)>>,
                  <<emit_LDI(24, offset), emit_LDI(25, offset \div 256)>> \o emit_x_POP_32bit(20),
                  Widen(op) \o emit_x_PUSH_32bit(22), 0)
    /\ UNCHANGED stored

Width(f) == CASE f = embed_func_i32store -> 4
              [] f = embed_func_i32store16 -> 2
              [] f = embed_func_i32store8 -> 1

\* Mutant, not the code: the address before the value.
StorePopsSwapped == emit_x_POP_16bit(18) \o emit_x_POP_16bit(30) \o emit_x_POP_32bit(22)

StorePops == emit_x_POP_32bit(22) \o emit_x_POP_16bit(18) \o emit_x_POP_16bit(30)

\* The address is an u16 to the function: its high half goes to R30 and R31.
I32Store(f, offset) ==
    /\ Typed(<<4, 4>>) /\ InReach(Operand(1), offset, Width(f))
    /\ ByFunction("i32.store", f, <<4, 4>>, <<>>,
                  <<emit_LDI(20, offset), emit_LDI(21, offset \div 256)>>
                  \o StorePops, <<>>, -2)
    /\ stored' = [at |-> Half0(Operand(1)) + offset, bytes |-> SubSeq(Operand(0), 1, Width(f)),
                  inline |-> FALSE]

\* In line: eight STD behind the globals, by a constant below 30 or by way of Z.
\* The offset is tested by its low byte and has to be below 256 here.
I64Store(offset) ==
    LET n == offset + wasm_globals_size
        At(k) == [i \in 1 .. 8 |-> emit_STD(17 + i, Z, k + i - 1)]
    IN  /\ n < 256 /\ Typed(<<4, 8>>)
        /\ Half1(Operand(1)) = 0 /\ wasm_mem_space + n + Half0(Operand(1)) + 8 <= Floor
        /\ Instruction("i64.store", <<4, 8>>, <<>>,
                       emit_x_POP_32bit(18) \o emit_x_POP_32bit(22) \o emit_x_POP_32bit(14)
                       \o <<emit_MOVW(RZL, 2), emit_ADD(RZL, 14), emit_ADC(RZH, 15)>>
                       \o IF n % 256 >= 30
                          THEN <<emit_LDI(16, n), emit_LDI(17, n \div 256),
                                 emit_ADD(RZL, 16), emit_ADC(RZH, 17)>> \o At(0)
                          ELSE At(n % 256), -3)
        /\ stored' = [at |-> wasm_mem_space + n + Half0(Operand(1)), bytes |-> Operand(0),
                      inline |-> TRUE]
        /\ UNCHANGED <<locals, globals, calls>>

-----------------------------------------------------------------------------
(* The way out of a function.                                               *)
Epilogue ==
    (IF func.result THEN emit_x_POP_32bit(22) ELSE <<>>)
    \o (IF HasFrame THEN emit_local_deinit(numLocalBytes) ELSE <<>>)
    \o (IF func.entry THEN emit_x_call_restore ELSE <<>>)
    \o <<emit_RET>>

Leave ==
    /\ phase = "body" /\ Ran /\ phase' = "done"
    /\ Typed(IF func.result THEN <<4>> ELSE <<>>)
    /\ Emit(Epilogue)
    /\ stack_top' = (stack_top - IF func.result THEN 1 ELSE 0) % 65536
    /\ UNCHANGED <<func, length, operands>> /\ Pure

Arity == IF func.result THEN 1 ELSE 0

\* Values below the result are dropped with the frame; without one they are not,
\* and the function returns to one of them.
Return == "return" \in func.ops /\ (HasFrame \/ Len(operands) = Arity) /\ Leave

\* The End_ of a function.
EndFunction == Len(operands) = Arity /\ Leave

Next ==
    \/ Execute
    \/ Enter
    \/ \E n \in func.values : I32Const(n)
    \/ \E w \in func.wides : I64Const(w)
    \/ I32Eqz
    \/ \E op \in Comparisons : I32Compare(op)
    \/ I32Clz
    \/ I32Add
    \/ I32Sub
    \/ I32And
    \/ I32Or
    \/ I32Xor
    \/ I32Mul
    \/ \E signed \in BOOLEAN : I32Div(signed)
    \/ I32Shl
    \/ I32ShrU
    \/ I32ShrS
    \/ Drop
    \/ Select
    \/ \E i \in DOMAIN locals : LocalGet(i)
    \/ \E i \in DOMAIN locals : LocalSet(i)
    \/ \E i \in DOMAIN locals : LocalTee(i)
    \/ \E g \in DOMAIN globals : GlobalGet(g)
    \/ \E g \in DOMAIN globals : GlobalSet(g)
    \/ \E op \in Loads, o \in func.offsets : I32Load(op, o)
    \/ \E f \in 65528 .. 65530, o \in func.offsets : I32Store(f, o)
    \/ \E o \in func.offsets : I64Store(o)
    \/ Return
    \/ EndFunction

Spec == Init /\ [][Next]_vars

-----------------------------------------------------------------------------
(* Properties.                                                              *)

CellsAt(a, n) == [i \in 1 .. n |-> Cell(cpu, a + i - 1)]
OperandBytes  == FlattenSeq(Reverse(operands))

InBody == phase = "body" /\ Ran
Back   == phase = "done" /\ Ran

\* The shape of the state: the code runs from its first word to its last, every
\* word is a u16, and the static height is the size of the operand stack.
TypeOK ==
    /\ phase \in {"enter", "body", "done"}
    /\ cpu.status = IF phase = "done" /\ Ran THEN "returned" ELSE "run"
    /\ \A d \in 0 .. 31 : cpu.r[d] \in 0 .. 255
    /\ \A i \in DOMAIN code : code[i] \in 0 .. 65535
    /\ phase = "body" => 4 * stack_top = Len(OperandBytes)

\* The bytes on the stack are the operands of WebAssembly, and at the end
\* R22..R25 the result: whatever the instructions before have left in the
\* registers and the flags, for numbers of either sign, for any encoding of a
\* constant, and with every relative branch and every register of the words.
OperandsAgree ==
    /\ InBody => CellsAt(cpu.sp + 1, Len(OperandBytes)) = OperandBytes
    /\ Back /\ func.result => Quad(cpu, 22) = Operand(0)

\* Where the caller and emit_local_init put them: parameters above the return
\* address, locals below the saved Y.
LocalAt(i) == IF i < Args THEN EntrySP + 3 + 4 * (Args - 1 - i)
              ELSE Bottom + 1 + 4 * (i - Args)

\* Parameters, locals and globals hold what was last set, through Y and through
\* Z, near and far; pushing operands never reaches them.
VariablesAgree ==
    InBody =>
        /\ \A i \in DOMAIN locals :
             locals[i] # <<>> => CellsAt(LocalAt(i), 4) = locals[i]
        /\ \A g \in DOMAIN globals : CellsAt(GlobalCell(g), 4) = globals[g]

Kept == IF func.entry THEN 1 .. 17 ELSE 1 .. 3

\* In a function the operand stack begins below its frame; when it has returned,
\* the caller has its stack, its Y, the zero in R1 and the registers back that a
\* C function keeps, and goes on where it called.
FrameKept ==
    /\ InBody => /\ cpu.sp = Bottom - Len(OperandBytes)
                         /\ HasFrame => Pair(cpu, 28) = Bottom
                         /\ Pair(cpu, 2) = wasm_mem_space
    /\ Back => /\ cpu.sp = EntrySP + 2 /\ cpu.ret = ReturnAddress
                         /\ \A d \in Kept \cup {28, 29} : cpu.r[d] = Host(func)[d]

\* The address, the width and the bytes of the last store are the program's.
StoresAgree ==
    Ran => IF stored.inline THEN CellsAt(stored.at, 8) = stored.bytes
           ELSE cpu.stored = [at |-> stored.at, bytes |-> stored.bytes]

\* The walk of branch_pc_refill over the code: the operands of what it takes for
\* a JMP or a CALL.
AtStart == [operand |-> FALSE, found |-> <<>>]
Turn(s, w) ==
    IF s.operand THEN [operand |-> FALSE, found |-> Append(s.found, w)]
    ELSE [operand |-> w \in {OPCODE_JMP, OPCODE_CALL}, found |-> s.found]
Walk(words) ==
    LET After[i \in 0 .. Len(words)] == IF i = 0 THEN AtStart ELSE Turn(After[i - 1], words[i])
    IN  After[Len(words)]

\* The walk finds the calls that were emitted, in order, and nothing else: no
\* other word is one of the two opcodes, and it never loses its step.
CallsFound == Walk(code) = [operand |-> FALSE, found |-> calls]
=============================================================================
