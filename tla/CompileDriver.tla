--------------------------- MODULE CompileDriver ---------------------------
(***************************************************************************)
(* wasm_compile_module and branch_pc_refill of src/src/compile.c over the   *)
(* flash writer: the functions are written one after the other with the     *)
(* number of a label or of a function behind each JMP and CALL; then the    *)
(* driver walks over the code in the flash and writes it once more, with    *)
(* addresses in the place of the numbers.                                  *)
(*                                                                         *)
(* A cell of the writer is here a word of two bytes: whatever the driver    *)
(* writes, and wherever it starts, is a whole number of words.  Offsets and *)
(* addresses are counted in words.  The device can be reset between any two *)
(* steps and then compiles the same module again.                          *)
(***************************************************************************)
EXTENDS Integers, Sequences

CONSTANTS
    PageSize, FlashSize, CodeStart, CodeEnd, Value, Erased, Keep, NoPage,
    MaxWrite,      \* here RTC_CODEBUFFER_SIZE: the words of the code buffer
    OPCODE_JMP, OPCODE_CALL,
    Native,        \* the addresses of the imports, which head the function list
    Helper,        \* the numbers of the run-time helpers (enum embed_func) ...
    HelperAt,      \* ... and their addresses
    MaxResets      \* bound: the resets

VARIABLES
    flash, pagebuffer, pageaddress, buf_len, safe_end, data, done, chunk, pc,
    program,      \* what the translator makes of the module (see WellFormed)
    stage,        \* "bind", "emit", "refill", "run"; or the device has stopped:
                  \* "notfound" (an import), "nomemory" (sys_malloc failed)
    number,       \* the index in the function list that is being compiled
    left,         \* the words of that function that are not yet flushed
    next_method,  \* rtc_start_of_next_method
    compiled,     \* func->compiled of the functions compiled so far
    ts_pc,        \* ts.pc
    prev_pc,      \* prev_pc of branch_pc_refill
    walk,         \* pc of branch_pc_refill
    resets

writer == <<flash, pagebuffer, pageaddress, buf_len, safe_end, data, done, chunk, pc>>
driver == <<stage, number, left, next_method, compiled, ts_pc, prev_pc, walk>>
vars   == <<writer, driver, program, resets>>

Writer == INSTANCE FlashPages

ASSUME DriverAssumption ==
    /\ Value \subseteq Nat /\ {OPCODE_JMP, OPCODE_CALL} \subseteq Value
    /\ CodeStart .. CodeEnd \subseteq Value
    /\ Writer!FlashAssumption
    /\ Native \in Seq(Value) /\ HelperAt \in [Helper -> Value]
    /\ Helper \subseteq Value /\ MaxResets \in Nat
    /\ OPCODE_JMP # OPCODE_CALL
    /\ MaxWrite >= 2     \* a JMP with its address fits the code buffer
    \* Offsets in bytes (ts.pc, prev_pc) and word addresses (func->compiled) are
    \* u16, and what is flushed is counted before the writer can refuse it.  The
    \* refill counts ts.pc on and does not read it again: ts_pc has no width then.
    /\ 2 * (CodeEnd - CodeStart + MaxWrite) < 2^16 /\ \A v \in Value : v < 2^16

\* A program is the code of its functions in a row; opcodes are the places of
\* the first words of the instructions, cuts the offsets at which the functions
\* end, and block_pc the offsets of the labels; known are the imports whose
\* names the host has in imports_name.
Functions(p)   == Len(Native) + Len(p.cuts)
FunctionCut(p, f) == IF f = 0 THEN 0 ELSE p.cuts[f]
FunctionCode(p, f) == SubSeq(p.code, FunctionCut(p, f - 1) + 1, p.cuts[f])

\* What the emitters make (JumpsIntact of CodeEmitter, CallsFound of Groups): a
\* module has a function of its own; a JMP is followed by a label and a CALL by
\* a helper or a function.  The walk takes any other word for an instruction,
\* the RAM address behind the opcode of an STS with it, which is neither opcode.
WellFormed(p) ==
    LET size      == Len(p.code)
        Begins(k) == k \in p.opcodes \cup {size}
    IN  /\ p.known \subseteq DOMAIN Native
        /\ p.code \in Seq(Value) /\ p.cuts \in Seq(0 .. size) /\ p.cuts # <<>>
        /\ p.cuts[Len(p.cuts)] = size
        /\ \A f \in 1 .. Len(p.cuts) : FunctionCut(p, f - 1) <= p.cuts[f]
        /\ p.opcodes \subseteq 0 .. size - 1 /\ Begins(0)
        /\ p.block_pc \in [DOMAIN p.block_pc -> 0 .. size]
        /\ \A k \in p.opcodes :
             LET word == p.code[k + 1]
             IN  /\ word \notin {OPCODE_JMP, OPCODE_CALL} => Begins(k + 1)
                 /\ word \in {OPCODE_JMP, OPCODE_CALL} =>
                      k + 1 < size /\ k + 1 \notin p.opcodes /\ Begins(k + 2)
                 /\ word = OPCODE_JMP => p.code[k + 2] \in DOMAIN p.block_pc
                 /\ word = OPCODE_CALL => p.code[k + 2] \in Helper \cup (0 .. Functions(p) - 1)

InitDriver ==
    /\ stage = "bind" /\ number = 1 /\ left = <<>>
    /\ next_method = CodeStart /\ compiled = <<>>
    /\ ts_pc = 0 /\ prev_pc = 0 /\ walk = 0

Init == Writer!Init /\ WellFormed(program) /\ InitDriver /\ resets = 0

\* Between two calls of the writer.
Returned == pc = "ready"
Closed   == pageaddress = 0

\* wasm_compile_module binds an import to the function of the host.
BindImport ==
    /\ stage = "bind" /\ Returned /\ Closed /\ number <= Len(Native)
    /\ number \in program.known
    /\ compiled' = Append(compiled, Native[number])
    /\ number' = number + 1
    /\ UNCHANGED <<writer, stage, left, next_method, ts_pc, prev_pc, walk, program, resets>>

\* It panics when the host has no function of that name.
ImportMissing ==
    /\ stage = "bind" /\ Returned /\ Closed /\ number <= Len(Native)
    /\ number \notin program.known
    /\ stage' = "notfound"
    /\ UNCHANGED <<writer, number, left, next_method, compiled, ts_pc, prev_pc, walk, program, resets>>

\* wasm_compile_function opens the writer where the last function ended.
OpenFunction ==
    /\ stage = "bind" /\ Returned
    /\ number \in Len(Native) + 1 .. Functions(program)
    /\ Writer!OpenRaw(next_method)
    /\ left' = FunctionCode(program, number - Len(Native))
    /\ stage' = "emit"
    /\ UNCHANGED <<number, next_method, compiled, ts_pc, prev_pc, walk, program, resets>>

\* The code buffer is flushed when it is full, with fewer words when pairs were
\* deleted from it, and at the end of the function.
FlushToFlash(n) ==
    /\ stage = "emit" /\ Returned
    /\ n <= Len(left)
    /\ Writer!WriteCall(SubSeq(left, 1, n))
    /\ left' = SubSeq(left, n + 1, Len(left))
    /\ ts_pc' = ts_pc + n
    /\ UNCHANGED <<stage, number, next_method, compiled, prev_pc, walk, program, resets>>

\* Mutant, not the code: the address is taken when the start has moved on.
CloseFunctionLate ==
    /\ stage = "emit" /\ Returned /\ left = <<>>
    /\ next_method' = Writer!RawPosition
    /\ compiled' = Append(compiled, next_method')
    /\ Writer!CloseCall
    /\ number' = number + 1
    /\ stage' = "bind"
    /\ UNCHANGED <<left, ts_pc, prev_pc, walk, program, resets>>

\* Mutant, not the code: the position is asked for when the writer is closed.
CloseFunctionSwapped ==
    /\ stage = "emit" /\ Returned /\ left = <<>>
    /\ compiled' = Append(compiled, next_method)
    /\ next_method' = buf_len
    /\ Writer!CloseCall
    /\ number' = number + 1
    /\ stage' = "bind"
    /\ UNCHANGED <<left, ts_pc, prev_pc, walk, program, resets>>

\* The end of wasm_compile_function: the function's address, then compile_close.
CloseFunction ==
    /\ stage = "emit" /\ Returned /\ left = <<>>
    /\ compiled' = Append(compiled, next_method)
    /\ next_method' = Writer!RawPosition
    /\ Writer!CloseCall
    /\ number' = number + 1
    /\ stage' = "bind"
    /\ UNCHANGED <<left, ts_pc, prev_pc, walk, program, resets>>

\* Mutant, not the code: the start of the next method is not set back.
StartRefillBehind ==
    /\ stage = "bind" /\ Returned /\ number > Functions(program)
    /\ Writer!OpenRaw(next_method)
    /\ prev_pc' = ts_pc /\ walk' = 0
    /\ stage' = "refill"
    /\ UNCHANGED <<next_method, number, left, compiled, ts_pc, program, resets>>

\* The head of branch_pc_refill.
StartRefill ==
    /\ stage = "bind" /\ Returned /\ number > Functions(program)
    /\ next_method' = CodeStart
    /\ Writer!OpenRaw(CodeStart)
    /\ prev_pc' = ts_pc /\ walk' = 0
    /\ stage' = "refill"
    /\ UNCHANGED <<number, left, compiled, ts_pc, program, resets>>

\* The word that pgm_read_word_far reads from the chip at the offset k.
WordAt(k) == flash[CodeStart + k]

Walking == stage = "refill" /\ Returned /\ walk < prev_pc

\* The address of the label that the word behind a JMP names.
LabelAt(n) == CodeStart + program.block_pc[n]

\* The switch over func_id: a helper of the run time, or a function of the list
\* (whose numbers start at 0).
CalleeAt(n) == IF n \in Helper THEN HelperAt[n] ELSE compiled[n + 1]

\* Mutant, not the code: the walk goes on with the word behind the JMP.
RefillJumpInside ==
    /\ Walking /\ WordAt(walk) = OPCODE_JMP
    /\ Writer!WriteCall(<<OPCODE_JMP, LabelAt(WordAt(walk + 1))>>)
    /\ walk' = walk + 1 /\ ts_pc' = ts_pc + 2
    /\ UNCHANGED <<stage, number, left, next_method, compiled, prev_pc, program, resets>>

RefillJump ==
    /\ Walking /\ WordAt(walk) = OPCODE_JMP
    /\ Writer!WriteCall(<<OPCODE_JMP, LabelAt(WordAt(walk + 1))>>)
    /\ walk' = walk + 2 /\ ts_pc' = ts_pc + 2
    /\ UNCHANGED <<stage, number, left, next_method, compiled, prev_pc, program, resets>>

RefillCall ==
    /\ Walking /\ WordAt(walk) = OPCODE_CALL
    /\ Writer!WriteCall(<<OPCODE_CALL, CalleeAt(WordAt(walk + 1))>>)
    /\ walk' = walk + 2 /\ ts_pc' = ts_pc + 2
    /\ UNCHANGED <<stage, number, left, next_method, compiled, prev_pc, program, resets>>

\* Mutant, not the code: the cursor moves and the walk does not.
RefillSkipStands ==
    /\ Walking /\ WordAt(walk) \notin {OPCODE_JMP, OPCODE_CALL}
    /\ Writer!WriteCall(<<Keep>>)
    /\ UNCHANGED <<walk, stage, number, left, next_method, compiled, ts_pc, prev_pc, program, resets>>

\* Any other word stays as it is: wkreprog_skip(2).
RefillSkip ==
    /\ Walking /\ WordAt(walk) \notin {OPCODE_JMP, OPCODE_CALL}
    /\ Writer!WriteCall(<<Keep>>)
    /\ walk' = walk + 1
    /\ UNCHANGED <<stage, number, left, next_method, compiled, ts_pc, prev_pc, program, resets>>

\* The end of branch_pc_refill; wasm_call_entry_method comes next.
RefillClose ==
    /\ stage = "refill" /\ Returned /\ walk >= prev_pc
    /\ next_method' = Writer!RawPosition
    /\ Writer!CloseCall
    /\ stage' = "run"
    /\ UNCHANGED <<number, left, compiled, ts_pc, prev_pc, walk, program, resets>>

WriterStep == Writer!Step /\ UNCHANGED <<driver, program, resets>>

\* compile_open finds no memory for the page buffer.
OpenFails ==
    /\ stage = "bind" /\ number > Len(Native)
    /\ Writer!OpenFails
    /\ stage' = "nomemory"
    /\ UNCHANGED <<number, left, next_method, compiled, ts_pc, prev_pc, walk, program, resets>>

\* Reset or power failure: main starts again with the same module.
Reset ==
    /\ resets < MaxResets
    /\ resets' = resets + 1
    /\ Writer!Reset
    /\ stage' = "bind" /\ number' = 1 /\ left' = <<>>
    /\ next_method' = CodeStart /\ compiled' = <<>>
    /\ ts_pc' = 0 /\ prev_pc' = 0 /\ walk' = 0
    /\ UNCHANGED program

\* What the processor does by itself.
Step ==
    \/ BindImport
    \/ ImportMissing
    \/ OpenFunction
    \/ \E n \in 1 .. MaxWrite : FlushToFlash(n)
    \/ CloseFunction
    \/ StartRefill
    \/ RefillJump
    \/ RefillCall
    \/ RefillSkip
    \/ RefillClose
    \/ WriterStep

Next == Step \/ OpenFails \/ Reset

Spec == Init /\ [][Next]_vars

-----------------------------------------------------------------------------
Size == Len(program.code)
TooBig == Size > CodeEnd - CodeStart

\* The function with the number n as the program calls it, from 0 on.
FunctionAt(n) ==
    IF n < Len(Native) THEN Native[n + 1]
    ELSE CodeStart + FunctionCut(program, n - Len(Native))

\* The word at the offset k of the program with its addresses.
Linked(k) ==
    LET first == k - 1 \in program.opcodes
        word  == program.code[k + 1]
    IN  IF first /\ program.code[k] = OPCODE_JMP THEN CodeStart + program.block_pc[word]
        ELSE IF first /\ program.code[k] = OPCODE_CALL
        THEN IF word \in Helper THEN HelperAt[word] ELSE FunctionAt(word)
        ELSE word

\* The shape of the driver's state.
TypeOK ==
    /\ stage \in {"bind", "emit", "refill", "run", "notfound", "nomemory"}
    /\ number \in 1 .. Functions(program) + 1
    /\ left \in Seq(Value)
    /\ next_method \in CodeStart .. CodeEnd
    /\ compiled \in Seq(Value) /\ Len(compiled) = number - 1
    /\ ts_pc \in Nat /\ prev_pc \in Nat /\ walk \in 0 .. prev_pc
    /\ resets \in 0 .. MaxResets

\* When the entry method is called, the chip holds the module with every label
\* and every function in its place, and the entry is the last function, whatever
\* resets came before and wherever they struck (line 451 of compile.c).
LinkedAtEntry ==
    stage = "run" /\ Returned =>
        /\ \A k \in 0 .. Size - 1 : WordAt(k) = Linked(k)
        /\ compiled[Len(compiled)] = FunctionAt(Functions(program) - 1)

\* The walk and the writer's cursor go together: what is read next is still the
\* number that was written first, and what lies behind the cursor has its
\* address, in the chip or in the open page.  The page that is read is open in
\* RAM, and may just have been programmed.
RefillInStep ==
    stage = "refill" /\ Returned =>
        /\ Writer!RawPosition = CodeStart + walk
        /\ prev_pc = Size
        /\ walk \in program.opcodes \cup {Size}
        /\ \A k \in walk .. Size - 1 : WordAt(k) = program.code[k + 1]
        /\ \A k \in 0 .. walk - 1 : Writer!Image[CodeStart + k] = Linked(k)

OwnCells == CodeStart .. CodeStart + Size - 1

\* The cells that are not the program's keep what they hold, although they
\* share pages with it; only power lost while a page is erased changes them
\* (line 26 of compile.c brings the refill back to the start).
NeighboursKept ==
    [][\/ Reset /\ pc = "program"
       \/ \A a \in Writer!Addr \ OwnCells : Writer!Image'[a] = Writer!Image[a]]_vars

\* A module that fits and whose imports the host has is compiled and run, if
\* there is memory for the page buffer and the resets end.
Boots ==
    <>(stage = "run" \/ stage = "nomemory" \/ TooBig \/ program.known # DOMAIN Native)
=============================================================================
