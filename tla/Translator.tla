----------------------------- MODULE Translator -----------------------------
(***************************************************************************)
(* emit_single_instruction of src/src/instructions.c and the compilation of *)
(* the functions of a module in src/src/compile.c: WebAssembly in, AVR code *)
(* out, in one pass with a static stack height and a table of blocks.       *)
(*                                                                         *)
(* The program is not given in advance: at every step the next instruction  *)
(* is any one that WebAssembly's validation admits there, in code that      *)
(* cannot be reached too, so that a run covers every program of the         *)
(* alphabet up to the bound on its length, but for those that               *)
(* LeaveAllowed, EndAllowed and SetBefore exclude by name.                  *)
(* TranslatorMeaning executes the code when the last function is complete.  *)
(*                                                                         *)
(* Instructions that only load, store or compute are represented by one of  *)
(* each shape: const, local.get/set/tee, drop, sub, eqz, select, nop.  A    *)
(* position in the code counts emitted groups; CodeEmitter has the bytes    *)
(* and the peephole pass.                                                  *)
(***************************************************************************)
EXTENDS Integers, Sequences, FiniteSets

CONSTANTS
    Shapes,       \* the modules: their functions, [args, result, locals, size, ops, values]
    Modulus,      \* bound: values are 0 .. Modulus-1
    Imports,      \* the types of the imports, [args, result]
    MaxNesting,   \* MAX_BLOCKS_NESTED
    Liberties     \* what the programs do that this compiler gets wrong: "leave", "dead", "locals"

ASSUME TranslatorAssumption ==
    /\ Modulus \in Nat \ {0}
    /\ MaxNesting \in Nat /\ Liberties \subseteq {"leave", "dead", "locals"}

\* The arguments of an import go to the registers below R26.  The sixth would come
\* to R2..R5 and destroy the address of the memory; nothing checks it.
ASSUME ImportsAssumption ==
    /\ DOMAIN Imports = 1 .. Len(Imports) /\ Len(Imports) \in Nat
    /\ \A j \in DOMAIN Imports :
         Imports[j].args \in 0 .. 5 /\ Imports[j].result \in {"none", "i32"}

\* A module has at least one function, the entry; a function has one result or
\* none, and its counts are numbers.
ASSUME ShapesAssumption ==
    \A s \in Shapes :
        /\ DOMAIN s = 1 .. Len(s) /\ Len(s) \in Nat \ {0}
        /\ \A f \in DOMAIN s :
             s[f].args \in Nat /\ s[f].locals \in Nat /\ s[f].result \in {"none", "i32"}

VARIABLES
    funcs,       \* the functions of the module
    func,        \* the function being compiled, index in funcs
    program,     \* the wasm instructions of each function so far
    code,        \* the groups emitted
    compiled,    \* func->compiled: where each function begins
    stack_top,   \* ts.stack_top, a u16 that no function resets
    blocks,      \* blct up to blct.top: [label, stack, type]
    block_pc,    \* blct.block_pc up to blct.next_id
    ctrl,        \* validation: the function and its open blocks [loop, type, height, set, dead]
    height       \* validation: the height of the operand stack

vars == <<funcs, func, program, code, compiled, stack_top, blocks, block_pc, ctrl, height>>

N    == Len(funcs)
F    == funcs[func]

\* The imports head function_list; here they have the numbers 0, -1, ..., and the
\* functions of the module begin at 1.
Callable(f) == f \in 1 - Len(Imports) .. N
Type(f)     == IF f <= 0 THEN Imports[1 - f] ELSE funcs[f]
Arity(t) == IF t = "i32" THEN 1 ELSE 0

U16s   == {n \in Nat : n < 65536}
U16(n) == n % 65536
U8(n)  == n % 256
\* A u16 assigned to an int of 16 bits.
Int16(n) == IF n >= 32768 THEN n - 65536 ELSE n

Front(s) == SubSeq(s, 1, Len(s) - 1)
Rep(n, w) == [i \in 1 .. n |-> w]

-----------------------------------------------------------------------------
(* The groups that asm.c emits.                                             *)
Push(r)    == [op |-> "push", r |-> r]
Pop(r)     == [op |-> "pop", r |-> r]
Jmp(label) == [op |-> "jmp", label |-> label]
CallTo(f)  == [op |-> "call", f |-> f]
Group(op)  == [op |-> op]
Branch(op, n) == [op |-> op, bytes |-> n]

\* is_entry_func: the last function of the module.
Entry == N

HasFrame(f) == funcs[f].locals > 0 \/ funcs[f].args > 0

\* The offset of a local or a parameter from Y, in cells: the parameters lie
\* above the locals, the saved Y and the return address, the last one lowest.
LocalCell(i) == IF i >= F.args THEN i - F.args ELSE F.locals + 1 + (F.args - 1 - i)

\* wasm_compile_function in front of the instructions.
Prologue(f) ==
    (IF f = Entry THEN <<Group("save"), Group("membase")>> ELSE <<>>)
    \o (IF HasFrame(f) THEN <<[op |-> "enter", cells |-> funcs[f].locals]>> ELSE <<>>)

\* The way out of a function, at Return and at the End_ of the function.
Epilogue ==
    (IF F.result = "i32" THEN <<Pop(22)>> ELSE <<>>)
    \o (IF HasFrame(func) THEN <<[op |-> "leave", cells |-> F.locals]>> ELSE <<>>)
    \o (IF func = Entry THEN <<Group("restore")>> ELSE <<>>)
    \o <<Group("ret")>>

\* The block n levels out, and the values above its height as u16 arithmetic
\* has it.
Target(n) == blocks[Len(blocks) - n]
Above(top, n) == U16(top - Target(n).stack)

\* Mutant, not the code: the value already popped is counted again.
UnwindTwice(d) ==
    CASE d = 0 -> <<>>
      [] d = 1 -> <<Pop(22)>>
      [] d = 2 -> <<Pop(22), Pop(18)>>
      [] OTHER -> <<Pop(22), [op |-> "adjust", cells |-> (d * 4 % 64) \div 4]>>

\* Br and BrIf: the values above the target's height are popped, the first one
\* to R22; more than two by moving SP, with a constant of six bits.
Unwind(d) ==
    CASE d = 0 -> <<>>
      [] d = 1 -> <<Pop(22)>>
      [] d = 2 -> <<Pop(22), Pop(18)>>
      [] OTHER -> <<Pop(22), [op |-> "adjust", cells |-> ((d - 1) * 4 % 64) \div 4]>>

\* The distance BrIf skips when the condition is 0.
BrIfSkip(d) == CASE d = 0 -> 4 [] d = 1 -> 12 [] d = 2 -> 20 [] OTHER -> 22

-----------------------------------------------------------------------------
\* Validation keeps one entry for the function and one for each open block:
\* its height, the locals that every path to here has set, and whether a way out
\* of it has come: then the operand stack gives any operand that is asked for.
Opened(kind, t, h, set) ==
    [loop |-> kind = "loop", type |-> t, height |-> h, set |-> set, dead |-> FALSE]
Body(f) == <<Opened("func", funcs[f].result, 0, {})>>

Here     == ctrl[Len(ctrl)]
Operands == height - Here.height

\* Validation: the code here, or where the n-th entry was opened, cannot be reached.
Dead        == \E k \in DOMAIN ctrl : ctrl[k].dead
DeadPast(n) == \E k \in 1 .. n - 1 : ctrl[k].dead

Init ==
    /\ funcs \in Shapes
    /\ func = 1
    /\ program = [f \in 1 .. N |-> <<>>]
    /\ code = Prologue(1)
    /\ compiled = [f \in 1 .. N |-> IF f = 1 THEN 1 ELSE 0]
    /\ stack_top = 0 /\ blocks = <<>> /\ block_pc = <<>>
    /\ ctrl = Body(1) /\ height = 0

\* The instruction i is next in the program: it is in the alphabet, and there is
\* room for it and for the ends that are due.
Admit(i) ==
    /\ func <= N /\ i.op \in F.ops
    /\ Len(program[func]) + Len(ctrl) < F.size
    /\ program' = [program EXCEPT ![func] = Append(@, i)]
    /\ UNCHANGED funcs

\* An instruction in the middle of a function that does not touch the labels,
\* and for which the operand stack has, or gives, k operands.
Emits(i, k, words, top) ==
    /\ Admit(i) /\ (Operands >= k \/ Here.dead)
    /\ code' = code \o words
    /\ stack_top' = U16(top)
    /\ UNCHANGED <<func, compiled, blocks, block_pc>>

\* It takes the operands from the stack and leaves others there.
Translate(i, takes, leaves, words, top) ==
    /\ Emits(i, takes, words, top)
    /\ height' = (IF Operands >= takes THEN height - takes ELSE Here.height) + leaves

Straight == UNCHANGED ctrl

\* It leaves the block for good: the operands are gone.
WayOut(i, takes, words, top) ==
    /\ Emits(i, takes, words, top)
    /\ height' = Here.height
    /\ ctrl' = [ctrl EXCEPT ![Len(ctrl)].dead = TRUE]

Const(v) ==
    /\ func <= N /\ v \in F.values
    /\ Translate([op |-> "const", n |-> v], 0, 1, <<[op |-> "ldi", v |-> v], Push(22)>>, stack_top + 1)
    /\ Straight

\* Mutant, not the code: the static height is not lowered.
DropKeepsTop == Translate([op |-> "drop"], 1, 0, <<Pop(22)>>, stack_top) /\ Straight

Drop == Translate([op |-> "drop"], 1, 0, <<Pop(22)>>, stack_top - 1) /\ Straight

Sub ==
    Translate([op |-> "sub"], 2, 1, <<Pop(18), Pop(22), Group("sub"), Push(22)>>, stack_top - 1)
    /\ Straight

Eqz ==
    Translate([op |-> "eqz"], 1, 1,
              <<Pop(18), [op |-> "ldi", v |-> 1], [op |-> "or3", r |-> 18],
                Branch("branch_eq", 2), Group("clear"), Push(22)>>, stack_top)
    /\ Straight

Select ==
    Translate([op |-> "select"], 3, 1,
              <<Pop(22), Pop(18), [op |-> "or3", r |-> 22], Branch("branch_ne", 16),
                Pop(22), Push(18)>>, stack_top - 2)
    /\ Straight

\* nop calls print_stack, which as a C function destroys registers.
Nop == Translate([op |-> "nop"], 0, 0, <<Group("print")>>, stack_top) /\ Straight

LocalIndex == IF func > N THEN {} ELSE 0 .. F.args + F.locals - 1

\* A local that is not a parameter is read only after a set on the same path:
\* emit_local_init leaves it uninitialised.
SetBefore(i) == i < F.args \/ i \in Here.set \/ Dead \/ "locals" \in Liberties

LocalGet(i) ==
    /\ SetBefore(i)
    /\ Translate([op |-> "get", n |-> i], 0, 1,
                 <<[op |-> "ldd", k |-> LocalCell(i)], Push(22)>>, stack_top + 1)
    /\ Straight

\* LocalSet and LocalTee, which pushes the value again.
LocalStore(op, i) ==
    LET left == IF op = "tee" THEN 1 ELSE 0
    IN  /\ Translate([op |-> op, n |-> i], 1, left,
                     <<Pop(22), [op |-> "std", k |-> LocalCell(i)]>> \o Rep(left, Push(22)),
                     stack_top - 1 + left)
        /\ ctrl' = [ctrl EXCEPT ![Len(ctrl)].set = @ \cup {i}]

\* A call leaves the arguments of a wasm function where the callee finds them
\* and drops them afterwards; an import takes them in registers, the first one in
\* R22..R25, the next below.  (Validation excludes "called index out of scope".)
Call(f) ==
    LET k == Type(f).args
        left == Arity(Type(f).result)
        base == 26 - 4 * k
    IN  /\ Callable(f) /\ f < func      \* no recursion: the runs compare executions that end
        /\ Translate([op |-> "call", n |-> f], k, left,
                     (IF f <= 0 THEN Append([n \in 1 .. k |-> Pop(base + 4 * (n - 1))], CallTo(f))
                                ELSE <<CallTo(f)>> \o Rep(k, Pop(18)))
                       \o Rep(left, Push(22)),
                     stack_top - k + left)
        /\ Straight

\* Mutant, not the code: the label is taken before it is counted up.
NewLabelStale == Len(block_pc)

\* blct.next_id.
NewLabel == Len(block_pc) + 1

\* Block and Loop: a label is made; a loop's is known at once.
Block(op, t) ==
    /\ Admit([op |-> op, type |-> t])
    /\ Len(blocks) < MaxNesting
    /\ blocks' = Append(blocks, [label |-> NewLabel, stack |-> U8(stack_top), type |-> t])
    /\ block_pc' = Append(block_pc, IF op = "loop" THEN Len(code) ELSE 0)
    /\ ctrl' = Append(ctrl, Opened(op, t, height, Here.set))
    /\ UNCHANGED <<func, code, compiled, stack_top, height>>

\* What an end finds above the height of its entry.
Results == Operands = Arity(Here.type) \/ (Here.dead /\ Operands = 0)

\* The values above the height of the innermost block, as End_ counts them.
Surplus == Int16(U16(stack_top - blocks[Len(blocks)].stack))

\* Where the static height has come through dead code, which goes on counting
\* from what the way out left, to no harm: End_ drops what lies above the height
\* of its block but makes up for nothing that is missing, and at the end of a
\* function the result alone is taken away.
EndAllowed ==
    \/ "dead" \in Liberties
    \/ ~Here.dead \/ DeadPast(Len(ctrl))
    \/ IF blocks = <<>> THEN stack_top = Arity(F.result) ELSE Surplus >= 0

\* The case End_ inside a block: the values above its height are popped, the
\* first one to R22, the label is put down, and the result is pushed again.
EndBlock ==
    LET b == blocks[Len(blocks)]
        pops == [n \in 1 .. Surplus |-> IF n = 1 THEN Pop(22) ELSE Pop(18)]
        typed == Arity(b.type)
    IN  /\ func <= N /\ blocks # <<>>
        /\ Results /\ EndAllowed
        /\ program' = [program EXCEPT ![func] = Append(@, [op |-> "end"])]
        /\ code' = code \o pops \o Rep(typed, Push(22))
        /\ block_pc' = IF block_pc[b.label] = 0
                       THEN [block_pc EXCEPT ![b.label] = Len(code) + Len(pops)] ELSE block_pc
        /\ stack_top' = U16(stack_top - Len(pops) + typed)
        /\ blocks' = Front(blocks)
        /\ ctrl' = Front(ctrl) /\ height' = Here.height + Arity(Here.type)
        /\ UNCHANGED <<funcs, func, compiled>>

\* The case End_ of the function, and the next turn of wasm_compile_module.
EndFunction ==
    LET done == code \o Epilogue
    IN  /\ func <= N /\ blocks = <<>>
        /\ Results /\ EndAllowed
        /\ program' = [program EXCEPT ![func] = Append(@, [op |-> "end"])]
        /\ stack_top' = U16(stack_top - Arity(F.result))
        /\ IF func < N
           THEN /\ code' = done \o Prologue(func + 1)
                /\ compiled' = [compiled EXCEPT ![func + 1] = Len(done) + 1]
                /\ ctrl' = Body(func + 1)
           ELSE code' = done /\ ctrl' = Body(func) /\ UNCHANGED compiled
        /\ func' = func + 1
        /\ height' = 0
        /\ UNCHANGED <<funcs, blocks, block_pc>>

\* What validation asks of a branch n levels out: the values the label carries.
\* (A branch to the function's own label would index blct.block_stack with -1.)
BranchArity(n) ==
    LET c == ctrl[Len(ctrl) - n] IN IF c.loop THEN 0 ELSE Arity(c.type)

Br(n) ==
    /\ n < Len(blocks)
    /\ WayOut([op |-> "br", n |-> n], BranchArity(n),
              Unwind(Above(stack_top, n)) \o <<Jmp(Target(n).label)>>, stack_top)

BrIf(n) ==
    /\ n < Len(blocks)
    /\ LET d == Above(U16(stack_top - 1), n)
       IN  Translate([op |-> "br_if", n |-> n], 1 + BranchArity(n), BranchArity(n),
                     <<Pop(22), Group("test"), Branch("branch_eq", BrIfSkip(d))>>
                       \o Unwind(d) \o <<Jmp(Target(n).label)>>, stack_top - 1)
    /\ Straight

\* Where leaving a function early does no harm: the operands below the result
\* are gone, or the frame is dropped with them.
LeaveAllowed(k) == "leave" \in Liberties \/ Dead \/ HasFrame(func) \/ height = k

Return ==
    LET k == Arity(F.result)
    IN  /\ func <= N /\ LeaveAllowed(k)
        /\ WayOut([op |-> "return"], k, Epilogue, stack_top - k)

Unreachable ==
    /\ func <= N
    /\ WayOut([op |-> "unreachable"], 0, <<Group("stop")>>, stack_top)

Next ==
    \/ \E v \in 0 .. Modulus - 1 : Const(v)
    \/ Drop
    \/ Sub
    \/ Eqz
    \/ Select
    \/ Nop
    \/ \E i \in LocalIndex : LocalGet(i)
    \/ \E op \in {"set", "tee"}, i \in LocalIndex : LocalStore(op, i)
    \/ \E f \in 1 - Len(Imports) .. N - 1 : Call(f)
    \/ \E op \in {"block", "loop"}, t \in {"none", "i32"} : Block(op, t)
    \/ EndBlock
    \/ EndFunction
    \/ \E n \in 0 .. MaxNesting - 1 : Br(n)
    \/ \E n \in 0 .. MaxNesting - 1 : BrIf(n)
    \/ Return
    \/ Unreachable

Spec == Init /\ [][Next]_vars

-----------------------------------------------------------------------------
Complete == func > N

\* The shape of the state.
TypeOK ==
    /\ func \in 1 .. N + 1
    /\ stack_top \in U16s /\ height \in Nat
    /\ Len(blocks) = Len(ctrl) - 1
    /\ \A n \in DOMAIN blocks :
         blocks[n].label \in DOMAIN block_pc /\ blocks[n].stack \in 0 .. 255
    /\ \A l \in DOMAIN block_pc : block_pc[l] \in 0 .. Len(code)
    /\ \A p \in DOMAIN code : code[p].op = "jmp" => code[p].label \in DOMAIN block_pc

\* The height that ts.stack_top keeps is the height WebAssembly's validation
\* gives the operand stack, wherever the code can be reached, and so is the
\* height noted for each block that is opened there ("restore the stack
\* balance", lines 99, 165 and 227 of instructions.c).
StackTopIsHeight ==
    /\ ~Dead => stack_top = height
    /\ \A n \in DOMAIN blocks : ~DeadPast(n + 1) => blocks[n].stack = ctrl[n + 1].height

\* The assertion in BrIf, "stack not balanced!": no reachable place of a program
\* is below the height of a block that is open there.
BalancedBlocks == ~Dead => \A n \in DOMAIN blocks : stack_top >= blocks[n].stack
=============================================================================
