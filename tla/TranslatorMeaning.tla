------------------------- MODULE TranslatorMeaning -------------------------
(***************************************************************************)
(* What the code of Translator does: when the last function is complete its *)
(* code is executed (AvrMachine), as emitted and as the peephole pass leaves *)
(* it, and compared with the program's meaning (WasmSemantics).             *)
(***************************************************************************)
EXTENDS Translator

CONSTANTS
    Answer(_, _), \* what an import answers to its arguments
    Fuel,         \* bound: 2^Fuel steps of an execution are compared
    Junk          \* what a register holds that nothing has set

ASSUME MeaningAssumption == Junk \notin 0 .. Modulus - 1

Wasm == INSTANCE WasmSemantics
Avr  == INSTANCE AvrMachine

\* rtc_optimise on the code of all functions: the PUSH/POP pairs go, and what
\* lies behind a pair moves (CodeEmitter has the buffer this happens in).
PairStarts == {p \in 1 .. Len(code) - 1 : code[p] = Push(22) /\ code[p + 1] = Pop(22)}

\* Mutant, not the code: a label in front of a pair moves as well.
MovedByToo(p) == 2 * Cardinality({q \in PairStarts : q <= p})

MovedBy(p) == 2 * Cardinality({q \in PairStarts : q < p})

OptimisedCode ==
    LET kept == SelectSeq([p \in DOMAIN code |-> p], LAMBDA p : {p, p - 1} \cap PairStarts = {})
    IN  [n \in DOMAIN kept |-> code[kept[n]]]

\* The program as WebAssembly runs it, and its code as the machine does: as it
\* is emitted and as it is after the peephole pass.
WasmOutcome ==
    Wasm!WasmCall([f \in 1 .. N |-> [args |-> funcs[f].args, result |-> funcs[f].result,
                                     locals |-> funcs[f].locals, code |-> program[f]]], Entry)
Labels == [l \in DOMAIN block_pc |-> block_pc[l] + 1]
EmittedOutcome == Avr!AvrCall(code, Labels, compiled, compiled[Entry])
OptimisedOutcome ==
    LET moved == [f \in 1 .. N |-> compiled[f] - MovedBy(compiled[f])]
    IN  Avr!AvrCall(OptimisedCode, [l \in DOMAIN Labels |-> Labels[l] - MovedBy(Labels[l])],
                    moved, moved[Entry])

Prefix(s, t) == Len(s) <= Len(t) /\ SubSeq(t, 1, Len(s)) = s

Agree(w, a) ==
    CASE w.status = "done" ->
           /\ a.status = "done" /\ a.trace = w.trace
           /\ funcs[Entry].result = "i32" => a.reg[22] = w.result[1]
           /\ a.stack = <<>> /\ a.y = 0
      [] w.status = "trap" -> a.status = "trap" /\ a.trace = w.trace
      [] OTHER -> /\ a.status # "crash"
                  /\ Prefix(w.trace, a.trace) \/ Prefix(a.trace, w.trace)

\* The compiled code means what the program means: it ends as the program does,
\* with the same result and the same calls of the imports, in the same order and
\* with the same arguments, and it gives the caller back its stack and its Y.
CodeMeansProgram == Complete => Agree(WasmOutcome, EmittedOutcome)

\* Deleting the PUSH/POP pairs does not change that: no jump that is ever taken
\* leads between the two halves of a pair, no relative branch, whose distance is
\* a constant in the code, reaches over one, and every label is moved along.
OptimisedMeansProgram == Complete => Agree(WasmOutcome, OptimisedOutcome)
=============================================================================
