---------------------------- MODULE MCTranslator ----------------------------
(* The programs of the runs of Translator.                                  *)
EXTENDS TranslatorMeaning

\* An import that reports two values, and one of as many arguments as registers
\* take that answers.
ImportTypes == <<[args |-> 2, result |-> "none"], [args |-> 5, result |-> "i32"]>>
ImportAnswer(f, args) == (args[1] + 2 * args[Len(args)]) % Modulus

Function(args, result, locals, size, ops, values) ==
    [args |-> args, result |-> result, locals |-> locals, size |-> size, ops |-> ops,
     values |-> values]

Bits == {0, 1}

\* One function with a result: blocks, loops and branches among few operands.
Control ==
    << Function(0, "i32", 0, 8, {"const", "block", "loop", "br", "br_if", "drop"}, Bits) >>

\* The same with more operands and no loops: a branch leaves up to five behind.
Unwinding == << Function(0, "i32", 0, 10, {"const", "block", "br", "br_if"}, Bits) >>

\* Operands move through the instructions that compute and a local variable.
Data ==
    << Function(0, "i32", 1, 8, {"const", "sub", "eqz", "select", "get", "set", "tee"}, Bits) >>

\* A function with two parameters and a local variable, called by the entry
\* function, which also reports to the first import.
Calls == << Function(2, "i32", 1, 5, {"get", "set", "sub", "block", "return"}, {}),
            Function(0, "none", 0, 7, {"const", "call"}, {1, 2}) >>

\* Calls of the imports, the print of the stack that is nop, and the stop.
Imported ==
    << Function(0, "i32", 0, 8, {"const", "call", "nop", "unreachable"}, Bits) >>

Modules == {Control, Unwinding, Data, Calls, Imported}

\* A function that leaves early in front of one with blocks.
Leaving == {<< Function(1, "i32", 0, 4, {"const", "return"}, Bits),
               Function(0, "none", 0, 7, {"const", "block", "br_if", "drop"}, Bits) >>}
=============================================================================
