--------------------------- MODULE WasmSemantics ---------------------------
(***************************************************************************)
(* The reference: what the WebAssembly specification says the instructions  *)
(* compiled by src/src/instructions.c do.  A function is a record of its    *)
(* type and its code; the functions 0, -1, ... are the imports, whose calls *)
(* are reported with their arguments.  Values are integers modulo Modulus.  *)
(***************************************************************************)
EXTENDS Integers, Sequences

CONSTANTS
    Modulus,   \* bound: values are 0 .. Modulus-1 (2^32 in WebAssembly)
    Imports,   \* the types of the imports ...
    Answer(_, _), \* ... and what they answer to their arguments
    Fuel       \* bound: 2^Fuel steps of an execution are compared

Opener(op) == op \in {"block", "loop"}

\* The position of the end of the block that is open at i, depth levels out.
RECURSIVE MatchEnd(_, _, _)
MatchEnd(c, i, depth) ==
    CASE c[i].op = "end" /\ depth = 0 -> i
      [] c[i].op = "end" /\ depth # 0 -> MatchEnd(c, i + 1, depth - 1)
      [] Opener(c[i].op) -> MatchEnd(c, i + 1, depth + 1)
      [] OTHER -> MatchEnd(c, i + 1, depth)

Arity(t) == IF t = "i32" THEN 1 ELSE 0

Front(s) == SubSeq(s, 1, Len(s) - 1)
Top(s)   == s[Len(s)]
DropTop(s, n) == SubSeq(s, 1, Len(s) - n)
TopN(s, n)    == SubSeq(s, Len(s) - n + 1, Len(s))

\* A frame: function, position, operand stack, labels and locals.  A label
\* keeps the height below it, the values a branch carries and where it leads.
Frame(funcs, f, args) ==
    [f |-> f, ip |-> 1, stack |-> <<>>, labels |-> <<>>,
     locals |-> args \o [n \in 1 .. funcs[f].locals |-> 0]]

\* A branch to the label n levels out.
Branch(fr, n) ==
    LET d == Len(fr.labels) - n
        l == fr.labels[d]
    IN  [fr EXCEPT !.stack = SubSeq(fr.stack, 1, l.height) \o TopN(fr.stack, l.arity),
                   !.labels = SubSeq(fr.labels, 1, IF l.loop THEN d ELSE d - 1),
                   !.ip = l.cont]

\* The caller goes on with the results of the frame that returns.
Leave(st, results) ==
    LET rest == Front(st.frames)
    IN  IF rest = <<>> THEN [st EXCEPT !.frames = <<>>, !.status = "done", !.result = results]
        ELSE [st EXCEPT !.frames = Front(rest) \o
                <<[Top(rest) EXCEPT !.stack = Top(rest).stack \o results]>>]

WasmStep(funcs, st) ==
    LET fr   == Top(st.frames)
        code == funcs[fr.f].code
        i    == code[fr.ip]
        s    == fr.stack
        With(new) == [st EXCEPT !.frames = Front(st.frames) \o <<new>>]
        On(stack) == With([fr EXCEPT !.stack = stack, !.ip = fr.ip + 1])
        Results   == TopN(s, Arity(funcs[fr.f].result))
    IN  CASE i.op = "const" -> On(Append(s, i.n))
          [] i.op = "drop"  -> On(Front(s))
          [] i.op = "get"   -> On(Append(s, fr.locals[i.n + 1]))
          [] i.op \in {"set", "tee"} ->
               With([fr EXCEPT !.locals[i.n + 1] = Top(s), !.ip = fr.ip + 1,
                               !.stack = IF i.op = "set" THEN Front(s) ELSE s])
          [] i.op = "sub"   -> On(Append(DropTop(s, 2), (s[Len(s) - 1] - Top(s)) % Modulus))
          [] i.op = "eqz"   -> On(Append(Front(s), IF Top(s) = 0 THEN 1 ELSE 0))
          [] i.op = "select" ->
               On(Append(DropTop(s, 3), IF Top(s) # 0 THEN s[Len(s) - 2] ELSE s[Len(s) - 1]))
          [] Opener(i.op) ->
               With([fr EXCEPT !.ip = fr.ip + 1,
                     !.labels = Append(fr.labels,
                        [height |-> Len(s), loop |-> i.op = "loop",
                         arity |-> IF i.op = "loop" THEN 0 ELSE Arity(i.type),
                         cont |-> IF i.op = "loop" THEN fr.ip + 1
                                  ELSE MatchEnd(code, fr.ip + 1, 0) + 1])])
          [] i.op = "end" /\ fr.labels # <<>> ->
               With([fr EXCEPT !.labels = Front(fr.labels), !.ip = fr.ip + 1])
          [] i.op = "br"    -> With(Branch(fr, i.n))
          [] i.op = "br_if" -> IF Top(s) # 0 THEN With(Branch([fr EXCEPT !.stack = Front(s)], i.n))
                               ELSE On(Front(s))
          [] i.op = "return" \/ (i.op = "end" /\ fr.labels = <<>>) -> Leave(st, Results)
          [] i.op = "nop"   -> On(s)
          [] i.op = "call" /\ i.n <= 0 ->
               LET import == Imports[1 - i.n]
                   args   == TopN(s, import.args)
                   left   == [n \in 1 .. Arity(import.result) |-> Answer(i.n, args)]
               IN  [On(DropTop(s, import.args) \o left) EXCEPT
                       !.trace = Append(st.trace, <<i.n, args>>)]
          [] i.op = "call" /\ i.n > 0 ->
               LET k == funcs[i.n].args
               IN  [st EXCEPT !.frames = Front(st.frames)
                       \o <<[fr EXCEPT !.stack = DropTop(s, k), !.ip = fr.ip + 1],
                            Frame(funcs, i.n, TopN(s, k))>>]
          [] i.op = "unreachable" -> [st EXCEPT !.status = "trap"]

\* At most 2^k steps.
RECURSIVE WasmRun(_, _, _)
WasmRun(funcs, st, k) ==
    IF st.status # "run" THEN st
    ELSE IF k > 0 THEN WasmRun(funcs, WasmRun(funcs, st, k - 1), k - 1)
    ELSE WasmStep(funcs, st)

\* Calling the function f of a module: how it ends, its result, and the trace
\* of the values reported to the import.
WasmCall(funcs, f) ==
    WasmRun(funcs, [frames |-> <<Frame(funcs, f, <<>>)>>, status |-> "run",
                    result |-> <<>>, trace |-> <<>>], Fuel)
=============================================================================
