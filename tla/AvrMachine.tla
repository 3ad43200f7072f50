----------------------------- MODULE AvrMachine -----------------------------
(***************************************************************************)
(* The part of the AVR the generated code uses, with the groups of          *)
(* instructions that asm.c emits together as one instruction each: 32-bit   *)
(* values in R22..R25, R18..R21 and below, the frame pointer Y, the Z flag and the *)
(* stack in SRAM.  A stack cell is a value, or the return address and the   *)
(* saved Y of a call, which together take the four bytes of a value.        *)
(* Junk is what an uninitialised cell or a misread register holds.         *)
(***************************************************************************)
EXTENDS Integers, Sequences

CONSTANTS Modulus, Junk,
          Imports,       \* the types of the imports ...
          Answer(_, _),  \* ... and what they answer to their arguments
          Fuel           \* bound: 2^Fuel wasm steps of an execution are compared

\* The bytes of an emitted group (asm.c and asm.h).
Bytes(i) ==
    CASE i.op \in {"push", "pop", "ldi", "ldd", "std", "test", "sub"} -> 8
      [] i.op \in {"or3", "membase"} -> 6
      [] i.op \in {"branch_eq", "branch_ne", "clear", "ret"} -> 2
      [] i.op \in {"jmp", "call", "stop", "print"} -> 4
      [] i.op \in {"adjust", "leave"} -> 10
      [] i.op = "enter" -> 14
      [] i.op \in {"save", "restore"} -> 32

\* Where a relative branch at position p over n bytes leads; 0 if that is not
\* the beginning of a group.
Skip(code, p, n) ==
    LET Size[q \in p + 1 .. Len(code) + 1] ==
            IF q = p + 1 THEN 0 ELSE Size[q - 1] + Bytes(code[q - 1])
        hits == {q \in p + 1 .. Len(code) + 1 : Size[q] = n}
    IN  IF hits = {} THEN 0 ELSE CHOOSE q \in hits : \A r \in hits : q <= r

\* Stack cells.  A frame cell with the return address Saved stands for the
\* registers R2..R17 that emit_x_call_save pushes.
Value(v)    == [kind |-> "value", v |-> v]
Link(ret)   == [kind |-> "frame", ret |-> ret, y |-> 0]
Saved       == -1
IsCell(c)   == c.kind = "frame"
AsValue(c)  == IF IsCell(c) THEN Junk ELSE c.v

Crash(m) == [m EXCEPT !.status = "crash"]

\* Back from a C function: of the registers here R18..R25 need not be kept.
Returned(m, x) == [m EXCEPT !.reg[18] = Junk, !.reg[22] = x]

\* One group.  jump and target map the operands of JMP and CALL to positions in
\* the code, as branch_pc_refill writes them; calls of an import report the
\* arguments avr-gcc passes in R22, R18 and below.
AvrStep(code, jump, target, m) ==
    LET i == code[m.ip]
        n == Len(m.stack)
        Go(m2) == [m2 EXCEPT !.ip = m.ip + 1]
        Cell(k) == m.y - k          \* the cell k places above the frame pointer
    IN  CASE i.op = "push" -> Go([m EXCEPT !.stack = Append(@, Value(m.reg[i.r]))])
          [] i.op = "pop"  -> IF n = 0 THEN Crash(m)
                              ELSE Go([m EXCEPT !.stack = SubSeq(@, 1, n - 1),
                                                !.reg[i.r] = AsValue(m.stack[n])])
          [] i.op = "ldi"  -> Go([m EXCEPT !.reg[22] = i.v])
          [] i.op = "ldd"  -> IF Cell(i.k) \notin 1 .. n THEN Crash(m)
                              ELSE Go([m EXCEPT !.reg[22] = AsValue(m.stack[Cell(i.k)])])
          [] i.op = "std"  -> IF Cell(i.k) \notin 1 .. n THEN Crash(m)
                              ELSE Go([m EXCEPT !.stack[Cell(i.k)] = Value(m.reg[22])])
          [] i.op = "clear" -> Go([m EXCEPT !.reg[22] = IF @ = 1 THEN 0 ELSE Junk])
          [] i.op = "test" ->
               IF m.reg[22] = Junk THEN Crash(m)
               ELSE Go([m EXCEPT !.z = (m.reg[22] = 0)])
          [] i.op = "or3" ->      \* destroys the value it tests
               IF m.reg[i.r] = Junk THEN Crash(m)
               ELSE Go([m EXCEPT !.z = (m.reg[i.r] = 0), !.reg[i.r] = Junk])
          [] i.op = "sub"  -> Go([m EXCEPT !.reg[22] =
                                 IF Junk \in {m.reg[22], m.reg[18]} THEN Junk
                                 ELSE (m.reg[22] - m.reg[18]) % Modulus])
          [] i.op \in {"branch_eq", "branch_ne"} ->
               IF m.z = (i.op = "branch_eq")
               THEN IF Skip(code, m.ip, i.bytes) = 0 THEN Crash(m)
                    ELSE [m EXCEPT !.ip = Skip(code, m.ip, i.bytes)]
               ELSE Go(m)
          [] i.op = "adjust" -> IF i.cells > n THEN Crash(m)
                                ELSE Go([m EXCEPT !.stack = SubSeq(@, 1, n - i.cells)])
          [] i.op = "jmp"  -> [m EXCEPT !.ip = jump[i.label]]
          [] i.op = "call" ->
               IF i.f <= 0
               THEN LET import == Imports[1 - i.f]
                        args   == [k \in 1 .. import.args |-> m.reg[26 - 4 * k]]
                    IN  Go([Returned(m, IF import.result = "none" THEN Junk ELSE Answer(i.f, args))
                               EXCEPT !.trace = Append(@, <<i.f, args>>)])
               ELSE [m EXCEPT !.stack = Append(@, Link(m.ip + 1)),
                              !.ip = target[i.f]]
          [] i.op = "enter" ->
               IF n = 0 \/ ~IsCell(m.stack[n]) THEN Crash(m)
               ELSE Go([m EXCEPT !.stack = [@ EXCEPT ![n].y = m.y] \o [k \in 1 .. i.cells |-> Value(Junk)],
                                 !.y = n + i.cells])
          [] i.op = "leave" ->
               IF m.y - i.cells \notin 1 .. n \/ ~IsCell(m.stack[m.y - i.cells]) THEN Crash(m)
               ELSE Go([m EXCEPT !.stack = SubSeq(@, 1, m.y - i.cells),
                                 !.y = m.stack[m.y - i.cells].y])
          [] i.op = "ret"  ->
               IF n = 0 \/ ~IsCell(m.stack[n]) \/ m.stack[n].ret = Saved THEN Crash(m)
               ELSE IF m.stack[n].ret = 0
                    THEN [m EXCEPT !.status = "done", !.stack = SubSeq(@, 1, n - 1)]
                    ELSE [m EXCEPT !.stack = SubSeq(@, 1, n - 1), !.ip = m.stack[n].ret]
          [] i.op = "stop" -> [m EXCEPT !.status = "trap"]
          [] i.op = "save" -> Go([m EXCEPT !.stack = Append(@, Link(Saved))])
          [] i.op = "restore" ->
               IF n = 0 \/ ~IsCell(m.stack[n]) \/ m.stack[n].ret # Saved THEN Crash(m)
               ELSE Go([m EXCEPT !.stack = SubSeq(@, 1, n - 1)])
          [] i.op = "membase" -> Go(m)
          [] i.op = "print" -> Go(Returned(m, Junk))

\* At most 2^k steps; outside the code there is nothing to run.
RECURSIVE AvrRun(_, _, _, _, _)
AvrRun(code, jump, target, m, k) ==
    IF m.status # "run" THEN m
    ELSE IF k > 0 THEN AvrRun(code, jump, target, AvrRun(code, jump, target, m, k - 1), k - 1)
    ELSE IF m.ip \notin DOMAIN code THEN Crash(m)
    ELSE AvrStep(code, jump, target, m)

\* A call of the code at position start, from a caller that waits at 0.  Each
\* wasm instruction takes less than eight groups.
AvrCall(code, jump, target, start) ==
    AvrRun(code, jump, target,
           [ip |-> start, stack |-> <<Link(0)>>, y |-> 0, z |-> FALSE,
            reg |-> [r \in {6, 10, 14, 18, 22} |-> Junk], status |-> "run", trace |-> <<>>],
           Fuel + 3)
=============================================================================
