------------------------------- MODULE AvrCpu -------------------------------
(***************************************************************************)
(* The processor that runs the words the translator emits, as its manual    *)
(* has it: registers, flags, the stack in SRAM, one instruction a step.  A   *)
(* CALL here is a call of an embedded function, whose operand is still its   *)
(* number: the arguments are taken from the registers avr-gcc passes them    *)
(* in, the result comes back in R22..R25 (R18..R25 for eight bytes), and     *)
(* the registers and flags a C function need not keep are Junk.             *)
(***************************************************************************)
EXTENDS Integers, Sequences, WasmWords

CONSTANTS
    Junk,        \* the byte that stands for what no one wrote
    Linear(_)    \* the byte a load finds at a linear address

Bytes     == 0 .. 255
Addresses == 0 .. 65535

Byte16(lo, hi) == lo + 256 * hi
Cell(m, a)     == IF a \in DOMAIN m.mem THEN m.mem[a] ELSE Junk
Pair(m, d)     == Byte16(m.r[d], m.r[d + 1])
Quad(m, d)     == <<m.r[d], m.r[d + 1], m.r[d + 2], m.r[d + 3]>>

\* Fields of a word.
Rd(w)    == (w \div 16) % 32
Rr(w)    == (w % 16) + 16 * ((w \div 512) % 2)
Upper(w) == 16 + ((w \div 16) % 16)
K8(w)    == (w % 16) + 16 * ((w \div 256) % 16)
Port(w)  == (w % 16) + 16 * ((w \div 512) % 4)
Adjust(w) == (w % 16) + 16 * ((w \div 64) % 4)
Adjusted(w) == 24 + 2 * ((w \div 16) % 4)
Offset(w) == (w % 8) + 8 * ((w \div 1024) % 4) + 32 * ((w \div 8192) % 2)
Signed7(k)  == IF k >= 64 THEN k - 128 ELSE k
Signed12(k) == IF k >= 2048 THEN k - 4096 ELSE k

Next1(m) == [m EXCEPT !.ip = @ + 1]
Set(m, d, x) == [m EXCEPT !.r[d] = x]

\* Flags are 0 or 1; s is the exclusive or of n and the overflow v.
Flag(p) == IF p THEN 1 ELSE 0
Flags(m, c, z, n, v) == [m EXCEPT !.c = c, !.z = z, !.n = n, !.s = (n + v) % 2]

Add(m, d, b, carry) ==
    LET a == m.r[d]
        t == a + b + carry
        x == t % 256
    IN  Flags(Set(m, d, x), t \div 256, Flag(x = 0), x \div 128,
              Flag((a >= 128) = (b >= 128) /\ (x >= 128) # (a >= 128)))

\* Comparisons and subtractions; with carry the zero flag only stays.
Compare(m, d, b, carry, zero) ==
    LET a == m.r[d]
        t == a - b - carry
        x == t % 256
    IN  Flags(m, Flag(t < 0), IF x = 0 THEN zero ELSE 0, x \div 128,
              Flag((a >= 128) # (b >= 128) /\ (x >= 128) # (a >= 128)))
Subtract(m, d, b, carry, zero) ==
    Set(Compare(m, d, b, carry, zero), d, (m.r[d] - b - carry) % 256)

\* AND, OR and EOR of two bytes.
And(a, b) == WAnd(<<a, 0, 0, 0>>, <<b, 0, 0, 0>>)[1]
Or(a, b)  == WOr(<<a, 0, 0, 0>>, <<b, 0, 0, 0>>)[1]
Xor(a, b) == WXor(<<a, 0, 0, 0>>, <<b, 0, 0, 0>>)[1]
Logical(m, d, x) == Flags(Set(m, d, x), m.c, Flag(x = 0), x \div 128, 0)

\* A shift down by one bit with top for the highest.
Down(m, d, top) ==
    LET a == m.r[d]
        x == a \div 2 + 128 * top
    IN  Flags(Set(m, d, x), a % 2, Flag(x = 0), x \div 128, (x \div 128 + a) % 2)

Decrement(m, d) ==
    LET x == (m.r[d] - 1) % 256
    IN  Flags(Set(m, d, x), m.c, Flag(x = 0), x \div 128, Flag(x = 127))

SetPair(m, d, n) == [m EXCEPT !.r[d] = n % 256, !.r[d + 1] = (n \div 256) % 256]

\* ADIW and SBIW.
MovePair(m, d, k) ==
    LET old == Pair(m, d)
        new == (old + k) % 65536
    IN  Flags(SetPair(m, d, new), Flag(old + k # new), Flag(new = 0), new \div 32768,
              Flag((old >= 32768) # (new >= 32768) /\ (k > 0) = (new >= 32768)))

Written(mem, a, b) == [e \in DOMAIN mem \cup {a} |-> IF e = a THEN b ELSE mem[e]]

PushByte(m, b) == [m EXCEPT !.mem = Written(@, m.sp, b), !.sp = (@ - 1) % 65536]
PopByte(m, d)  == [m EXCEPT !.r[d] = Cell(m, (m.sp + 1) % 65536), !.sp = (@ + 1) % 65536]

StoreByte(m, a, b) == [m EXCEPT !.mem = Written(@, a, b)]

\* OUT to the low and to the high byte of the stack pointer.
SetLow(m, b)  == [m EXCEPT !.sp = Byte16(b, @ \div 256)]
SetHigh(m, b) == [m EXCEPT !.sp = Byte16(@ % 256, b)]

Jump(m, k) == [m EXCEPT !.ip = @ + k]

Returned(m) == [m EXCEPT !.status = "returned", !.sp = (@ + 2) % 65536,
                       !.ret = <<Cell(m, m.sp + 1), Cell(m, m.sp + 2)>>]

Crash(m) == [m EXCEPT !.status = "crash"]

-----------------------------------------------------------------------------
(* The embedded functions (asm.c and memory.c), by number.                  *)
embed_func_idiv       == 65535
embed_func_udiv       == 65534
embed_func_clz32      == 65533
embed_func_i32load    == 65532
embed_func_i64load    == 65531
embed_func_i32store   == 65530
embed_func_i32store16 == 65529
embed_func_i32store8  == 65528
embed_func_umul       == 65526

\* Back from a C function: what it need not keep is junk, and so is the stack
\* below the caller's.
Called(m) ==
    [m EXCEPT !.r = [d \in 0 .. 31 |-> IF d \in {0, 30, 31} \cup 18 .. 27 THEN Junk ELSE @[d]],
              !.mem = Written(Written(@, m.sp, Junk), m.sp - 1, Junk),
              !.c = 1, !.z = 1, !.n = 1, !.s = 1]

Gives(m, d, b) ==
    LET done == Called(m)
    IN  [done EXCEPT !.r = [k \in 0 .. 31 |-> IF k \in d .. d + Len(b) - 1 THEN b[k - d + 1]
                                              ELSE @[k]]]

LinearBytes(a, n) == [i \in 1 .. n |-> Linear((a + (i - 1)) % 65536)]

idiv(a, b) == WDivS(a, b)
udiv(a, b) == WDivU(a, b)
umul(a, b) == WMul(b, a)

\* target is a u16: the low halves of the address and the offset.
Target(address, offset) == (address + offset) % 65536

Stores(m, n) ==
    [Called(m) EXCEPT !.stored = [at |-> Target(Pair(m, 18), Pair(m, 20)),
                                  bytes |-> SubSeq(Quad(m, 22), 1, n)]]

Helper(m, f) ==
    LET x == Quad(m, 22)
        y == Quad(m, 18)
        at == Target(Pair(m, 20), Pair(m, 24))
    IN  CASE f = embed_func_idiv       -> Gives(m, 22, idiv(x, y))
          [] f = embed_func_udiv       -> Gives(m, 22, udiv(x, y))
          [] f = embed_func_umul       -> Gives(m, 22, umul(x, y))
          [] f = embed_func_clz32      -> Gives(m, 22, LeadingZeros_32(x))
          [] f = embed_func_i32load    -> Gives(m, 22, LinearBytes(at, 4))
          [] f = embed_func_i64load    -> Gives(m, 18, LinearBytes(at, 8))
          [] f = embed_func_i32store   -> Stores(m, 4)
          [] f = embed_func_i32store16 -> Stores(m, 2)
          [] f = embed_func_i32store8  -> Stores(m, 1)
          [] OTHER -> Crash(m)

-----------------------------------------------------------------------------
\* Whether a branch word is taken: bit 10 clear for "flag set".
Taken(m, w) ==
    LET flag == <<m.c, m.z, m.n, (m.n + m.s) % 2, m.s>>[(w % 8) + 1]
    IN  flag = 1 - ((w \div 1024) % 2)

Perform(code, m) ==
    LET w == code[m.ip]
        n == Next1(m)
        d == Rd(w)
        s == m.r[Rr(w)]
        High(k)  == w \div 2^k
        Low4     == w % 16
        Place    == (Pair(m, IF (w \div 8) % 2 = 1 THEN 28 ELSE 30) + Offset(w)) % 65536
    IN  CASE High(10) = 1 -> Compare(n, d, s, m.c, m.z)                 \* CPC
          [] High(10) = 2 -> Subtract(n, d, s, m.c, m.z)                \* SBC
          [] High(10) = 3 -> Add(n, d, s, 0)                            \* ADD, LSL
          [] High(10) = 5 -> Compare(n, d, s, 0, 1)                     \* CP
          [] High(10) = 6 -> Subtract(n, d, s, 0, 1)                    \* SUB
          [] High(10) = 7 -> Add(n, d, s, m.c)                          \* ADC, ROL
          [] High(10) = 8 -> Logical(n, d, And(m.r[d], s))              \* AND
          [] High(10) = 9 -> Logical(n, d, Xor(m.r[d], s))              \* EOR
          [] High(10) = 10 -> Logical(n, d, Or(m.r[d], s))              \* OR
          [] High(8) = 1 -> SetPair(n, 2 * (d % 16), Pair(m, 2 * Low4)) \* MOVW
          [] High(12) = 5 -> Subtract(n, Upper(w), K8(w), 0, 1)         \* SUBI
          [] High(12) = 14 -> Set(n, Upper(w), K8(w))                   \* LDI
          [] High(12) = 12 -> Jump(n, Signed12(w % 4096))               \* RJMP
          [] High(11) = 30 ->                                           \* BRxx
               IF Taken(m, w) THEN Jump(n, Signed7((w \div 8) % 128)) ELSE n
          [] High(8) = 150 -> MovePair(n, Adjusted(w), Adjust(w))       \* ADIW
          [] High(8) = 151 -> MovePair(n, Adjusted(w), -Adjust(w))      \* SBIW
          [] High(11) = 22 /\ Port(w) = 61 -> Set(n, d, m.sp % 256)     \* IN
          [] High(11) = 22 /\ Port(w) = 62 -> Set(n, d, m.sp \div 256)
          [] High(11) = 23 /\ Port(w) = 61 -> SetLow(n, m.r[d])         \* OUT
          [] High(11) = 23 /\ Port(w) = 62 -> SetHigh(n, m.r[d])
          [] High(9) = 73 /\ Low4 = 15 -> PushByte(n, m.r[d])
          [] High(9) = 72 /\ Low4 = 15 -> PopByte(n, d)
          [] High(9) = 74 /\ Low4 = 5 -> Down(n, d, m.r[d] \div 128)    \* ASR
          [] High(9) = 74 /\ Low4 = 6 -> Down(n, d, 0)                  \* LSR
          [] High(9) = 74 /\ Low4 = 7 -> Down(n, d, m.c)                \* ROR
          [] High(9) = 74 /\ Low4 = 10 -> Decrement(n, d)               \* DEC
          [] High(14) = 2 /\ (w \div 4096) % 2 = 0 ->                   \* LDD, STD
               IF (w \div 512) % 2 = 0 THEN Set(n, d, Cell(m, Place))
               ELSE StoreByte(n, Place, m.r[d])
          [] w = 37902 -> IF m.ip + 1 \notin DOMAIN code THEN Crash(m)  \* CALL
                          ELSE Helper(Next1(n), code[m.ip + 1])
          [] w = 38152 -> Returned(m)                                     \* RET
          [] OTHER -> Crash(m)

\* One instruction, unless the code has ended or has returned.
Ended(code, m)   == m.status # "run" \/ m.ip > Len(code)
Stepped(code, m) == IF Ended(code, m) THEN m ELSE Perform(code, m)

Steps(code, m) ==
    LET After[k \in 0 .. 16] == IF k = 0 THEN m ELSE Stepped(code, After[k - 1])
    IN  IF Ended(code, m) THEN m ELSE After[16]

\* The code from m.ip to its end, or to a return.  Bound: 256 steps of a group.
Run(code, m) ==
    LET After[k \in 0 .. 16] == IF k = 0 THEN m ELSE Steps(code, After[k - 1])
    IN  After[16]
=============================================================================
