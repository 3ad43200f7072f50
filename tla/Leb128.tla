------------------------------- MODULE Leb128 -------------------------------
(***************************************************************************)
(* The number readers of src/src/utils.c.  They read the bytes c[p], c[p+1],*)
(* ... up to the position e, which is not read, and give the value, where    *)
(* they stop, and whether they halt the device (panicf).                    *)
(*                                                                         *)
(* A number is the function of its 64 bits, which is what the u64 and the    *)
(* i64 of the code hold.  LebEncoding is the reference: the WebAssembly      *)
(* binary format.                                                           *)
(***************************************************************************)
EXTENDS Integers, Sequences, FiniteSetsExt

Bit(n, j)    == (n \div 2^j) % 2
Continues(b) == b >= 128
BitIndex     == 0 .. 63

\* How many bytes are read: up to one that does not continue, to the width of
\* the number, or to the end.
ReadLength(c, p, e, width) ==
    IF p >= e THEN 0
    ELSE Min({k \in 1 .. e - p : ~Continues(c[p + k - 1]) \/ 7 * k >= width \/ p + k = e})

\* Mutant, not the code: a number that fills its width is taken for too long.
OverflowsFirst(c, p, k, width) == k > 0 /\ 7 * k >= width

\* shift has reached the width and the byte still continues: "lebOverflow!".
Overflows(c, p, k, width) == k > 0 /\ Continues(c[p + k - 1]) /\ 7 * k >= width

Payload(c, p, j) == Bit(c[p + j \div 7], j % 7)

Result(value, c, p, e, width) ==
    LET k == ReadLength(c, p, e, width)
    IN  [value |-> value, ptr |-> p + k, halts |-> Overflows(c, p, k, width)]

ReadLebUnsigned(c, p, e, width) ==
    LET k == ReadLength(c, p, e, width)
    IN  Result([j \in BitIndex |-> IF j < 7 * k THEN Payload(c, p, j) ELSE 0], c, p, e, width)

\* The sign is bit 6 of the last byte, if one ended the number.
ReadLebSigned(c, p, e, width) ==
    LET k    == ReadLength(c, p, e, width)
        sign == IF k > 0 /\ ~Continues(c[p + k - 1]) THEN Bit(c[p + k - 1], 6) ELSE 0
    IN  Result([j \in BitIndex |-> IF j < 7 * k THEN Payload(c, p, j) ELSE sign], c, p, e, width)

\* The low n bits as a number without and with a sign.  TLC counts to 2^31 - 1.
Unsigned(v, n) ==
    LET From[j \in 0 .. n] == IF j = n THEN 0 ELSE v[j] + 2 * From[j + 1]
    IN  From[0]
Signed(v, n)   == Unsigned(v, n - 1) - IF v[n - 1] = 1 THEN 2^(n - 1) ELSE 0

As(read, value) == [read EXCEPT !.value = value]

ReadLEB_u7(c, p, e)  == LET r == ReadLebUnsigned(c, p, e, 7) IN As(r, Unsigned(r.value, 8))
ReadLEB_u32(c, p, e) == LET r == ReadLebUnsigned(c, p, e, 32) IN As(r, Unsigned(r.value, 32))
ReadLEB_i7(c, p, e)  == LET r == ReadLebSigned(c, p, e, 7) IN As(r, Signed(r.value, 8))

\* An i32 as the four bytes of its operand union (num8 of instructions.c).
ByteOf(v, i)         == Unsigned([j \in 0 .. 7 |-> v[8 * (i - 1) + j]], 8)
ReadLEB_i32(c, p, e) ==
    LET r == ReadLebSigned(c, p, e, 32) IN As(r, [i \in 1 .. 4 |-> ByteOf(r.value, i)])

\* Read_u8: one byte, or "Wasm Underrun".
Read_u8(c, p, e) ==
    [value |-> IF p < e THEN c[p] ELSE 0, ptr |-> IF p < e THEN p + 1 ELSE p, halts |-> p >= e]

\* The value types 0x7F .. 0x7C are the negative numbers -1 .. -4.
WASM_Type_none == 0
WASM_Type_i32  == 1
WASM_Type_i64  == 2
WASM_Type_f32  == 3
WASM_Type_f64  == 4

\* NormalizeType; nobody looks at its result for other types, which are kept.
NormalizeType(t) == LET type == (-t) % 256 IN IF type = 64 THEN WASM_Type_none ELSE type

-----------------------------------------------------------------------------
\* Reference: the bits of a number, the least number of bytes for them, and an
\* encoding in k bytes, which may be more than the least.
BitsOf(n) == [j \in BitIndex |-> IF j > 30 THEN (IF n < 0 THEN 1 ELSE 0) ELSE Bit(n, j)]

UnsignedLength(v) == Min({k \in 1 .. 10 : \A j \in BitIndex : j >= 7 * k => v[j] = 0})
SignedLength(v) ==
    Min({k \in 1 .. 10 : \A j \in BitIndex : j >= 7 * k - 1 => v[j] = v[63]})

LebEncoding(v, k) ==
    LET At(j) == IF j \in BitIndex THEN v[j] ELSE v[63]
    IN  [i \in 1 .. k |-> Unsigned([j \in 0 .. 6 |-> At(7 * (i - 1) + j)], 7)
                          + IF i < k THEN 128 ELSE 0]
=============================================================================
