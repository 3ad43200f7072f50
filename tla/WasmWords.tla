------------------------------ MODULE WasmWords ------------------------------
(***************************************************************************)
(* Reference: what the integer instructions of WebAssembly say of 32-bit    *)
(* words, here as their four bytes, the lowest first.  TLC's integers end   *)
(* at 2^31 - 1, so addition and comparison go by 16-bit halves,              *)
(* multiplication by bytes, the rest by bits.  LeadingZeros_32 at the end   *)
(* is the code's own algorithm.                                             *)
(***************************************************************************)
EXTENDS Integers, Sequences, FiniteSetsExt

Half0(w) == w[1] + 256 * w[2]
Half1(w) == w[3] + 256 * w[4]
FromHalves(lo, hi) ==
    <<lo % 256, (lo % 65536) \div 256, hi % 256, (hi % 65536) \div 256>>

Bits32(w)   == [j \in 0 .. 31 |-> (w[j \div 8 + 1] \div 2^(j % 8)) % 2]
FromBits(b) ==
    LET Byte(i) == b[i] + 2 * b[i + 1] + 4 * b[i + 2] + 8 * b[i + 3] + 16 * b[i + 4]
                   + 32 * b[i + 5] + 64 * b[i + 6] + 128 * b[i + 7]
    IN  <<Byte(0), Byte(8), Byte(16), Byte(24)>>

Zero == <<0, 0, 0, 0>>
One  == <<1, 0, 0, 0>>
Truth(p)    == IF p THEN One ELSE Zero
Negative(w) == w[4] >= 128

WAdd(a, b) == LET lo == Half0(a) + Half0(b)
              IN  FromHalves(lo, Half1(a) + Half1(b) + lo \div 65536)
WSub(a, b) == LET lo == Half0(a) - Half0(b)
              IN  FromHalves(lo, Half1(a) - Half1(b) + lo \div 65536)
WLtU(a, b) == \/ Half1(a) < Half1(b)
              \/ Half1(a) = Half1(b) /\ Half0(a) < Half0(b)
WLtS(a, b) == IF Negative(a) = Negative(b) THEN WLtU(a, b) ELSE Negative(a)

\* The columns of the product of the bytes, each with what the one before carries.
WMul(a, b) ==
    LET c1 == a[1] * b[1]
        c2 == a[1] * b[2] + a[2] * b[1] + c1 \div 256
        c3 == a[1] * b[3] + a[2] * b[2] + a[3] * b[1] + c2 \div 256
        c4 == a[1] * b[4] + a[2] * b[3] + a[3] * b[2] + a[4] * b[1] + c3 \div 256
    IN  <<c1 % 256, c2 % 256, c3 % 256, c4 % 256>>

Bitwise2(Op(_, _), a, b) ==
    LET x == Bits32(a)
        y == Bits32(b)
    IN  FromBits([j \in 0 .. 31 |-> Op(x[j], y[j])])
WAnd(a, b) == Bitwise2(LAMBDA x, y : x * y, a, b)
WOr(a, b)  == Bitwise2(LAMBDA x, y : x + y - x * y, a, b)
WXor(a, b) == Bitwise2(LAMBDA x, y : (x + y) % 2, a, b)

\* The bits of w moved up by n places (down where n is negative), with fill
\* where no bit comes from.
Moved(w, n, fill) ==
    LET x == Bits32(w)
    IN  FromBits([j \in 0 .. 31 |-> IF j - n \in 0 .. 31 THEN x[j - n] ELSE fill])
WShl(w, n)  == Moved(w, n, 0)
WShrU(w, n) == Moved(w, -n, 0)
WShrS(w, n) == Moved(w, -n, IF Negative(w) THEN 1 ELSE 0)

\* Quotient of the numbers without sign: one bit of a after the other, from the
\* highest, joins the remainder.
WDivU(a, b) ==
    LET x == Bits32(a)
        After[k \in 0 .. 32] ==
            IF k = 0 THEN [rem |-> Zero, quo |-> Zero]
            ELSE LET s   == After[k - 1]
                     rem == [WAdd(s.rem, s.rem) EXCEPT ![1] = @ + x[32 - k]]
                     quo == WAdd(s.quo, s.quo)
                 IN  IF WLtU(rem, b) THEN [rem |-> rem, quo |-> quo]
                     ELSE [rem |-> WSub(rem, b), quo |-> WAdd(quo, One)]
    IN  After[32].quo
Negated(w)   == WSub(Zero, w)
Magnitude(w) == IF Negative(w) THEN Negated(w) ELSE w
WDivS(a, b)  ==
    LET quo == WDivU(Magnitude(a), Magnitude(b))
    IN  IF Negative(a) = Negative(b) THEN quo ELSE Negated(quo)

WClz(w) == LET x == Bits32(w)
           IN  <<31 - Max({-1} \cup {j \in 0 .. 31 : x[j] = 1}), 0, 0, 0>>

\* The number n in a word, and n bytes extended to a word.
WordOfNat(n) == FromHalves(n, n \div 65536)
ExtendU(b) == [i \in 1 .. 4 |-> IF i <= Len(b) THEN b[i] ELSE 0]
ExtendS(b) == [i \in 1 .. 4 |-> IF i <= Len(b) THEN b[i] ELSE IF b[Len(b)] >= 128 THEN 255 ELSE 0]

-----------------------------------------------------------------------------
Smear(x, n) == WOr(x, WShrU(x, n))

\* LeadingZeros_32: the highest one is smeared over all bits below it, and the
\* ones are counted by adding neighbouring fields.
LeadingZeros_32(w) ==
    LET Mask(byte) == <<byte, byte, byte, byte>>
        x == Smear(Smear(Smear(Smear(Smear(w, 1), 2), 4), 8), 16)
        pairs   == WSub(x, WAnd(WShrU(x, 1), Mask(85)))
        nibbles == WAdd(WAnd(WShrU(pairs, 2), Mask(51)), WAnd(pairs, Mask(51)))
        bytes   == WAnd(WAdd(WShrU(nibbles, 4), nibbles), Mask(15))
        halves  == WAdd(bytes, WShrU(bytes, 8))
        ones    == WAdd(halves, WShrU(halves, 16))
    IN  WSub(WordOfNat(32), WAnd(ones, <<63, 0, 0, 0>>))
=============================================================================
