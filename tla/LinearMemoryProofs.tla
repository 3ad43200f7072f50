-------------------------- MODULE LinearMemoryProofs --------------------------
(***************************************************************************)
(* Proofs about the linear memory (LinearMemory), for memories, stacks,     *)
(* globals and data segments of any size that fit the device.              *)
(***************************************************************************)
EXTENDS LinearMemory, SequenceTheorems, TLAPS

-----------------------------------------------------------------------------
(* The layout.                                                              *)

\* The numbers the layout is made of.
LEMMA Numbers ==
  /\ Base \in Nat /\ Target \in Nat /\ Base <= Target /\ GlobalSize \in Nat
  /\ Target = Base + GlobalSize
  /\ StackPointer \in Nat /\ StackRoom \in Nat /\ SramSize \in Nat /\ Space \in Nat
  /\ Target < StackPointer - StackRoom /\ StackPointer < SramSize
  /\ WordLen \in Nat /\ WordLen > 0 /\ TempSpace \in Nat
  /\ Len(GlobalInit) \in Nat /\ 0 \in Byte
  <1>1. WordLen \in Nat /\ GlobalInit \in Seq(Word)
    BY MemoryAssumption
  <1>1a. Len(GlobalInit) \in Nat
    BY <1>1
  <1>2. GlobalSize \in Nat
    BY <1>1, <1>1a DEF GlobalSize
  <1> QED BY <1>1, <1>1a, <1>2, MemoryAssumption, SMTT(30) DEF Target

\* A write over a memory changes the cells it covers and no other.
LEMMA PutAt ==
  ASSUME NEW m, NEW a \in Int, NEW b \in Seq(Byte)
  PROVE  /\ DOMAIN Put(m, a, b) = DOMAIN m
         /\ \A x \in DOMAIN m : x \in a .. a + Len(b) - 1 =>
              x - a + 1 \in 1 .. Len(b) /\ Put(m, a, b)[x] = b[x - a + 1]
         /\ \A x \in DOMAIN m : x \notin a .. a + Len(b) - 1 => Put(m, a, b)[x] = m[x]
  <1>1. Len(b) \in Nat /\ \A k \in 1 .. Len(b) : b[k] \in Byte
    OBVIOUS
  <1>2. \A x \in a .. a + Len(b) - 1 : x - a + 1 \in 1 .. Len(b)
    BY <1>1
  <1> QED BY <1>1, <1>2 DEF Put

\* A write of bytes over a memory of bytes leaves a memory of bytes.
LEMMA PutIn ==
  ASSUME NEW D, NEW m \in [D -> Byte], NEW a \in Int, NEW b \in Seq(Byte)
  PROVE  Put(m, a, b) \in [D -> Byte]
  <1>1. Len(b) \in Nat /\ \A k \in 1 .. Len(b) : b[k] \in Byte
    OBVIOUS
  <1>2. \A x \in a .. a + Len(b) - 1 : b[x - a + 1] \in Byte
    BY <1>1
  <1> QED BY <1>2 DEF Put

\* The cells read from a memory are a sequence of bytes.
LEMMA BytesAt ==
  ASSUME NEW m, NEW a \in Int, NEW n \in Nat, \A x \in a .. a + n - 1 : m[x] \in Byte
  PROVE  /\ Bytes(m, a, n) \in Seq(Byte) /\ Len(Bytes(m, a, n)) = n
         /\ \A i \in 1 .. n : Bytes(m, a, n)[i] = m[a + i - 1]
  <1>1. \A i \in 1 .. n : a + i - 1 \in a .. a + n - 1
    OBVIOUS
  <1>2. Bytes(m, a, n) \in [1 .. n -> Byte]
    BY <1>1 DEF Bytes
  <1> QED BY <1>2 DEF Bytes

\* What wasm_call_entry_method has laid out, once it has run.
Areas ==
    /\ segments \in Layouts
    /\ status # "compiled" =>
         /\ Ram.start = RamStart(segments) /\ Ram.end = RamStart(segments) + StackPointer - Target
         /\ Ram.target = Target /\ Flash.target = 1
         /\ Len(segments) = 0 => Flash.start = 0 /\ Flash.end = 0
         /\ Len(segments) # 0 => /\ Flash.start = segments[1].start
                                 /\ Flash.end = segments[1].start + Len(segments[1].data)

\* The two areas: the one in flash lies in front of the one in RAM, each address
\* in it is an index of the segment, and the one in RAM ends within a u16.
Laid ==
    /\ Ram.start \in Nat /\ Ram.end \in Nat /\ Ram.target = Target
    /\ Ram.end = Ram.start + StackPointer - Target /\ Ram.end < Space
    /\ Flash.start \in Nat /\ Flash.end \in Nat /\ Flash.end <= Ram.start
    /\ Flash.target = 1
    /\ \A a \in Int : In(Flash, a) =>
         /\ a - Flash.start + 1 \in 1 .. Len(segments[1].data)
         /\ segments[1].data \in Seq(Byte)

\* What fits the device is laid out so.
LEMMA AreaFacts == Areas /\ status # "compiled" => Laid
  <1> SUFFICES ASSUME Areas, status # "compiled" PROVE Laid
    OBVIOUS
  <1>1. Fits(segments)
    BY MemoryAssumption DEF Areas
  <1>2. segments \in Seq([start : Nat, data : Seq(Byte)])
    BY <1>1 DEF Fits
  <1>3. \A i \in 1 .. Len(segments) : segments[i] \in [start : Nat, data : Seq(Byte)]
    BY <1>2, ElementOfSeq
  <1>3a. Len(segments) \in Nat
    BY <1>2, LenProperties
  <1>4. \A i \in 1 .. Len(segments) :
          segments[i].start \in Nat /\ segments[i].data \in Seq(Byte) /\ Len(segments[i].data) \in Nat
    BY <1>3
  <1>5. Len(segments) = 0 \/ Len(segments) = 1 \/ Len(segments) = 2
    <2>1. Len(segments) <= 2
      BY <1>1 DEF Fits
    <2>2. \A n \in Nat : n <= 2 => n = 0 \/ n = 1 \/ n = 2
      OBVIOUS
    <2> QED BY <2>1, <2>2, <1>3a
  <1>6. CASE Len(segments) = 0
    <2>1. RamStart(segments) = 0 /\ Flash.start = 0 /\ Flash.end = 0
      BY <1>6 DEF RamStart, Areas
    <2> QED BY <2>1, <1>1, Numbers DEF Areas, Fits, In, Laid
  <1>7. CASE Len(segments) # 0
    <2>1. segments[1].start \in Nat /\ segments[1].data \in Seq(Byte) /\ Len(segments[1].data) \in Nat
      BY <1>4, <1>5, <1>7
    <2>2. Flash.start = segments[1].start /\ Flash.end = segments[1].start + Len(segments[1].data)
      BY <1>7 DEF Areas
    <2>3. RamStart(segments) \in Nat /\ Flash.end <= RamStart(segments)
      <3>1. CASE Len(segments) = 1
        BY <3>1, <2>1, <2>2 DEF RamStart
      <3>2. CASE Len(segments) = 2
        <4>1. segments[2].start \in Nat /\ segments[1].start + Len(segments[1].data) <= segments[2].start
          BY <3>2, <1>1, <1>4 DEF Fits
        <4> QED BY <3>2, <4>1, <2>1, <2>2 DEF RamStart
      <3> QED BY <3>1, <3>2, <1>5, <1>7
    <2>4. Ram.start = RamStart(segments) /\ Ram.target = Target
          /\ Ram.end = RamStart(segments) + StackPointer - Target /\ Ram.end < Space
      BY <1>1 DEF Areas, Fits
    <2>5. \A a \in Int : In(Flash, a) => a - Flash.start + 1 \in 1 .. Len(segments[1].data)
      BY <2>1, <2>2, SMTT(30) DEF In
    <2>6. Ram.start \in Nat /\ Ram.end \in Nat /\ Flash.start \in Nat /\ Flash.end \in Nat
      BY <2>1, <2>2, <2>3, <2>4, Numbers, SMTT(30)
    <2>7. Flash.target = 1
      BY DEF Areas
    <2> QED BY <2>1, <2>3, <2>4, <2>5, <2>6, <2>7 DEF Laid
  <1> QED BY <1>6, <1>7

-----------------------------------------------------------------------------
(* The types.                                                               *)

\* A function on 1 .. n is a sequence of length n.
LEMMA FunctionIsSeq ==
  ASSUME NEW S, NEW n \in Nat, NEW f \in [1 .. n -> S]
  PROVE  f \in Seq(S) /\ Len(f) = n /\ \A i \in 1 .. n : f[i] \in S
  OBVIOUS

\* The types, with the layout they rest on.
TypeInv ==
    /\ sram \in [Cells -> Byte]
    /\ status \in {"compiled", "run", "break"}
    /\ wide \in [1 .. 2 * WordLen -> Byte] /\ wideRef \in [1 .. 2 * WordLen -> Byte]
    /\ stack \in Seq(Byte) /\ Len(stack) <= StackRoom
    /\ malloc_record \in 0 .. Space - 1
    /\ Areas
    /\ status # "compiled" => ref \in [InRam -> Byte]

\* The linear memory lies between the globals and the stack pointer.
LEMMA CellsOfMemory ==
  ASSUME Laid, NEW a \in InRam
  PROVE  a \in Nat /\ a < Space /\ W2N(a) = Target + a - Ram.start
         /\ W2N(a) \in Target .. StackPointer - 1
  BY Numbers, SMTT(30) DEF InRam, W2N, Laid

\* The invariant gives the types of the module.
LEMMA TypesFollow == TypeInv => TypeOK
  <1> SUFFICES ASSUME TypeInv PROVE TypeOK
    OBVIOUS
  <1>1. ASSUME status # "compiled"
        PROVE  DOMAIN ref = InRam /\ Ram.end < Space
               /\ {W2N(a) : a \in InRam} \subseteq Target .. StackPointer - 1
    BY <1>1, AreaFacts, CellsOfMemory DEF TypeInv, Laid
  <1> QED BY <1>1 DEF TypeInv, TypeOK

\* A word of the initial values, cell by cell, is bytes.
LEMMA InitBytes ==
  ASSUME NEW k \in 0 .. GlobalSize - 1
  PROVE  InitCell(k) \in Byte
  <1>1. WordLen \in Nat \ {0} /\ GlobalInit \in Seq(Word) /\ Len(GlobalInit) \in Nat
    BY MemoryAssumption, Numbers
  <1>2. k \div WordLen \in Nat /\ k % WordLen \in 0 .. WordLen - 1
        /\ k = WordLen * (k \div WordLen) + (k % WordLen)
    BY <1>1, Numbers
  <1>3. k \div WordLen < Len(GlobalInit)
    <2> SUFFICES ASSUME k \div WordLen >= Len(GlobalInit) PROVE FALSE
      BY <1>1, <1>2
    <2>1. WordLen * (k \div WordLen) >= WordLen * Len(GlobalInit)
      BY <1>1, <1>2
    <2> QED BY <2>1, <1>1, <1>2, Numbers DEF GlobalSize
  <1>4. (k \div WordLen) + 1 \in 1 .. Len(GlobalInit)
    BY <1>1, <1>2, <1>3
  <1>5. GlobalInit[(k \div WordLen) + 1] \in Word
    BY <1>1, <1>4, ElementOfSeq
  <1>6. (k % WordLen) + 1 \in 1 .. WordLen
    BY <1>1, <1>2
  <1> QED BY <1>5, <1>6 DEF Word, InitCell

\* The state before the entry function is called.
LEMMA TypeInit == Init => TypeInv
  <1> SUFFICES ASSUME Init PROVE TypeInv
    OBVIOUS
  <1>1. sram \in [Cells -> Byte]
    <2>1. PICK junk \in Byte :
            sram = [x \in Cells |-> IF x \in TempCells THEN InitCell(x - TempSpace) ELSE junk]
      BY DEF Init
    <2>2. \A x \in TempCells : InitCell(x - TempSpace) \in Byte
      BY InitBytes, Numbers DEF TempCells
    <2> QED BY <2>1, <2>2
  <1>2. wide \in [1 .. 2 * WordLen -> Byte] /\ wideRef \in [1 .. 2 * WordLen -> Byte]
    BY Numbers DEF Init
  <1>3. stack \in Seq(Byte) /\ Len(stack) <= StackRoom
    BY Numbers DEF Init
  <1>4. malloc_record \in 0 .. Space - 1
    BY MemoryAssumption, SMTT(30) DEF Init
  <1>5. Areas /\ status = "compiled"
    BY DEF Init, Areas
  <1> QED BY <1>1, <1>2, <1>3, <1>4, <1>5 DEF TypeInv

\* While the program runs the layout stays, so only what a step writes matters.
LEMMA TypeRunning ==
  ASSUME TypeInv, Running, status' \in {"run", "break"},
         sram' \in [Cells -> Byte], ref' \in [InRam -> Byte],
         wide' \in [1 .. 2 * WordLen -> Byte], wideRef' \in [1 .. 2 * WordLen -> Byte],
         stack' \in Seq(Byte), Len(stack') <= StackRoom, malloc_record' \in 0 .. Space - 1
  PROVE  TypeInv'
  <1>1. Areas' /\ InRam' = InRam
    BY DEF TypeInv, Areas, Running, InRam, Ram, Flash
  <1> QED BY <1>1 DEF TypeInv

\* The globals are read where bytes are.
LEMMA GlobalBytes ==
  ASSUME NEW m \in [Cells -> Byte]
  PROVE  /\ Bytes(m, TempSpace, GlobalSize) \in Seq(Byte)
         /\ Len(Bytes(m, TempSpace, GlobalSize)) = GlobalSize
  BY BytesAt, Numbers, MemoryAssumption DEF TempCells

\* What a segment's data is, and where the second one is put.
LEMMA SecondSegment ==
  ASSUME segments \in Layouts, Len(segments) = 2
  PROVE  segments[2].data \in Seq(Byte) /\ Target + Len(segments[2].data) <= StackPointer
  <1>1. segments \in Seq([start : Nat, data : Seq(Byte)])
        /\ Target + Len(segments[2].data) <= StackPointer
    BY MemoryAssumption DEF Fits
  <1>2. segments[2] \in [start : Nat, data : Seq(Byte)]
    <2>1. \A i \in 1 .. Len(segments) : segments[i] \in [start : Nat, data : Seq(Byte)]
      BY <1>1, ElementOfSeq
    <2> QED BY <2>1
  <1> QED BY <1>1, <1>2

\* The SRAM when the data of the second segment is in place.
WithData == IF Len(segments) = 2 THEN Put(sram, Target, segments[2].data) ELSE sram

\* wasm_call_entry_method copies the data, then the globals; what is said to be
\* in the memory is what the data left there.
LEMMA StartMemory ==
  ASSUME TypeInv, Start
  PROVE  /\ WithData \in [Cells -> Byte]
         /\ sram' = Put(WithData, Base, Bytes(WithData, TempSpace, GlobalSize))
         /\ ref' = [a \in InRam' |-> WithData[Target + a - Ram'.start]]
  <1>1. WithData \in [Cells -> Byte]
    <2>1. CASE Len(segments) = 2
      <3>1. segments[2].data \in Seq(Byte)
        BY <2>1, SecondSegment DEF TypeInv, Areas
      <3>2. WithData = Put(sram, Target, segments[2].data)
        BY <2>1 DEF WithData
      <3>3. sram \in [Cells -> Byte] /\ Target \in Int
        BY Numbers DEF TypeInv
      <3> QED BY <3>1, <3>2, <3>3, PutIn
    <2>2. CASE Len(segments) # 2
      BY <2>2 DEF TypeInv, WithData
    <2> QED BY <2>1, <2>2
  <1>2. sram' = Put(WithData, Base, Bytes(WithData, TempSpace, GlobalSize))
    BY DEF Start, WithData
  <1>3. ref' = [a \in InRam' |-> WithData[Target + a - Ram'.start]]
    BY DEF Start, InRam, Ram, RamArea, WithData
  <1> QED BY <1>1, <1>2, <1>3

\* wasm_call_entry_method lays the areas out.
LEMMA TypeStart ==
  ASSUME TypeInv, Start
  PROVE  TypeInv'
  <1> DEFINE data == WithData
  <1>1. Areas' /\ status' = "run"
    BY DEF TypeInv, Areas, Start, RamArea, Ram, Flash
  <1>3. /\ data \in [Cells -> Byte]
        /\ sram' = Put(data, Base, Bytes(data, TempSpace, GlobalSize))
        /\ ref' = [a \in InRam' |-> data[Target + a - Ram'.start]]
    BY StartMemory
  <1> HIDE DEF data
  <1>4. sram' \in [Cells -> Byte]
    <2>1. Bytes(data, TempSpace, GlobalSize) \in Seq(Byte)
      BY <1>3, GlobalBytes
    <2>2. Put(data, Base, Bytes(data, TempSpace, GlobalSize)) \in [Cells -> Byte]
      BY <2>1, <1>3, PutIn, Numbers
    <2> QED BY <2>2, <1>3
  <1>5. ref' \in [InRam' -> Byte]
    <2>1. (Areas /\ status # "compiled" => Laid)'
      BY AreaFacts, PTL
    <2>2. Laid'
      BY <2>1, <1>1
    <2>2a. Ram'.start \in Nat /\ Ram'.end = Ram'.start + StackPointer - Target
      BY <2>2 DEF Laid
    <2>3. \A a \in InRam' : Target + a - Ram'.start \in Cells
      BY <2>2a, Numbers, SMTT(30) DEF InRam, Cells
    <2> QED BY <2>3, <1>3
  <1>6. malloc_record' \in 0 .. Space - 1
    BY MemoryAssumption, SMTT(30) DEF Start
  <1>7. UNCHANGED <<wide, wideRef, stack>>
    BY DEF Start
  <1> QED BY <1>1, <1>4, <1>5, <1>6, <1>7 DEF TypeInv

\* A store writes bytes to both memories, or stops the program.
LEMMA TypeStore ==
  ASSUME TypeInv, NEW a \in Addresses, NEW n \in 1 .. WordLen, Store(a, n)
  PROVE  TypeInv'
  <1>1. CASE UNCHANGED <<sram, ref>>
    BY <1>1, TypeRunning DEF Store, TypeInv, Running
  <1>2. CASE \E v \in [1 .. n -> Byte] :
               sram' = Put(sram, W2N(U16(a)), v) /\ ref' = Put(ref, a, v)
    <2>1. PICK v \in [1 .. n -> Byte] :
            sram' = Put(sram, W2N(U16(a)), v) /\ ref' = Put(ref, a, v)
      BY <1>2
    <2>2. v \in Seq(Byte)
      BY Numbers, FunctionIsSeq
    <2>3. Laid
      BY AreaFacts DEF Store, Running, TypeInv
    <2>3a. a \in Nat /\ U16(a) \in Nat
      BY Numbers, MemoryAssumption DEF Addresses, U16
    <2>3b. W2N(U16(a)) \in Int
      BY <2>3, <2>3a, Numbers, SMTT(30) DEF W2N, Laid
    <2>4. sram' \in [Cells -> Byte] /\ ref' \in [InRam -> Byte]
      BY <2>1, <2>2, <2>3a, <2>3b, PutIn DEF TypeInv, Store, Running
    <2> QED BY <2>4, TypeRunning DEF Store, TypeInv, Running
  <1> QED BY <1>1, <1>2 DEF Store

\* An address the program owns is one of the RAM, clear of the stack.
LEMMA OwnedFacts ==
  ASSUME Laid, NEW a \in Owned
  PROVE  /\ a \in InRam /\ a \in Nat /\ a < Space /\ ~In(Flash, a) /\ In(Ram, a)
         /\ W2N(a) = Target + a - Ram.start
         /\ W2N(a) \in Target .. StackPointer - 1 /\ W2N(a) <= StackPointer - StackRoom
  <1>1. a \in InRam /\ W2N(a) <= StackPointer - StackRoom
    BY DEF Owned
  <1>2. a \in Nat /\ a < Space /\ W2N(a) = Target + a - Ram.start
        /\ W2N(a) \in Target .. StackPointer - 1
    BY <1>1, CellsOfMemory
  <1>3. ~In(Flash, a) /\ In(Ram, a)
    <2>1. a >= Ram.start /\ a < Ram.end /\ Flash.end <= Ram.start
          /\ Flash.end \in Nat /\ Ram.start \in Nat /\ Ram.end \in Nat
      BY <1>1, <1>2 DEF Laid, InRam
    <2> QED BY <2>1, <1>2 DEF In
  <1> QED BY <1>1, <1>2, <1>3

\* A load finds bytes wherever it reads.
LEMMA LoadedBytes ==
  ASSUME Laid, TypeInv, NEW t \in Int
  PROVE  Loaded(t) \in [1 .. WordLen -> Byte]
  <1>1. ASSUME NEW i \in 1 .. WordLen, In(Flash, t),
               Flash.target + t - Flash.start + i - 1 <= Len(segments[1].data)
        PROVE  segments[1].data[Flash.target + t - Flash.start + i - 1] \in Byte
    <2> DEFINE k == Flash.target + t - Flash.start + i - 1
    <2>1. /\ t - Flash.start + 1 \in 1 .. Len(segments[1].data)
          /\ segments[1].data \in Seq(Byte) /\ Flash.target = 1 /\ Flash.start \in Nat
      BY <1>1 DEF Laid
    <2>2. Len(segments[1].data) \in Nat
      BY <2>1, LenProperties
    <2>3. k \in 1 .. Len(segments[1].data)
      BY <2>1, <2>2, <1>1, Numbers, SMTT(30)
    <2> QED BY <2>3, <2>1, ElementOfSeq
  <1>2. \A i \in 1 .. WordLen : W2N(t) + i - 1 \in Cells => sram[W2N(t) + i - 1] \in Byte
    BY DEF TypeInv
  <1> QED BY <1>1, <1>2, Numbers DEF Loaded

\* memcpy out of the segment in flash reads bytes of the segment.
LEMMA FlashBytesAt ==
  ASSUME Laid, NEW s \in Nat, NEW n \in Nat, Extent(s, n) \subseteq Flash.start .. Flash.end - 1
  PROVE  FlashBytes(s, n) \in Seq(Byte) /\ Len(FlashBytes(s, n)) = n
  <1>1. ASSUME NEW i \in 1 .. n
        PROVE  segments[1].data[Flash.target + s - Flash.start + i - 1] \in Byte
    <2>1. s + i - 1 \in Flash.start .. Flash.end - 1
      BY DEF Extent
    <2>2. In(Flash, s + i - 1)
      BY <2>1 DEF In, Laid
    <2>3. (s + i - 1) - Flash.start + 1 \in 1 .. Len(segments[1].data)
          /\ segments[1].data \in Seq(Byte) /\ Flash.target = 1 /\ Flash.start \in Nat
      BY <2>2 DEF Laid
    <2>4. Flash.target + s - Flash.start + i - 1 \in 1 .. Len(segments[1].data)
      BY <2>3
    <2> QED BY <2>3, <2>4, ElementOfSeq
  <1>2. FlashBytes(s, n) \in [1 .. n -> Byte]
    BY <1>1 DEF FlashBytes
  <1> QED BY <1>2, FunctionIsSeq

\* The two words of an i64 are the halves of its cells.
LEMMA Halves ==
  ASSUME NEW w \in [1 .. 2 * WordLen -> Byte]
  PROVE  /\ Low(w) \in Seq(Byte) /\ High(w) \in Seq(Byte)
         /\ Len(Low(w)) = WordLen /\ Len(High(w)) = WordLen
         /\ Low(w) \o High(w) = w
  <1>1. w \in Seq(Byte) /\ Len(w) = 2 * WordLen /\ \A i \in 1 .. 2 * WordLen : w[i] \in Byte
    BY FunctionIsSeq, Numbers
  <1>2. /\ Low(w) \in Seq(Byte) /\ Len(Low(w)) = WordLen
        /\ \A i \in 1 .. WordLen : Low(w)[i] = w[i]
    BY <1>1, SubSeqProperties, Numbers DEF Low
  <1>3. /\ High(w) \in Seq(Byte) /\ Len(High(w)) = WordLen
        /\ \A i \in 1 .. WordLen : High(w)[i] = w[WordLen + i]
    <2>1. \A i \in WordLen + 1 .. 2 * WordLen : w[i] \in Byte
      BY <1>1, Numbers
    <2> QED BY <2>1, SubSeqProperties, Numbers DEF High
  <1>4. /\ Low(w) \o High(w) \in Seq(Byte) /\ Len(Low(w) \o High(w)) = 2 * WordLen
        /\ \A i \in 1 .. 2 * WordLen : (Low(w) \o High(w))[i] = w[i]
    <2> DEFINE l == Low(w)
               h == High(w)
    <2>1. /\ l \o h \in Seq(Byte) /\ Len(l \o h) = Len(l) + Len(h)
          /\ \A i \in 1 .. Len(l) + Len(h) : (l \o h)[i] = IF i <= Len(l) THEN l[i] ELSE h[i - Len(l)]
      BY <1>2, <1>3, ConcatProperties
    <2>2. Len(l) = WordLen /\ Len(h) = WordLen
      BY <1>2, <1>3
    <2>3. \A i \in 1 .. 2 * WordLen : (l \o h)[i] = IF i <= WordLen THEN l[i] ELSE h[i - WordLen]
      BY <2>1, <2>2, Numbers
    <2>4. \A i \in 1 .. 2 * WordLen : ~(i <= WordLen) => i - WordLen \in 1 .. WordLen /\ i = WordLen + (i - WordLen)
      BY Numbers
    <2>5. \A i \in 1 .. 2 * WordLen : (l \o h)[i] = w[i]
      BY <2>3, <2>4, <1>2, <1>3, Numbers
    <2> QED BY <2>1, <2>2, <2>5, Numbers
  <1>5. Low(w) \o High(w) = w
    BY <1>1, <1>4, SeqEqual
  <1> QED BY <1>2, <1>3, <1>5

\* An i64.load leaves bytes in both words.
LEMMA TypeI64Load ==
  ASSUME TypeInv, NEW a \in InRam, I64Load(a)
  PROVE  TypeInv'
  <1>1. Laid /\ a \in Nat
    BY AreaFacts, CellsOfMemory DEF I64Load, Running, TypeInv
  <1>2. /\ Loaded(a) \in Seq(Byte) /\ Len(Loaded(a)) = WordLen
        /\ Loaded(a + WordLen) \in Seq(Byte) /\ Len(Loaded(a + WordLen)) = WordLen
    BY <1>1, LoadedBytes, FunctionIsSeq, Numbers
  <1>3. wide' \in [1 .. 2 * WordLen -> Byte]
    <2> DEFINE h == Loaded(a + WordLen)
               l == Loaded(a)
    <2>1. h \o l \in Seq(Byte) /\ Len(h \o l) = Len(h) + Len(l)
      BY <1>2, ConcatProperties
    <2>2. Len(h \o l) = 2 * WordLen
      BY <2>1, <1>2, Numbers
    <2>3. wide' = h \o l
      BY DEF I64Load
    <2> QED BY <2>1, <2>2, <2>3, LenProperties
  <1>4. wideRef' \in [1 .. 2 * WordLen -> Byte]
    <2>1. \A x \in a .. a + 2 * WordLen - 1 : x \in InRam
      BY DEF I64Load, Extent, Owned
    <2>2. ref \in [InRam -> Byte]
      BY DEF I64Load, Running, TypeInv
    <2>3. Bytes(ref, a, 2 * WordLen) \in [1 .. 2 * WordLen -> Byte]
      BY <2>1, <2>2, <1>1, Numbers DEF Bytes
    <2> QED BY <2>3 DEF I64Load
  <1> QED BY <1>3, <1>4, TypeRunning DEF I64Load, Running, TypeInv

\* An i64.store writes bytes, wherever it puts them.
LEMMA TypeI64Store ==
  ASSUME TypeInv, NEW a \in InRam, NEW o \in Addresses, I64Store(a, o)
  PROVE  TypeInv'
  <1>1. Laid /\ a \in Nat /\ o \in Nat
    BY AreaFacts, CellsOfMemory, Numbers DEF I64Store, Running, TypeInv, Addresses
  <1>2. StoreOffset(o) \in Int
    BY <1>1, Numbers, MemoryAssumption DEF StoreOffset
  <1>3. sram' = Put(sram, Base + a + StoreOffset(o), wide)
    BY Halves DEF I64Store, TypeInv
  <1>4. wide \in Seq(Byte) /\ wideRef \in Seq(Byte)
    BY FunctionIsSeq, Numbers DEF TypeInv
  <1>5. sram' \in [Cells -> Byte]
    BY <1>1, <1>2, <1>3, <1>4, PutIn, Numbers DEF TypeInv
  <1>6. ref' \in [InRam -> Byte]
    <2>1. ref' = Put(ref, a + o, wideRef) /\ ref \in [InRam -> Byte] /\ a + o \in Int
      BY <1>1 DEF I64Store, TypeInv, Running
    <2> QED BY <2>1, <1>4, PutIn
  <1> QED BY <1>5, <1>6, TypeRunning DEF I64Store, Running, TypeInv

\* The value a global.set keeps is a word.
LEMMA KeptWord ==
  ASSUME NEW offset \in Nat, NEW v \in Word
  PROVE  Kept(offset, v) \in Seq(Byte) /\ Len(Kept(offset, v)) = WordLen
  <1>1. offset % Cardinality(Byte) \in Byte
    BY MemoryAssumption, SMTT(30)
  <1>2. Kept(offset, v) \in [1 .. WordLen -> Byte]
    BY <1>1, Numbers DEF Kept, Word
  <1> QED BY <1>2, FunctionIsSeq, Numbers

\* A global.set writes bytes.
LEMMA TypeGlobalSet ==
  ASSUME TypeInv, NEW g \in DOMAIN GlobalInit, NEW v \in Word, GlobalSet(g, v)
  PROVE  TypeInv'
  <1>1. WordLen * (g - 1) \in Nat
    BY Numbers, MemoryAssumption, LenProperties
  <1>2. GlobalCell(WordLen * (g - 1)) \in Int
    BY <1>1, Numbers, MemoryAssumption, SMTT(30) DEF GlobalCell
  <1>3. sram' \in [Cells -> Byte]
    BY <1>1, <1>2, KeptWord, PutIn DEF GlobalSet, TypeInv
  <1>4. ref' \in [InRam -> Byte]
    BY DEF GlobalSet, TypeInv, Running
  <1> QED BY <1>3, <1>4, TypeRunning DEF GlobalSet, Running, TypeInv

\* memset writes bytes.
LEMMA TypeMemset ==
  ASSUME TypeInv, NEW s \in InRam, NEW ch \in Byte, NEW n \in 1 .. WordLen, Memset(s, ch, n)
  PROVE  TypeInv'
  <1>1. Laid /\ s \in Nat /\ W2N(s) \in Int
    BY AreaFacts, CellsOfMemory DEF Memset, Running, TypeInv
  <1>2. [i \in 1 .. n |-> ch] \in Seq(Byte)
    BY Numbers, FunctionIsSeq
  <1>3. sram' \in [Cells -> Byte] /\ ref' \in [InRam -> Byte]
    <2> DEFINE b == [i \in 1 .. n |-> ch]
    <2>1. sram' = Put(sram, W2N(s), b) /\ ref' = Put(ref, s, b)
      BY DEF Memset
    <2>2. sram \in [Cells -> Byte] /\ ref \in [InRam -> Byte]
      BY DEF Memset, TypeInv, Running
    <2>3. b \in Seq(Byte)
      BY <1>2
    <2> HIDE DEF b
    <2>4. Put(sram, W2N(s), b) \in [Cells -> Byte]
      BY <2>2, <2>3, <1>1, PutIn
    <2>5. Put(ref, s, b) \in [InRam -> Byte]
      BY <2>2, <2>3, <1>1, PutIn, SMTT(30)
    <2> QED BY <2>1, <2>4, <2>5
  <1> QED BY <1>3, TypeRunning DEF Memset, Running, TypeInv

\* What memcpy reads, out of the flash or out of the memory, is bytes.
LEMMA CopiedBytes ==
  ASSUME TypeInv, Laid, NEW d \in InRam, NEW s \in Addresses, NEW n \in 1 .. WordLen, Memcpy(d, s, n)
  PROVE  LET inFlash == Extent(s, n) \subseteq Flash.start .. Flash.end - 1
         IN  /\ In(Flash, s) <=> inFlash
             /\ inFlash => FlashBytes(s, n) \in Seq(Byte) /\ Len(FlashBytes(s, n)) = n
             /\ ~inFlash =>
                  /\ Extent(s, n) \subseteq Owned
                  /\ Bytes(sram, W2N(s), n) \in Seq(Byte) /\ Len(Bytes(sram, W2N(s), n)) = n
                  /\ Bytes(ref, s, n) \in Seq(Byte) /\ Len(Bytes(ref, s, n)) = n
  <1> DEFINE inFlash == Extent(s, n) \subseteq Flash.start .. Flash.end - 1
  <1>1. s \in Nat /\ n \in Nat /\ n > 0 /\ s \in Extent(s, n)
    BY Numbers DEF Addresses, Extent
  <1>2. inFlash => In(Flash, s)
    BY <1>1 DEF In, Laid
  <1>3. inFlash => FlashBytes(s, n) \in Seq(Byte) /\ Len(FlashBytes(s, n)) = n
    BY <1>1, FlashBytesAt
  <1>4. ASSUME ~inFlash
        PROVE  /\ ~In(Flash, s) /\ Extent(s, n) \subseteq Owned
               /\ Bytes(sram, W2N(s), n) \in Seq(Byte) /\ Len(Bytes(sram, W2N(s), n)) = n
               /\ Bytes(ref, s, n) \in Seq(Byte) /\ Len(Bytes(ref, s, n)) = n
    <2>1. Extent(s, n) \subseteq Owned
      BY <1>4 DEF Memcpy
    <2>2. ~In(Flash, s)
      BY <2>1, <1>1, OwnedFacts
    <2>3. sram \in [Cells -> Byte] /\ ref \in [InRam -> Byte]
      BY DEF Memcpy, TypeInv, Running
    <2>4. \A x \in s .. s + n - 1 : ref[x] \in Byte
      BY <2>1, <2>3 DEF Extent, Owned
    <2>5. ASSUME NEW x \in W2N(s) .. W2N(s) + n - 1
          PROVE  sram[x] \in Byte
      <3>1. s + n - 1 \in Owned /\ s \in Owned
        BY <2>1, <1>1 DEF Extent
      <3>2. /\ W2N(s) \in Int /\ W2N(s) >= 0
            /\ W2N(s + n - 1) = W2N(s) + n - 1 /\ W2N(s + n - 1) <= StackPointer - 1
        <4>1. Ram.start \in Nat
          BY DEF Laid
        <4>2. /\ W2N(s) = Target + s - Ram.start /\ W2N(s) \in Target .. StackPointer - 1
              /\ W2N(s + n - 1) = Target + (s + n - 1) - Ram.start
              /\ W2N(s + n - 1) \in Target .. StackPointer - 1
          BY <3>1, OwnedFacts
        <4> QED BY <4>1, <4>2, <1>1, Numbers, SMTT(30)
      <3>3. x \in Cells
        BY <3>2, <1>1, Numbers DEF Cells
      <3> QED BY <3>3, <2>3
    <2>6. W2N(s) \in Int
      BY <2>1, <1>1, OwnedFacts
    <2> QED BY <2>1, <2>2, <2>4, <2>5, <2>6, <1>1, BytesAt
  <1> QED BY <1>2, <1>3, <1>4

\* memcpy writes bytes.
LEMMA TypeMemcpy ==
  ASSUME TypeInv, NEW d \in InRam, NEW s \in Addresses, NEW n \in 1 .. WordLen, Memcpy(d, s, n)
  PROVE  TypeInv'
  <1> DEFINE inFlash == Extent(s, n) \subseteq Flash.start .. Flash.end - 1
  <1>1. Laid /\ d \in Nat /\ W2N(d) \in Int
    BY AreaFacts, CellsOfMemory DEF Memcpy, Running, TypeInv
  <1>2. sram \in [Cells -> Byte] /\ ref \in [InRam -> Byte]
    BY DEF Memcpy, TypeInv, Running
  <1>3. PICK b \in Seq(Byte) : sram' = Put(sram, W2N(d), b)
    <2>1. CASE inFlash
      BY <2>1, <1>1, CopiedBytes DEF Memcpy
    <2>2. CASE ~inFlash
      BY <2>2, <1>1, CopiedBytes DEF Memcpy
    <2> QED BY <2>1, <2>2
  <1>4. PICK c \in Seq(Byte) : ref' = Put(ref, d, c)
    <2>1. CASE inFlash
      BY <2>1, <1>1, CopiedBytes DEF Memcpy
    <2>2. CASE ~inFlash
      BY <2>2, <1>1, CopiedBytes DEF Memcpy
    <2> QED BY <2>1, <2>2
  <1>5. sram' \in [Cells -> Byte] /\ ref' \in [InRam -> Byte]
    <2>1. Put(sram, W2N(d), b) \in [Cells -> Byte]
      BY <1>1, <1>2, PutIn
    <2>2. Put(ref, d, c) \in [InRam -> Byte]
      <3>1. d \in Int /\ ref \in [InRam -> Byte] /\ c \in Seq(Byte)
        BY <1>1, <1>2
      <3> QED BY <3>1, PutIn
    <2> QED BY <2>1, <2>2, <1>3, <1>4
  <1> QED BY <1>5, TypeRunning DEF Memcpy, Running, TypeInv

\* The next free cell of the stack lies above the memory the program owns.
LEMMA StackCell ==
  ASSUME TypeInv, NEW i \in Int, i >= 1, i <= StackRoom
  PROVE  StackPointer - i + 1 \in Cells /\ StackPointer - i + 1 > StackPointer - StackRoom
         /\ StackPointer - i + 1 > Target
  BY Numbers DEF Cells

\* A push writes a byte.
LEMMA TypeStackPush ==
  ASSUME TypeInv, NEW b \in Byte, StackPush(b)
  PROVE  TypeInv'
  <1>1. sram' \in [Cells -> Byte] /\ ref' \in [InRam -> Byte]
    <2>1. sram \in [Cells -> Byte] /\ ref \in [InRam -> Byte] /\ ref' = ref
      BY DEF StackPush, TypeInv, Running
    <2> DEFINE x == StackPointer - Len(stack)
    <2>2. sram' = [sram EXCEPT ![x] = b]
      BY DEF StackPush
    <2> HIDE DEF x
    <2>3. [sram EXCEPT ![x] = b] \in [Cells -> Byte]
      BY <2>1
    <2> QED BY <2>1, <2>2, <2>3
  <1>2. stack' \in Seq(Byte) /\ Len(stack') = Len(stack) + 1 /\ Len(stack) \in Nat
    BY AppendProperties, LenProperties DEF StackPush, TypeInv
  <1>3. Len(stack') <= StackRoom
    BY <1>2, Numbers DEF StackPush
  <1> QED BY <1>1, <1>2, <1>3, TypeRunning DEF StackPush, Running, TypeInv

\* What a pop leaves.
LEMMA Popped ==
  ASSUME TypeInv, StackPop
  PROVE  /\ stack' \in Seq(Byte) /\ Len(stack') = Len(stack) - 1 /\ Len(stack) \in Nat
         /\ \A i \in 1 .. Len(stack') : stack'[i] = stack[i]
  <1>1. stack \in Seq(Byte) /\ stack # <<>> /\ Len(stack) \in Nat /\ Len(stack) > 0
    BY EmptySeq DEF TypeInv, StackPop
  <1>2. \A i \in 1 .. Len(stack) - 1 : stack[i] \in Byte
    BY <1>1
  <1> DEFINE n == Len(stack) - 1
             t == SubSeq(stack, 1, n)
  <1>4. /\ t \in Seq(Byte) /\ Len(t) = IF 1 <= n THEN n - 1 + 1 ELSE 0
        /\ \A i \in 1 .. n - 1 + 1 : t[i] = stack[1 + i - 1]
    BY <1>1, <1>2, SubSeqProperties
  <1>3. stack' = t
    BY DEF StackPop
  <1> HIDE DEF t
  <1>5. Len(stack') = Len(stack) - 1
    <2>1. n \in Nat
      BY <1>1
    <2>2. Len(t) = IF 1 <= n THEN n - 1 + 1 ELSE 0
      BY <1>4
    <2> HIDE DEF n
    <2>3. Len(t) = n
      BY <2>1, <2>2
    <2> QED BY <2>3, <1>3 DEF n
  <1>6. \A i \in 1 .. Len(stack') : stack'[i] = stack[i]
    BY <1>1, <1>3, <1>4, <1>5
  <1> QED BY <1>1, <1>3, <1>4, <1>5, <1>6

\* Every step keeps the types and the layout.
LEMMA TypeNext == TypeInv /\ [Next]_vars => TypeInv'
  <1> SUFFICES ASSUME TypeInv, [Next]_vars PROVE TypeInv'
    OBVIOUS
  <1>1. CASE Start
    BY <1>1, TypeStart
  <1>2. ASSUME NEW a \in Addresses, Load(a) PROVE TypeInv'
    BY <1>2, TypeRunning DEF Load, Running, TypeInv
  <1>3. ASSUME NEW a \in Addresses, NEW n \in 1 .. WordLen, Store(a, n) PROVE TypeInv'
    BY <1>3, TypeStore
  <1>4. ASSUME NEW v \in Wides, I64Const(v) PROVE TypeInv'
    <2>1. v \in [1 .. 2 * WordLen -> Byte]
      BY MemoryAssumption
    <2> QED BY <1>4, <2>1, TypeRunning DEF I64Const, Running, TypeInv
  <1>5. ASSUME NEW a \in InRam, I64Load(a) PROVE TypeInv'
    BY <1>5, TypeI64Load
  <1>6. ASSUME NEW a \in InRam, NEW o \in Addresses, I64Store(a, o) PROVE TypeInv'
    BY <1>6, TypeI64Store
  <1>7. ASSUME NEW g \in DOMAIN GlobalInit, NEW v \in Word, GlobalSet(g, v) PROVE TypeInv'
    BY <1>7, TypeGlobalSet
  <1>8. ASSUME Malloc(2 * WordLen) PROVE TypeInv'
    <2>1. malloc_record' \in 0 .. Space - 1
      BY <1>8, Numbers, MemoryAssumption DEF Malloc, U16, TypeInv
    <2> QED BY <1>8, <2>1, TypeRunning DEF Malloc, Running, TypeInv
  <1>9. ASSUME NEW s \in InRam, NEW ch \in Byte, NEW n \in 1 .. WordLen, Memset(s, ch, n) PROVE TypeInv'
    BY <1>9, TypeMemset
  <1>10. ASSUME NEW d \in InRam, NEW s \in Addresses, NEW n \in 1 .. WordLen, Memcpy(d, s, n) PROVE TypeInv'
    BY <1>10, TypeMemcpy
  <1>11. ASSUME NEW b \in Byte, StackPush(b) PROVE TypeInv'
    BY <1>11, TypeStackPush
  <1>12. ASSUME StackPop PROVE TypeInv'
    <2>1. stack' \in Seq(Byte) /\ Len(stack') <= StackRoom
      BY <1>12, Popped, Numbers DEF TypeInv
    <2> QED BY <1>12, <2>1, TypeRunning DEF StackPop, Running, TypeInv
  <1>13. ASSUME UNCHANGED vars PROVE TypeInv'
    BY <1>13 DEF vars, TypeInv, Areas, Ram, Flash, InRam
  <1> QED BY <1>1, <1>2, <1>3, <1>4, <1>5, <1>6, <1>7, <1>8, <1>9, <1>10, <1>11, <1>12, <1>13 DEF Next

\* TypeOK: the shape of the state, and that the linear memory lies between the
\* globals and the stack pointer however the module's segments are laid out.
THEOREM MemoryTypes == Spec => []TypeOK
  BY TypeInit, TypeNext, TypesFollow, PTL DEF Spec

-----------------------------------------------------------------------------
(* The loads and the stack: what a program that keeps within its memory     *)
(* writes and reads.                                                        *)

\* A program that does none of what goes wrong.
Orderly == Liberties = {}

\* The memory the program owns holds what WebAssembly says it holds.
Agree == status = "run" => \A a \in Owned : sram[W2N(a)] = ref[a]

\* Until the entry function is called nothing is pushed, and the globals wait
\* where the compiler put their initial values.
BeforeStart ==
    status = "compiled" =>
        /\ stack = <<>> /\ globals = GlobalInit
        /\ \A x \in TempCells : sram[x] = InitCell(x - TempSpace)

LoadInv == TypeInv /\ Agree /\ StackIntact /\ BeforeStart

\* A step that writes some bytes at an address of the program to both memories.
Wrote ==
    /\ Running /\ UNCHANGED <<status, stack, globals>>
    /\ \E a \in Nat, b \in Seq(Byte) :
         /\ Len(b) > 0 /\ Extent(a, Len(b)) \subseteq Owned
         /\ sram' = Put(sram, W2N(a), b) /\ ref' = Put(ref, a, b)

\* A step that writes nothing.
Quiet ==
    /\ UNCHANGED <<segments, areas, sram, ref, globals>>
    /\ status' = status \/ (status = "run" /\ status' = "break")
    /\ stack' = stack \/ StackPop

\* Consecutive addresses the program owns are consecutive cells.
LEMMA OwnedExtent ==
  ASSUME Laid, NEW a \in Nat, NEW n \in Nat, Extent(a, n) \subseteq Owned, NEW k \in 0 .. n - 1
  PROVE  /\ a \in Owned /\ a + k \in Owned /\ W2N(a + k) = W2N(a) + k /\ W2N(a) \in Nat
         /\ W2N(a) + k \in Target .. StackPointer - 1 /\ W2N(a) + k \in Cells
         /\ W2N(a) + k <= StackPointer - StackRoom
  <1>1. a \in Owned /\ a + k \in Owned
    BY DEF Extent
  <1>2. Ram.start \in Nat
    BY DEF Laid
  <1>3. /\ W2N(a) = Target + a - Ram.start /\ W2N(a + k) = Target + (a + k) - Ram.start
        /\ W2N(a) \in Target .. StackPointer - 1 /\ W2N(a + k) \in Target .. StackPointer - 1
        /\ W2N(a + k) <= StackPointer - StackRoom
    BY <1>1, OwnedFacts
  <1>4. W2N(a + k) = W2N(a) + k /\ W2N(a) \in Nat
    BY <1>2, <1>3, Numbers, SMTT(30)
  <1> QED BY <1>1, <1>3, <1>4, Numbers DEF Cells

\* Such a write puts the same bytes under the same addresses, and changes no
\* cell that is not the program's.
LEMMA WriteEffect ==
  ASSUME Laid, TypeInv, status # "compiled", NEW a \in Nat, NEW b \in Seq(Byte),
         Extent(a, Len(b)) \subseteq Owned, Len(b) > 0
  PROVE  /\ \A x \in Cells : Put(sram, W2N(a), b)[x] = sram[x] \/ \E c \in Owned : W2N(c) = x
         /\ \A c \in Owned : sram[W2N(c)] = ref[c] => Put(sram, W2N(a), b)[W2N(c)] = Put(ref, a, b)[c]
  <1> DEFINE n == Len(b)
             w == W2N(a)
  <1>1. n \in Nat
    OBVIOUS
  <1>2. \A k \in 0 .. n - 1 : a + k \in Owned /\ W2N(a + k) = w + k
    BY <1>1, OwnedExtent
  <1>3. a \in Owned /\ w \in Nat /\ w = Target + a - Ram.start /\ Ram.start \in Nat
    <2>1. a \in Owned
      BY <1>1 DEF Extent
    <2> QED BY <2>1, OwnedFacts, Numbers DEF Laid
  <1>4. DOMAIN sram = Cells /\ DOMAIN ref = InRam
    BY DEF TypeInv
  <1>5. /\ \A x \in Cells : x \in w .. w + n - 1 => Put(sram, w, b)[x] = b[x - w + 1]
        /\ \A x \in Cells : x \notin w .. w + n - 1 => Put(sram, w, b)[x] = sram[x]
    BY <1>1, <1>3, <1>4, PutAt, SMTT(30)
  <1>6. /\ \A c \in InRam : c \in a .. a + n - 1 => Put(ref, a, b)[c] = b[c - a + 1]
        /\ \A c \in InRam : c \notin a .. a + n - 1 => Put(ref, a, b)[c] = ref[c]
    <2>1. a \in Int /\ b \in Seq(Byte) /\ DOMAIN ref = InRam
      BY <1>4
    <2>2. \A c \in DOMAIN ref : c \in a .. a + Len(b) - 1 => Put(ref, a, b)[c] = b[c - a + 1]
      BY <2>1, PutAt
    <2>3. \A c \in DOMAIN ref : c \notin a .. a + Len(b) - 1 => Put(ref, a, b)[c] = ref[c]
      BY <2>1, PutAt
    <2> QED BY <2>1, <2>2, <2>3
  <1>7. ASSUME NEW x \in Cells, Put(sram, w, b)[x] # sram[x]
        PROVE  \E c \in Owned : W2N(c) = x
    <2>1. x \in w .. w + n - 1
      BY <1>5, <1>7
    <2>2. x - w \in 0 .. n - 1 /\ x = w + (x - w)
      BY <2>1, <1>1, <1>3
    <2> QED BY <2>2, <1>2
  <1>8. ASSUME NEW c \in Owned, sram[W2N(c)] = ref[c]
        PROVE  Put(sram, w, b)[W2N(c)] = Put(ref, a, b)[c]
    <2>1. /\ c \in InRam /\ c \in Nat /\ W2N(c) = Target + c - Ram.start
          /\ W2N(c) \in Target .. StackPointer - 1
      BY OwnedFacts
    <2>2. W2N(c) \in Cells
      BY <2>1, Numbers DEF Cells
    <2>3. W2N(c) - w = c - a
      BY <2>1, <1>3, Numbers, SMTT(30)
    <2>4. W2N(c) \in w .. w + n - 1 <=> c \in a .. a + n - 1
      <3> DEFINE v == W2N(c)
      <3>1. v \in Int /\ w \in Int /\ c \in Int /\ a \in Int /\ n \in Int /\ v - w = c - a
        BY <2>1, <2>3, <1>1, <1>3
      <3> HIDE DEF v, w, n
      <3>2. v \in w .. w + n - 1 <=> c \in a .. a + n - 1
        BY <3>1
      <3> QED BY <3>2 DEF v, w, n
    <2>5. CASE c \in a .. a + n - 1
      BY <2>1, <2>2, <2>3, <2>4, <2>5, <1>5, <1>6
    <2>6. CASE c \notin a .. a + n - 1
      BY <2>1, <2>2, <2>4, <2>6, <1>5, <1>6, <1>8
    <2> QED BY <2>5, <2>6
  <1> QED BY <1>7, <1>8

\* embed_i32store and its kind: what passes the check of the address is owned.
LEMMA StoreKind ==
  ASSUME Orderly, TypeInv, NEW a \in Addresses, NEW n \in 1 .. WordLen, Store(a, n)
  PROVE  Wrote \/ Quiet
  <1>1. Laid
    BY AreaFacts DEF Store, Running, TypeInv
  <1>2. a \in Nat /\ n \in Nat /\ n > 0 /\ a \in Extent(a, n)
    BY Numbers DEF Addresses, Extent
  <1>3. CASE UNCHANGED <<sram, ref>> /\ status' = "break"
    BY <1>3 DEF Store, Running, Quiet
  <1>4. CASE /\ ~StoreBreaks(a) /\ status' = status
             /\ \E v \in [1 .. n -> Byte] : sram' = Put(sram, W2N(U16(a)), v) /\ ref' = Put(ref, a, v)
    <2>1. PICK v \in [1 .. n -> Byte] : sram' = Put(sram, W2N(U16(a)), v) /\ ref' = Put(ref, a, v)
      BY <1>4
    <2>2. v \in Seq(Byte) /\ Len(v) = n
      BY <1>2, FunctionIsSeq
    <2>3. \A x \in 0 .. Space - 1 : U16(x) = x
      BY Numbers DEF U16
    <2>4. Extent(a, n) \subseteq Owned
      <3>1. CASE Extent(a, n) \subseteq Flash.start .. Flash.end - 1
        <4>1. a \in Flash.start .. Flash.end - 1
          BY <3>1, <1>2
        <4>2. In(Flash, a) /\ a \in 0 .. Space - 1
          BY <4>1, <1>1, <1>2, Numbers, SMTT(30) DEF In, Laid
        <4> QED BY <4>2, <2>3, <1>4 DEF StoreBreaks
      <3>2. CASE a < Space /\ Extent(a, n) \cap (InRam \cup (Flash.start .. Flash.end - 1)) = {}
        <4>1. a \in 0 .. Space - 1 /\ a \notin InRam
          BY <3>2, <1>2, Numbers
        <4>2. ~In(Ram, a)
          <5>1. Ram.start \in Nat /\ Ram.end \in Nat
            BY <1>1 DEF Laid
          <5> QED BY <5>1, <4>1 DEF In, InRam
        <4> QED BY <4>1, <4>2, <2>3, <1>4 DEF StoreBreaks
      <3> QED BY <3>1, <3>2 DEF Store, Access, Orderly
    <2>5. U16(a) = a
      <3>1. a \in Nat /\ a < Space
        BY <2>4, <1>1, <1>2, OwnedFacts
      <3> QED BY <3>1, <2>3, Numbers
    <2>6. sram' = Put(sram, W2N(a), v)
      BY <2>1, <2>5
    <2> QED BY <2>1, <2>2, <2>4, <2>6, <1>2, <1>4 DEF Wrote, Store
  <1> QED BY <1>3, <1>4 DEF Store

\* i64.store in line: with the RAM area at 0 and an offset of one byte it adds
\* up the cell that addr_W2N would have.
LEMMA I64StoreKind ==
  ASSUME Orderly, TypeInv, NEW a \in InRam, NEW o \in Addresses, I64Store(a, o)
  PROVE  Wrote
  <1>1. Laid /\ a \in Nat /\ o \in Nat
    BY AreaFacts, CellsOfMemory, Numbers DEF I64Store, Running, TypeInv, Addresses
  <1>2. Ram.start = 0 /\ wide = wideRef /\ o + GlobalSize < OffsetByte
        /\ Extent(a + o, 2 * WordLen) \subseteq Owned
    BY DEF I64Store, HasLong, Orderly
  <1>3. wide \in Seq(Byte) /\ Len(wide) = 2 * WordLen /\ Low(wide) \o High(wide) = wide
    <2>1. wide \in [1 .. 2 * WordLen -> Byte] /\ 2 * WordLen \in Nat
      BY Numbers DEF TypeInv
    <2> QED BY <2>1, FunctionIsSeq, Halves, ZenonT(30)
  <1>4. (o + GlobalSize) % OffsetByte = o + GlobalSize
    <2>1. OffsetByte \in Nat /\ o + GlobalSize \in Nat
      BY <1>1, Numbers, MemoryAssumption
    <2>2. \A x, m \in Nat : x < m => x % m = x
      OBVIOUS
    <2> QED BY <2>1, <2>2, <1>2
  <1>5. StoreOffset(o) = o + GlobalSize
    BY <1>4 DEF StoreOffset
  <1>6. a + o \in Nat /\ a + o \in Owned
    BY <1>1, <1>2, Numbers DEF Extent
  <1>7. W2N(a + o) = Base + a + StoreOffset(o)
    BY <1>1, <1>2, <1>5, <1>6, OwnedFacts, Numbers
  <1>8. sram' = Put(sram, W2N(a + o), wide) /\ ref' = Put(ref, a + o, wide)
    BY <1>2, <1>3, <1>7 DEF I64Store
  <1>9. Len(wide) > 0 /\ Extent(a + o, Len(wide)) \subseteq Owned
    BY <1>2, <1>3, Numbers
  <1> QED BY <1>3, <1>6, <1>8, <1>9 DEF Wrote, I64Store, Running

\* memset writes where the program owns.
LEMMA MemsetKind ==
  ASSUME TypeInv, NEW s \in InRam, NEW ch \in Byte, NEW n \in 1 .. WordLen, Memset(s, ch, n)
  PROVE  Wrote
  <1> DEFINE b == [i \in 1 .. n |-> ch]
  <1>1. s \in Nat
    BY AreaFacts, CellsOfMemory DEF Memset, Running, TypeInv
  <1>2. b \in Seq(Byte) /\ Len(b) = n /\ n > 0
    BY Numbers, FunctionIsSeq
  <1>3. sram' = Put(sram, W2N(s), b) /\ ref' = Put(ref, s, b) /\ Extent(s, n) \subseteq Owned
    BY DEF Memset
  <1> HIDE DEF b
  <1> QED BY <1>1, <1>2, <1>3 DEF Wrote, Memset

\* memcpy reads what WebAssembly says is there.
LEMMA MemcpyKind ==
  ASSUME TypeInv, Agree, NEW d \in InRam, NEW s \in Addresses, NEW n \in 1 .. WordLen, Memcpy(d, s, n)
  PROVE  Wrote
  <1> DEFINE inFlash == Extent(s, n) \subseteq Flash.start .. Flash.end - 1
  <1>1. Laid /\ d \in Nat /\ s \in Nat /\ n \in Nat /\ n > 0
    BY AreaFacts, CellsOfMemory, Numbers, SMTT(30) DEF Memcpy, Running, TypeInv, Addresses
  <1>2. Extent(d, n) \subseteq Owned
    BY DEF Memcpy
  <1>3. CASE inFlash
    <2> DEFINE b == FlashBytes(s, n)
    <2>1. b \in Seq(Byte) /\ Len(b) = n /\ sram' = Put(sram, W2N(d), b) /\ ref' = Put(ref, d, b)
      BY <1>1, <1>3, CopiedBytes DEF Memcpy
    <2> QED BY <2>1, <1>1, <1>2 DEF Wrote, Memcpy
  <1>4. CASE ~inFlash
    <2> DEFINE b == Bytes(sram, W2N(s), n)
               c == Bytes(ref, s, n)
    <2>1. b \in Seq(Byte) /\ Len(b) = n /\ sram' = Put(sram, W2N(d), b) /\ ref' = Put(ref, d, c)
          /\ Extent(s, n) \subseteq Owned
      BY <1>1, <1>4, CopiedBytes DEF Memcpy
    <2>2. \A i \in 1 .. n : sram[W2N(s) + i - 1] = ref[s + i - 1]
      <3> SUFFICES ASSUME NEW i \in 1 .. n PROVE sram[W2N(s) + i - 1] = ref[s + i - 1]
        OBVIOUS
      <3>1. i - 1 \in 0 .. n - 1 /\ s + (i - 1) = s + i - 1
        BY <1>1
      <3>2. s + (i - 1) \in Owned /\ W2N(s + (i - 1)) = W2N(s) + (i - 1) /\ W2N(s) \in Nat
        BY <2>1, <3>1, <1>1, OwnedExtent
      <3>3. W2N(s) + (i - 1) = W2N(s) + i - 1
        BY <3>2
      <3>4. sram[W2N(s + (i - 1))] = ref[s + (i - 1)]
        BY <3>2 DEF Agree, Memcpy, Running
      <3> QED BY <3>1, <3>2, <3>3, <3>4
    <2>3. b = c
      BY <2>2 DEF Bytes
    <2> HIDE DEF b, c
    <2> QED BY <2>1, <2>3, <1>1, <1>2 DEF Wrote, Memcpy
  <1> QED BY <1>3, <1>4

\* What the steps of an orderly program do to the memory.
LEMMA StepKinds ==
  ASSUME Orderly, TypeInv, Agree, [Next]_vars
  PROVE  \/ Start \/ Wrote \/ Quiet
         \/ \E g \in DOMAIN GlobalInit, v \in Word : GlobalSet(g, v)
         \/ \E b \in Byte : StackPush(b)
  <1>1. ASSUME NEW a \in Addresses, Load(a) PROVE Quiet
    BY <1>1 DEF Load, Running, Quiet
  <1>2. ASSUME NEW v \in Wides, I64Const(v) PROVE Quiet
    BY <1>2 DEF I64Const, Running, Quiet
  <1>3. ASSUME NEW a \in InRam, I64Load(a) PROVE Quiet
    BY <1>3 DEF I64Load, Running, Quiet
  <1>4. ASSUME Malloc(2 * WordLen) PROVE Quiet
    BY <1>4 DEF Malloc, Running, Quiet
  <1>5. ASSUME StackPop PROVE Quiet
    BY <1>5 DEF StackPop, Running, Quiet
  <1>6. ASSUME UNCHANGED vars PROVE Quiet
    BY <1>6 DEF vars, Quiet
  <1> QED BY <1>1, <1>2, <1>3, <1>4, <1>5, <1>6, StoreKind, I64StoreKind, MemsetKind, MemcpyKind DEF Next

\* Where the program is started everything agrees: the cells behind the globals
\* are the ones the memory is said to begin with.
LEMMA StartAgrees ==
  ASSUME TypeInv, Start
  PROVE  Agree'
  <1> DEFINE data == WithData
  <1>1. /\ data \in [Cells -> Byte]
        /\ sram' = Put(data, Base, Bytes(data, TempSpace, GlobalSize))
        /\ ref' = [a \in InRam' |-> data[Target + a - Ram'.start]]
    BY StartMemory
  <1> HIDE DEF data
  <1>2. /\ Bytes(data, TempSpace, GlobalSize) \in Seq(Byte)
        /\ Len(Bytes(data, TempSpace, GlobalSize)) = GlobalSize
    BY <1>1, GlobalBytes
  <1>3. \A x \in Cells : x >= Target => sram'[x] = data[x]
    <2>1. \A x \in Cells : x \notin Base .. Base + GlobalSize - 1 => sram'[x] = data[x]
      BY <1>1, <1>2, PutAt, Numbers
    <2> QED BY <2>1, Numbers, SMTT(30) DEF Cells
  <1>4. Laid'
    <2>1. (Areas /\ status # "compiled" => Laid)'
      BY AreaFacts, PTL
    <2>2. Areas' /\ status' = "run"
      BY TypeStart DEF TypeInv, Start
    <2> QED BY <2>1, <2>2
  <1>5. ASSUME NEW a \in Owned'
        PROVE  sram'[W2N(a)'] = ref'[a]
    <2>1. a \in InRam' /\ a \in Nat /\ W2N(a)' = Target + a - Ram'.start /\ W2N(a)' \in Cells /\ W2N(a)' >= Target
      <3>1. /\ Ram'.start \in Nat /\ Ram'.target = Target
            /\ Ram'.end = Ram'.start + StackPointer - Target
        BY <1>4 DEF Laid
      <3>2. a \in InRam' /\ W2N(a)' = Target + a - Ram'.start
        BY <3>1 DEF Owned, W2N
      <3>3. a \in Ram'.start .. Ram'.end - 1
        BY <3>2 DEF InRam
      <3> QED BY <3>1, <3>2, <3>3, Numbers DEF Cells
    <2> QED BY <2>1, <1>1, <1>3
  <1> QED BY <1>5 DEF Agree

\* A write in the program's memory: the loads agree, and the cells above the
\* stack's limit and those below the linear memory stay.
LEMMA WroteAgrees ==
  ASSUME TypeInv, Agree, Wrote
  PROVE  /\ Agree'
         /\ \A x \in Cells : sram'[x] # sram[x] => \E a \in Owned : W2N(a) = x
         /\ \A x \in Cells : x < Target \/ x > StackPointer - StackRoom => sram'[x] = sram[x]
  <1>1. PICK a \in Nat, b \in Seq(Byte) :
          /\ Len(b) > 0 /\ Extent(a, Len(b)) \subseteq Owned
          /\ sram' = Put(sram, W2N(a), b) /\ ref' = Put(ref, a, b)
    BY DEF Wrote
  <1>2. Laid /\ status = "run" /\ UNCHANGED <<areas, status>>
    BY AreaFacts DEF Wrote, Running, TypeInv
  <1>3. /\ \A x \in Cells : sram'[x] = sram[x] \/ \E c \in Owned : W2N(c) = x
        /\ \A c \in Owned : sram[W2N(c)] = ref[c] => sram'[W2N(c)] = ref'[c]
    BY <1>1, <1>2, WriteEffect
  <1>4. Owned' = Owned /\ \A c : W2N(c)' = W2N(c)
    BY <1>2 DEF Owned, InRam, W2N, Ram
  <1>5. Agree'
    BY <1>2, <1>3, <1>4 DEF Agree, W2N, Ram
  <1>6. ASSUME NEW x \in Cells, x < Target \/ x > StackPointer - StackRoom
        PROVE  sram'[x] = sram[x]
    <2>1. \A c \in Owned : W2N(c) # x
      BY <1>2, <1>6, OwnedFacts, Numbers DEF Cells
    <2> QED BY <2>1, <1>3
  <1> QED BY <1>3, <1>5, <1>6

\* The offset of a global lies within the globals.
LEMMA GlobalOffset ==
  ASSUME NEW g \in DOMAIN GlobalInit
  PROVE  /\ g \in 1 .. Len(GlobalInit)
         /\ WordLen * (g - 1) \in Nat /\ WordLen * (g - 1) + WordLen = WordLen * g
         /\ WordLen * (g - 1) + WordLen <= GlobalSize
  <1>1. WordLen \in Nat /\ Len(GlobalInit) \in Nat /\ g \in 1 .. Len(GlobalInit)
    BY Numbers, MemoryAssumption, LenProperties
  <1>2. WordLen * (g - 1) \in Nat /\ WordLen * (g - 1) + WordLen = WordLen * g
    BY <1>1
  <1>3. WordLen * g <= WordLen * Len(GlobalInit)
    BY <1>1
  <1> QED BY <1>1, <1>2, <1>3 DEF GlobalSize

\* A global.set writes cells of the globals and no other.
LEMMA SetStays ==
  ASSUME TypeInv, NEW g \in DOMAIN GlobalInit, NEW v \in Word, GlobalSet(g, v)
  PROVE  \A x \in Cells : x < Base \/ x >= Target => sram'[x] = sram[x]
  <1> DEFINE offset == WordLen * (g - 1)
             cell == GlobalCell(offset)
             kept == Kept(offset, v)
  <1>1. offset \in Nat /\ offset + WordLen <= GlobalSize
    BY GlobalOffset
  <1>2. cell \in Nat /\ cell >= Base /\ cell <= Base + offset
    <2>1. offset % OffsetByte \in Nat /\ offset % OffsetByte <= offset
      <3>1. OffsetByte \in Nat /\ OffsetByte > 0
        BY MemoryAssumption
      <3>2. \A x, m \in Nat : m > 0 => x % m \in Nat /\ x % m <= x
        OBVIOUS
      <3> QED BY <3>1, <3>2, <1>1
    <2> QED BY <2>1, <1>1, Numbers, SMTT(30) DEF GlobalCell
  <1>3. kept \in Seq(Byte) /\ Len(kept) = WordLen
    BY <1>1, KeptWord
  <1>4. sram' = Put(sram, cell, kept) /\ DOMAIN sram = Cells
    BY DEF GlobalSet, TypeInv
  <1> HIDE DEF offset, cell, kept
  <1>5. \A x \in Cells : x \notin cell .. cell + WordLen - 1 => sram'[x] = sram[x]
    <2>1. cell \in Int /\ kept \in Seq(Byte) /\ DOMAIN sram = Cells
      BY <1>2, <1>3, <1>4
    <2>2. \A x \in Cells : x \notin cell .. cell + Len(kept) - 1 => Put(sram, cell, kept)[x] = sram[x]
      BY <2>1, PutAt
    <2> QED BY <2>2, <1>3, <1>4
  <1> QED BY <1>1, <1>2, <1>5, Numbers DEF Cells

\* What the steps that are not the program's writes do to the loads.
LEMMA OthersAgree ==
  ASSUME TypeInv, Agree,
         \/ Quiet
         \/ \E g \in DOMAIN GlobalInit, v \in Word : GlobalSet(g, v)
         \/ \E b \in Byte : StackPush(b)
  PROVE  Agree'
  <1> SUFFICES ASSUME status' = "run" PROVE \A a \in Owned' : sram'[W2N(a)'] = ref'[a]
    BY DEF Agree
  <1>1. status = "run" /\ areas' = areas /\ ref' = ref
    BY DEF Quiet, GlobalSet, StackPush, Running
  <1>2. Laid /\ Owned' = Owned
    BY <1>1, AreaFacts DEF TypeInv, Owned, InRam, W2N, Ram
  <1>3. ASSUME NEW a \in Owned PROVE sram'[W2N(a)] = sram[W2N(a)]
    <2>1. W2N(a) \in Target .. StackPointer - 1 /\ W2N(a) <= StackPointer - StackRoom /\ W2N(a) \in Cells
      BY <1>2, OwnedFacts, Numbers DEF Cells
    <2>2. CASE Quiet
      BY <2>2 DEF Quiet
    <2>3. ASSUME NEW g \in DOMAIN GlobalInit, NEW v \in Word, GlobalSet(g, v)
          PROVE  sram'[W2N(a)] = sram[W2N(a)]
      BY <2>1, <2>3, SetStays, Numbers, SMTT(30)
    <2>4. ASSUME NEW b \in Byte, StackPush(b)
          PROVE  sram'[W2N(a)] = sram[W2N(a)]
      <3>1. sram' = [sram EXCEPT ![StackPointer - Len(stack)] = b] /\ Len(stack) < StackRoom /\ Len(stack) \in Nat
        BY <2>4, LenProperties DEF StackPush, TypeInv
      <3>2. StackPointer - Len(stack) # W2N(a)
        BY <3>1, <2>1, Numbers
      <3>3. DOMAIN sram = Cells
        BY DEF TypeInv
      <3> QED BY <3>1, <3>2, <3>3, <2>1
    <2> QED BY <2>2, <2>3, <2>4
  <1>4. \A a \in Owned : W2N(a)' = W2N(a)
    BY <1>1 DEF W2N, Ram
  <1> QED BY <1>1, <1>2, <1>3, <1>4 DEF Agree, W2N, Ram

\* No step of an orderly program disturbs what the code has pushed.
LEMMA StackStays ==
  ASSUME Orderly, LoadInv, [Next]_vars
  PROVE  StackIntact'
  <1>1. TypeInv /\ Agree /\ StackIntact /\ BeforeStart
    BY DEF LoadInv
  <1>2. stack \in Seq(Byte) /\ Len(stack) \in Nat /\ Len(stack) <= StackRoom /\ DOMAIN stack = 1 .. Len(stack)
    BY <1>1, LenProperties DEF TypeInv
  <1>3. \A i \in 1 .. Len(stack) : sram[StackPointer - i + 1] = stack[i]
    BY <1>1, <1>2 DEF StackIntact
  <1>4. \A i \in 1 .. Len(stack) : StackPointer - i + 1 \in Cells
          /\ StackPointer - i + 1 > StackPointer - StackRoom /\ StackPointer - i + 1 > Target
    BY <1>2, Numbers DEF Cells
  <1>5. ASSUME stack' = stack, \A x \in Cells : x > StackPointer - StackRoom => sram'[x] = sram[x]
        PROVE  StackIntact'
    BY <1>2, <1>3, <1>4, <1>5 DEF StackIntact
  <1>6. CASE Start
    <2>1. stack = <<>> /\ stack' = stack
      BY <1>1, <1>6 DEF BeforeStart, Start
    <2> QED BY <2>1 DEF StackIntact
  <1>7. CASE Wrote
    BY <1>1, <1>5, <1>7, WroteAgrees DEF Wrote
  <1>8. CASE Quiet
    <2>1. CASE stack' = stack
      BY <1>5, <1>8, <2>1 DEF Quiet
    <2>2. CASE StackPop
      <3>1. /\ stack' \in Seq(Byte) /\ Len(stack') = Len(stack) - 1
            /\ \A i \in 1 .. Len(stack') : stack'[i] = stack[i]
        BY <1>1, <2>2, Popped
      <3>2. DOMAIN stack' = 1 .. Len(stack') /\ 1 .. Len(stack') \subseteq 1 .. Len(stack)
        BY <3>1, <1>2, LenProperties
      <3> QED BY <1>3, <1>8, <3>1, <3>2 DEF StackIntact, Quiet
    <2> QED BY <1>8, <2>1, <2>2 DEF Quiet
  <1>9. ASSUME NEW g \in DOMAIN GlobalInit, NEW v \in Word, GlobalSet(g, v)
        PROVE  StackIntact'
    <2>1. \A x \in Cells : x >= Target => sram'[x] = sram[x]
      BY <1>1, <1>9, SetStays
    <2>2. \A x \in Cells : x > StackPointer - StackRoom => x >= Target
      BY Numbers DEF Cells
    <2> QED BY <1>5, <1>9, <2>1, <2>2 DEF GlobalSet
  <1>10. ASSUME NEW b \in Byte, StackPush(b)
         PROVE  StackIntact'
    <2> DEFINE n == Len(stack)
    <2>1. sram' = [sram EXCEPT ![StackPointer - n] = b] /\ stack' = Append(stack, b) /\ n < StackRoom
      BY <1>10 DEF StackPush
    <2>2. /\ Len(stack') = n + 1 /\ DOMAIN stack' = 1 .. n + 1
          /\ \A i \in 1 .. n : stack'[i] = stack[i]
          /\ stack'[n + 1] = b
      BY <1>2, <2>1, AppendProperties, LenProperties
    <2>3. StackPointer - n \in Cells /\ DOMAIN sram = Cells /\ StackPointer - (n + 1) + 1 = StackPointer - n
      BY <1>1, <1>2, <2>1, Numbers DEF Cells, TypeInv
    <2>4. sram'[StackPointer - (n + 1) + 1] = b
      BY <2>1, <2>3
    <2>5. \A i \in 1 .. n : StackPointer - i + 1 # StackPointer - n
      BY <1>2, Numbers
    <2>6. \A i \in 1 .. n : sram'[StackPointer - i + 1] = stack[i]
      BY <1>3, <1>4, <2>1, <2>3, <2>5
    <2>7. \A i \in 1 .. n + 1 : i \in 1 .. n \/ i = n + 1
      BY <1>2
    <2> QED BY <2>2, <2>4, <2>6, <2>7 DEF StackIntact
  <1> QED BY <1>1, <1>6, <1>7, <1>8, <1>9, <1>10, StepKinds

\* The invariant of the loads and the stack.
LEMMA LoadInit == Init => LoadInv
  <1> SUFFICES ASSUME Init PROVE LoadInv
    OBVIOUS
  <1>1. TypeInv
    BY TypeInit
  <1>2. stack = <<>> /\ status = "compiled" /\ globals = GlobalInit
    BY DEF Init
  <1>3. \A x \in TempCells : sram[x] = InitCell(x - TempSpace)
    <2>1. PICK junk \in Byte :
            sram = [x \in Cells |-> IF x \in TempCells THEN InitCell(x - TempSpace) ELSE junk]
      BY DEF Init
    <2>2. TempCells \subseteq Cells
      BY MemoryAssumption
    <2> QED BY <2>1, <2>2
  <1> QED BY <1>1, <1>2, <1>3 DEF LoadInv, Agree, StackIntact, BeforeStart

\* An orderly program's steps keep it.
LEMMA LoadNext == ASSUME Orderly PROVE LoadInv /\ [Next]_vars => LoadInv'
  <1> SUFFICES ASSUME LoadInv, [Next]_vars PROVE LoadInv'
    OBVIOUS
  <1>1. TypeInv /\ Agree /\ BeforeStart
    BY DEF LoadInv
  <1>2. TypeInv'
    BY <1>1, TypeNext
  <1>3. StackIntact'
    BY StackStays
  <1>4. Agree'
    BY <1>1, StepKinds, StartAgrees, WroteAgrees, OthersAgree
  <1>5. BeforeStart'
    <2> SUFFICES ASSUME status' = "compiled" PROVE status = "compiled" /\ UNCHANGED <<stack, globals, sram>>
      BY <1>1 DEF BeforeStart
    <2>1. CASE Quiet
      BY <2>1 DEF Quiet, StackPop, Running
    <2>2. CASE Start
      BY <2>2 DEF Start
    <2>3. CASE \/ Wrote
               \/ \E g \in DOMAIN GlobalInit, v \in Word : GlobalSet(g, v)
               \/ \E b \in Byte : StackPush(b)
      BY <2>3 DEF Wrote, GlobalSet, StackPush, Running
    <2> QED BY <1>1, <2>1, <2>2, <2>3, StepKinds
  <1> QED BY <1>2, <1>3, <1>4, <1>5 DEF LoadInv

\* What is loaded, cell by cell, is what the memory holds.
LEMMA LoadsFollow == LoadInv => MemoryAgrees
  <1> SUFFICES ASSUME LoadInv, status = "run", NEW a \in Owned, NEW n \in 1 .. WordLen,
                      Extent(a, n) \subseteq Owned
               PROVE  SubSeq(Loaded(a), 1, n) = Bytes(ref, a, n)
    BY DEF MemoryAgrees
  <1>1. TypeInv /\ Agree
    BY DEF LoadInv
  <1>2. Laid
    BY <1>1, AreaFacts DEF TypeInv
  <1>3. a \in Nat /\ ~In(Flash, a) /\ n \in Nat /\ n > 0
    BY <1>2, OwnedFacts, Numbers
  <1>4. \A i \in 1 .. n : Loaded(a)[i] = ref[a + i - 1] /\ ref[a + i - 1] \in Byte
    <2> SUFFICES ASSUME NEW i \in 1 .. n
                 PROVE  Loaded(a)[i] = ref[a + i - 1] /\ ref[a + i - 1] \in Byte
      OBVIOUS
    <2>1. i - 1 \in 0 .. n - 1 /\ a + (i - 1) = a + i - 1 /\ i \in 1 .. WordLen
      BY <1>3, Numbers
    <2>2. /\ a + i - 1 \in Owned /\ W2N(a + i - 1) = W2N(a) + (i - 1)
          /\ W2N(a) \in Nat /\ W2N(a) + (i - 1) \in Cells
      BY <1>2, <1>3, <2>1, OwnedExtent
    <2>3. W2N(a) + (i - 1) = W2N(a) + i - 1
      BY <2>2
    <2>4. Loaded(a)[i] = sram[W2N(a) + i - 1]
      BY <1>3, <2>1, <2>2, <2>3 DEF Loaded
    <2>5. sram[W2N(a + i - 1)] = ref[a + i - 1]
      BY <1>1, <2>2 DEF Agree
    <2>6. ref[a + i - 1] \in Byte
      BY <1>1, <2>2 DEF TypeInv, Owned
    <2> QED BY <2>2, <2>3, <2>4, <2>5, <2>6
  <1> DEFINE l == SubSeq(Loaded(a), 1, n)
             r == Bytes(ref, a, n)
  <1>5. /\ l \in Seq(Byte) /\ Len(l) = n /\ \A i \in 1 .. n : l[i] = Loaded(a)[i]
    <2>1. \A i \in 1 .. n : Loaded(a)[i] \in Byte
      BY <1>4
    <2>2. /\ l \in Seq(Byte) /\ Len(l) = IF 1 <= n THEN n - 1 + 1 ELSE 0
          /\ \A i \in 1 .. n - 1 + 1 : l[i] = Loaded(a)[1 + i - 1]
      BY <2>1, <1>3, SubSeqProperties
    <2> HIDE DEF l
    <2> QED BY <2>2, <1>3
  <1>6. /\ r \in Seq(Byte) /\ Len(r) = n /\ \A i \in 1 .. n : r[i] = ref[a + i - 1]
    <2>1. \A x \in a .. a + n - 1 : ref[x] \in Byte
      <3> SUFFICES ASSUME NEW x \in a .. a + n - 1 PROVE ref[x] \in Byte
        OBVIOUS
      <3>1. x - a + 1 \in 1 .. n /\ a + (x - a + 1) - 1 = x
        BY <1>3
      <3> QED BY <3>1, <1>4
    <2> QED BY <2>1, <1>3, BytesAt
  <1> HIDE DEF l, r
  <1>7. l = r
    BY <1>4, <1>5, <1>6, SeqEqual
  <1> QED BY <1>7 DEF l, r

\* MemoryAgrees: of a program that keeps within its memory every load finds what
\* WebAssembly says is there, by whatever way it was written.
THEOREM LoadsFindWhatWasStored == ASSUME Orderly PROVE Spec => []MemoryAgrees
  <1>1. Init => LoadInv
    BY LoadInit
  <1>2. LoadInv /\ [Next]_vars => LoadInv'
    BY LoadNext
  <1>3. LoadInv => MemoryAgrees
    BY LoadsFollow
  <1> QED BY <1>1, <1>2, <1>3, PTL DEF Spec

\* StackIntact: nothing but a push writes where the code has pushed, though the
\* stack lies in the linear memory.
THEOREM StackIsKept == ASSUME Orderly PROVE Spec => []StackIntact
  <1>1. Init => LoadInv
    BY LoadInit
  <1>2. LoadInv /\ [Next]_vars => LoadInv'
    BY LoadNext
  <1>3. LoadInv => StackIntact
    BY DEF LoadInv
  <1> QED BY <1>1, <1>2, <1>3, PTL DEF Spec

-----------------------------------------------------------------------------
(* The cells around the linear memory.                                      *)

\* Each step of an orderly program leaves the cells below the globals and those
\* above the stack pointer.
LEMMA HostStep ==
  ASSUME Orderly, LoadInv, [Next]_vars
  PROVE  \A x \in Cells : x < Base \/ x > StackPointer => sram'[x] = sram[x]
  <1> SUFFICES ASSUME NEW x \in Cells, x < Base \/ x > StackPointer
               PROVE  sram'[x] = sram[x]
    OBVIOUS
  <1>1. TypeInv /\ Agree /\ DOMAIN sram = Cells
    BY DEF LoadInv, TypeInv
  <1>2. x \in Int /\ (x < Target \/ x > StackPointer - StackRoom) /\ (x < Base \/ x >= Target)
    BY Numbers DEF Cells
  <1>3. CASE Start
    <2> DEFINE data == WithData
               b == Bytes(data, TempSpace, GlobalSize)
    <2>1. data \in [Cells -> Byte] /\ sram' = Put(data, Base, b)
      BY <1>1, <1>3, StartMemory
    <2>2. b \in Seq(Byte) /\ Len(b) = GlobalSize
      BY <2>1, GlobalBytes
    <2>3. data[x] = sram[x]
      <3>1. CASE Len(segments) = 2
        <4> DEFINE d == segments[2].data
        <4>1. d \in Seq(Byte) /\ Target + Len(d) <= StackPointer /\ Len(d) \in Nat
          BY <3>1, <1>1, SecondSegment, LenProperties DEF TypeInv, Areas
        <4>2. data = Put(sram, Target, d)
          BY <3>1 DEF WithData
        <4> HIDE DEF d, data
        <4>3. Target \in Int /\ x \notin Target .. Target + Len(d) - 1
          BY <4>1, Numbers DEF Cells
        <4>4. Put(sram, Target, d)[x] = sram[x]
          BY <4>1, <4>3, <1>1, PutAt
        <4> QED BY <4>2, <4>4
      <3>2. CASE Len(segments) # 2
        BY <3>2 DEF WithData
      <3> QED BY <3>1, <3>2
    <2> HIDE DEF b, data
    <2>4. Base \in Int /\ x \notin Base .. Base + GlobalSize - 1 /\ DOMAIN data = Cells
      BY <1>2, <2>1, Numbers DEF Cells
    <2>5. Put(data, Base, b)[x] = data[x]
      BY <2>2, <2>4, PutAt
    <2> QED BY <2>1, <2>3, <2>5
  <1>4. CASE Wrote
    BY <1>1, <1>2, <1>4, WroteAgrees
  <1>5. CASE Quiet
    BY <1>5 DEF Quiet
  <1>6. ASSUME NEW g \in DOMAIN GlobalInit, NEW v \in Word, GlobalSet(g, v)
        PROVE  sram'[x] = sram[x]
    BY <1>1, <1>2, <1>6, SetStays
  <1>7. ASSUME NEW b \in Byte, StackPush(b)
        PROVE  sram'[x] = sram[x]
    <2>1. sram' = [sram EXCEPT ![StackPointer - Len(stack)] = b] /\ Len(stack) < StackRoom /\ Len(stack) \in Nat
      BY <1>1, <1>7, LenProperties DEF StackPush, TypeInv
    <2>2. StackPointer - Len(stack) # x
      BY <2>1, <1>2, Numbers
    <2> QED BY <2>1, <2>2, <1>1
  <1> QED BY <1>1, <1>3, <1>4, <1>5, <1>6, <1>7, StepKinds

\* HostKept: no step of an orderly program reaches the cells below the globals,
\* where mem_areas and ts lie, or those above the stack pointer.
THEOREM HostIsKept == ASSUME Orderly PROVE Spec => HostKept
  <1>1. Init => LoadInv
    BY LoadInit
  <1>2. LoadInv /\ [Next]_vars => LoadInv'
    BY LoadNext
  <1>3. LoadInv /\ [Next]_vars =>
          [\A x \in Cells : x < Base \/ x > StackPointer => sram'[x] = sram[x]]_vars
    BY HostStep
  <1> QED BY <1>1, <1>2, <1>3, PTL DEF Spec, HostKept

-----------------------------------------------------------------------------
(* The globals.                                                             *)

\* Every global is within the reach of STD with a constant offset.
NearGlobals == GlobalSize - WordLen < DirectRange

\* The data of a second segment does not reach the initial values of the globals,
\* which wasm_call_entry_method copies after it.
SafeGlobals ==
    \A ss \in Layouts :
        Len(ss) = 2 => TempCells \cap (Target .. Target + Len(ss[2].data) - 1) = {}

GlobalInv ==
    /\ LoadInv
    /\ globals \in [1 .. Len(GlobalInit) -> Word]
    /\ status # "compiled" =>
         \A g \in 1 .. Len(GlobalInit), i \in 1 .. WordLen :
             sram[Base + WordLen * (g - 1) + i - 1] = globals[g][i]

\* Where the cells of a global are, among those of the globals.
LEMMA GlobalCells ==
  ASSUME NEW g \in 1 .. Len(GlobalInit), NEW i \in 1 .. WordLen
  PROVE  /\ g \in DOMAIN GlobalInit /\ WordLen * (g - 1) \in Nat
         /\ WordLen * (g - 1) + i - 1 \in 0 .. GlobalSize - 1
         /\ Base + WordLen * (g - 1) + i - 1 \in Cells
         /\ Base + WordLen * (g - 1) + i - 1 < Target
         /\ TempSpace + (WordLen * (g - 1) + i - 1) \in TempCells
  <1>1. g \in DOMAIN GlobalInit
    BY MemoryAssumption, LenProperties
  <1>2. WordLen * (g - 1) \in Nat /\ WordLen * (g - 1) + WordLen <= GlobalSize
    BY <1>1, GlobalOffset
  <1> DEFINE o == WordLen * (g - 1)
  <1> HIDE DEF o
  <1>3. o \in Nat /\ o + WordLen <= GlobalSize
    BY <1>2 DEF o
  <1>4. /\ o + i - 1 \in 0 .. GlobalSize - 1 /\ Base + o + i - 1 \in Cells
        /\ Base + o + i - 1 < Target /\ TempSpace + (o + i - 1) \in TempCells
    BY <1>3, Numbers DEF Cells, TempCells
  <1> QED BY <1>1, <1>2, <1>4 DEF o

\* The cells of two globals are apart.
LEMMA GlobalsApart ==
  ASSUME NEW g \in 1 .. Len(GlobalInit), NEW h \in 1 .. Len(GlobalInit), g # h,
         NEW i \in 1 .. WordLen
  PROVE  Base + WordLen * (h - 1) + i - 1 \notin
             Base + WordLen * (g - 1) .. Base + WordLen * (g - 1) + WordLen - 1
  <1> DEFINE p == WordLen * (g - 1)
             q == WordLen * (h - 1)
  <1>1. p \in Nat /\ q \in Nat /\ p + WordLen = WordLen * g /\ q + WordLen = WordLen * h
    BY GlobalCells, GlobalOffset
  <1>2. \A a, b, w \in Nat : a <= b => w * a <= w * b
    <2>1. \A b, w, k \in Nat : w * b + w * k = w * (b + k) /\ w * k \in Nat
      OBVIOUS
    <2> SUFFICES ASSUME NEW a \in Nat, NEW b \in Nat, NEW w \in Nat, a <= b PROVE w * a <= w * b
      OBVIOUS
    <2>2. b - a \in Nat /\ a + (b - a) = b
      OBVIOUS
    <2>3. w * a + w * (b - a) = w * b /\ w * (b - a) \in Nat /\ w * a \in Nat /\ w * b \in Nat
      BY <2>1, <2>2
    <2> QED BY <2>3
  <1>3. p + WordLen <= q \/ q + WordLen <= p
    <2>1. CASE g < h
      <3>1. g \in Nat /\ h - 1 \in Nat /\ g <= h - 1
        BY <2>1, Numbers
      <3>2. WordLen * g <= WordLen * (h - 1)
        BY <3>1, <1>2, Numbers
      <3> QED BY <3>2, <1>1
    <2>2. CASE h < g
      <3>1. h \in Nat /\ g - 1 \in Nat /\ h <= g - 1
        BY <2>2, Numbers
      <3>2. WordLen * h <= WordLen * (g - 1)
        BY <3>1, <1>2, Numbers
      <3> QED BY <3>2, <1>1
    <2> QED BY <2>1, <2>2, Numbers
  <1> HIDE DEF p, q
  <1>4. Base + q + i - 1 \notin Base + p .. Base + p + WordLen - 1
    BY <1>1, <1>3, Numbers
  <1> QED BY <1>4 DEF p, q

\* The cell of a word of the initial values.
LEMMA InitCellIs ==
  ASSUME NEW g \in 1 .. Len(GlobalInit), NEW i \in 1 .. WordLen
  PROVE  InitCell(WordLen * (g - 1) + i - 1) = GlobalInit[g][i]
  <1>1. \A w \in Nat \ {0}, q \in Nat : \A r \in 0 .. w - 1 :
          (w * q + r) \div w = q /\ (w * q + r) % w = r
    OBVIOUS
  <1>2. WordLen \in Nat \ {0} /\ g - 1 \in Nat /\ i - 1 \in 0 .. WordLen - 1
    BY Numbers
  <1>3. (WordLen * (g - 1) + (i - 1)) \div WordLen = g - 1
        /\ (WordLen * (g - 1) + (i - 1)) % WordLen = i - 1
    BY <1>1, <1>2
  <1>4. WordLen * (g - 1) + i - 1 = WordLen * (g - 1) + (i - 1)
    BY <1>2
  <1>5. (g - 1) + 1 = g /\ (i - 1) + 1 = i
    BY <1>2
  <1> QED BY <1>3, <1>4, <1>5 DEF InitCell

\* The initial values are still in their temporary place when they are copied.
LEMMA StartGlobals ==
  ASSUME SafeGlobals, LoadInv, Start, NEW g \in 1 .. Len(GlobalInit), NEW i \in 1 .. WordLen
  PROVE  sram'[Base + WordLen * (g - 1) + i - 1] = GlobalInit[g][i]
  <1> DEFINE o == WordLen * (g - 1) + i - 1
             data == WithData
             b == Bytes(data, TempSpace, GlobalSize)
  <1>1. TypeInv /\ DOMAIN sram = Cells
    BY DEF LoadInv, TypeInv
  <1>2. /\ o \in 0 .. GlobalSize - 1 /\ Base + o \in Cells /\ TempSpace + o \in TempCells
        /\ Base + WordLen * (g - 1) + i - 1 = Base + o
    <2> DEFINE q == WordLen * (g - 1)
    <2>1. /\ q \in Nat /\ q + i - 1 \in 0 .. GlobalSize - 1 /\ Base + q + i - 1 \in Cells
          /\ TempSpace + (q + i - 1) \in TempCells
      BY GlobalCells
    <2> HIDE DEF q
    <2>2. Base + q + i - 1 = Base + (q + i - 1)
      BY <2>1, Numbers
    <2> QED BY <2>1, <2>2 DEF q
  <1>3. data \in [Cells -> Byte] /\ sram' = Put(data, Base, b)
    BY <1>1, StartMemory
  <1>4. /\ b \in Seq(Byte) /\ Len(b) = GlobalSize
        /\ \A k \in 1 .. GlobalSize : b[k] = data[TempSpace + k - 1]
    <2>1. \A k \in 1 .. GlobalSize : b[k] = data[TempSpace + k - 1]
      BY DEF Bytes
    <2> QED BY <2>1, <1>3, GlobalBytes
  <1>5. data[TempSpace + o] = sram[TempSpace + o]
    <2>1. CASE Len(segments) = 2
      <3> DEFINE d == segments[2].data
      <3>1. /\ d \in Seq(Byte) /\ TempCells \cap (Target .. Target + Len(d) - 1) = {}
        BY <2>1, <1>1, SecondSegment DEF TypeInv, Areas, SafeGlobals
      <3>2. data = Put(sram, Target, d)
        BY <2>1 DEF WithData
      <3>3. TempSpace + o \in Cells
        BY <1>2, MemoryAssumption
      <3> HIDE DEF d, data, o
      <3>4. Target \in Int /\ TempSpace + o \notin Target .. Target + Len(d) - 1
        BY <3>1, <1>2, Numbers
      <3>5. Put(sram, Target, d)[TempSpace + o] = sram[TempSpace + o]
        BY <3>1, <3>3, <3>4, <1>1, PutAt
      <3> QED BY <3>2, <3>5
    <2>2. CASE Len(segments) # 2
      BY <2>2 DEF WithData
    <2> QED BY <2>1, <2>2
  <1>6. sram[TempSpace + o] = InitCell(o)
    <2>1. sram[TempSpace + o] = InitCell((TempSpace + o) - TempSpace)
      BY <1>2 DEF LoadInv, BeforeStart, Start
    <2>2. (TempSpace + o) - TempSpace = o
      BY <1>2, Numbers
    <2> QED BY <2>1, <2>2
  <1>7. InitCell(o) = GlobalInit[g][i]
    BY InitCellIs
  <1> HIDE DEF o, b, data
  <1>8. Put(data, Base, b)[Base + o] = b[o + 1]
    <2>1. /\ Base \in Int /\ Base + o \in Base .. Base + Len(b) - 1 /\ DOMAIN data = Cells
          /\ (Base + o) - Base + 1 = o + 1
      BY <1>2, <1>3, <1>4, Numbers
    <2>2. Put(data, Base, b)[Base + o] = b[(Base + o) - Base + 1]
      BY <2>1, <1>2, <1>4, PutAt
    <2> QED BY <2>1, <2>2
  <1>9. b[o + 1] = data[TempSpace + o]
    BY <1>2, <1>4, Numbers
  <1> QED BY <1>2, <1>3, <1>5, <1>6, <1>7, <1>8, <1>9

\* Within the reach of STD a global.set leaves the value in the cells of that
\* global, and the others alone.
LEMMA SetSets ==
  ASSUME NearGlobals, TypeInv, NEW g \in 1 .. Len(GlobalInit), NEW v \in Word, GlobalSet(g, v)
  PROVE  /\ \A i \in 1 .. WordLen : sram'[Base + WordLen * (g - 1) + i - 1] = v[i]
         /\ \A x \in Cells :
              x \notin Base + WordLen * (g - 1) .. Base + WordLen * (g - 1) + WordLen - 1 => sram'[x] = sram[x]
  <1> DEFINE o == WordLen * (g - 1)
  <1>1. g \in DOMAIN GlobalInit
    BY MemoryAssumption, LenProperties
  <1>2. o \in Nat /\ o + WordLen <= GlobalSize
    BY <1>1, GlobalOffset
  <1>3. DirectRange \in Nat
    BY MemoryAssumption
  <1>4. o < DirectRange
    BY <1>2, <1>3, Numbers DEF NearGlobals
  <1>5. GlobalCell(o) = Base + o /\ Kept(o, v) = v
    BY <1>4 DEF GlobalCell, Kept
  <1>6. sram' = Put(sram, Base + o, v) /\ DOMAIN sram = Cells
    BY <1>5 DEF GlobalSet, TypeInv
  <1>7. v \in Seq(Byte) /\ Len(v) = WordLen
    BY FunctionIsSeq, Numbers DEF Word
  <1>8. \A i \in 1 .. WordLen : Base + o + i - 1 \in Cells
    BY GlobalCells
  <1> HIDE DEF o
  <1>9. Base + o \in Int
    BY <1>2, Numbers
  <1>10. /\ \A x \in Cells : x \in Base + o .. Base + o + WordLen - 1 => sram'[x] = v[x - (Base + o) + 1]
         /\ \A x \in Cells : x \notin Base + o .. Base + o + WordLen - 1 => sram'[x] = sram[x]
    BY <1>6, <1>7, <1>9, PutAt, SMTT(30)
  <1>11. \A i \in 1 .. WordLen : sram'[Base + o + i - 1] = v[i]
    <2> SUFFICES ASSUME NEW i \in 1 .. WordLen PROVE sram'[Base + o + i - 1] = v[i]
      OBVIOUS
    <2>1. /\ Base + o + i - 1 \in Base + o .. Base + o + WordLen - 1
          /\ (Base + o + i - 1) - (Base + o) + 1 = i
      BY <1>9, Numbers
    <2> QED BY <2>1, <1>8, <1>10
  <1> QED BY <1>10, <1>11 DEF o

\* The invariant of the globals, at the start.
LEMMA GlobalsInit == Init => GlobalInv
  <1> SUFFICES ASSUME Init PROVE GlobalInv
    OBVIOUS
  <1>1. globals = GlobalInit /\ status = "compiled"
    BY DEF Init
  <1>2. GlobalInit \in [1 .. Len(GlobalInit) -> Word]
    BY MemoryAssumption, LenProperties
  <1> QED BY <1>1, <1>2, LoadInit DEF GlobalInv

\* And in every step.
LEMMA GlobalsNext ==
  ASSUME Orderly, NearGlobals, SafeGlobals PROVE GlobalInv /\ [Next]_vars => GlobalInv'
  <1> SUFFICES ASSUME GlobalInv, [Next]_vars PROVE GlobalInv'
    OBVIOUS
  <1>1. LoadInv /\ TypeInv /\ Agree /\ globals \in [1 .. Len(GlobalInit) -> Word]
    BY DEF GlobalInv, LoadInv
  <1>2. LoadInv'
    BY <1>1, LoadNext
  <1> DEFINE Cell(g, i) == Base + WordLen * (g - 1) + i - 1
             Held == \A g \in 1 .. Len(GlobalInit), i \in 1 .. WordLen : sram[Cell(g, i)] = globals[g][i]
  <1>3. \A g \in 1 .. Len(GlobalInit), i \in 1 .. WordLen : Cell(g, i) \in Cells /\ Cell(g, i) < Target
    BY GlobalCells
  <1>4. ASSUME globals' = globals, status # "compiled" \/ status' = "compiled",
               \A x \in Cells : x < Target => sram'[x] = sram[x]
        PROVE  GlobalInv'
    <2>1. status' # "compiled" => Held'
      BY <1>3, <1>4 DEF GlobalInv
    <2> QED BY <1>1, <1>2, <1>4, <2>1 DEF GlobalInv
  <1>5. CASE Start
    <2>1. globals' = GlobalInit
      BY <1>5 DEF GlobalInv, LoadInv, BeforeStart, Start
    <2>2. Held'
      BY <1>1, <1>5, <2>1, StartGlobals
    <2>3. globals' \in [1 .. Len(GlobalInit) -> Word]
      BY <2>1, MemoryAssumption, LenProperties
    <2> QED BY <1>2, <2>2, <2>3 DEF GlobalInv
  <1>6. CASE Wrote
    <2>1. globals' = globals /\ status # "compiled"
      BY <1>6 DEF Wrote, Running
    <2> QED BY <1>1, <1>4, <1>6, <2>1, WroteAgrees
  <1>7. CASE Quiet
    <2>1. globals' = globals /\ sram' = sram /\ (status # "compiled" \/ status' = "compiled")
      BY <1>7 DEF Quiet
    <2> QED BY <1>4, <2>1
  <1>8. ASSUME NEW g \in DOMAIN GlobalInit, NEW v \in Word, GlobalSet(g, v)
        PROVE  GlobalInv'
    <2>1. g \in 1 .. Len(GlobalInit)
      BY GlobalOffset
    <2>2. globals' = [globals EXCEPT ![g] = v] /\ status = "run"
      BY <1>8 DEF GlobalSet, Running
    <2>3. ASSUME NEW h \in 1 .. Len(GlobalInit), NEW i \in 1 .. WordLen
          PROVE  sram'[Cell(h, i)] = globals'[h][i]
      <3>1. CASE h = g
        <4>1. sram'[Cell(g, i)] = v[i]
          BY <1>1, <1>8, <2>1, SetSets
        <4> QED BY <4>1, <3>1, <2>1, <2>2, <1>1
      <3>2. CASE h # g
        <4>1. Cell(h, i) \notin Base + WordLen * (g - 1) .. Base + WordLen * (g - 1) + WordLen - 1
          BY <3>2, <2>1, GlobalsApart
        <4>2. sram'[Cell(h, i)] = sram[Cell(h, i)]
          BY <4>1, <1>1, <1>3, <1>8, <2>1, SetSets
        <4>3. sram[Cell(h, i)] = globals[h][i]
          BY <2>2 DEF GlobalInv
        <4> QED BY <4>2, <4>3, <3>2, <2>2, <1>1
      <3> QED BY <3>1, <3>2
    <2>4. globals' \in [1 .. Len(GlobalInit) -> Word]
      BY <1>1, <2>2
    <2> QED BY <1>2, <2>3, <2>4 DEF GlobalInv
  <1>9. ASSUME NEW b \in Byte, StackPush(b)
        PROVE  GlobalInv'
    <2>1. sram' = [sram EXCEPT ![StackPointer - Len(stack)] = b] /\ Len(stack) < StackRoom /\ Len(stack) \in Nat
      BY <1>1, <1>9, LenProperties DEF StackPush, TypeInv
    <2>2. \A x \in Cells : x < Target => StackPointer - Len(stack) # x
      BY <2>1, Numbers DEF Cells
    <2>3. globals' = globals /\ status # "compiled" /\ DOMAIN sram = Cells
      BY <1>1, <1>9 DEF StackPush, Running, TypeInv
    <2> QED BY <1>4, <2>1, <2>2, <2>3
  <1> QED BY <1>1, <1>5, <1>6, <1>7, <1>8, <1>9, StepKinds

\* A global.get finds the cells of the global.
LEMMA GlobalsFollow == ASSUME NearGlobals PROVE GlobalInv => GlobalsAgree
  <1> SUFFICES ASSUME GlobalInv, status # "compiled", NEW g \in DOMAIN globals
               PROVE  Bytes(sram, GlobalCell(WordLen * (g - 1)), WordLen) = globals[g]
    BY DEF GlobalsAgree
  <1>1. g \in 1 .. Len(GlobalInit) /\ globals[g] \in [1 .. WordLen -> Byte]
    BY DEF GlobalInv, Word
  <1> DEFINE o == WordLen * (g - 1)
  <1>2. o \in Nat /\ o + WordLen <= GlobalSize
    <2>1. g \in DOMAIN GlobalInit
      BY <1>1, GlobalCells, MemoryAssumption, LenProperties
    <2> QED BY <2>1, GlobalOffset
  <1>3. DirectRange \in Nat
    BY MemoryAssumption
  <1>4. GlobalCell(o) = Base + o
    BY <1>2, <1>3, Numbers DEF GlobalCell, NearGlobals
  <1>5. \A i \in 1 .. WordLen : sram[Base + o + i - 1] = globals[g][i]
    BY <1>1 DEF GlobalInv
  <1> HIDE DEF o
  <1>6. Bytes(sram, GlobalCell(o), WordLen) = globals[g]
    BY <1>1, <1>4, <1>5 DEF Bytes
  <1> QED BY <1>6 DEF o

\* GlobalsAgree: a global.get finds what was last set, and before that the value
\* the module gives, where no global is beyond the reach of STD and no data is
\* copied over the initial values.
THEOREM GlobalsFindWhatWasSet ==
  ASSUME Orderly, NearGlobals, SafeGlobals PROVE Spec => []GlobalsAgree
  <1>1. Init => GlobalInv
    BY GlobalsInit
  <1>2. GlobalInv /\ [Next]_vars => GlobalInv'
    BY GlobalsNext
  <1>3. GlobalInv => GlobalsAgree
    BY GlobalsFollow
  <1> QED BY <1>1, <1>2, <1>3, PTL DEF Spec

\* A step that sets no global to another value and pushes nothing changes no cell
\* that is not the program's.
LEMMA BoundsStep ==
  ASSUME Orderly, NearGlobals, GlobalInv, [Next]_vars,
         status = "run", stack' = stack, globals' = globals
  PROVE  \A x \in Cells : sram'[x] # sram[x] => \E a \in Owned : W2N(a) = x
  <1>1. TypeInv /\ Agree /\ globals \in [1 .. Len(GlobalInit) -> Word]
    BY DEF GlobalInv, LoadInv
  <1>2. CASE Wrote
    BY <1>1, <1>2, WroteAgrees
  <1>3. CASE Quiet
    BY <1>3 DEF Quiet
  <1>4. ASSUME NEW g \in DOMAIN GlobalInit, NEW v \in Word, GlobalSet(g, v)
        PROVE  \A x \in Cells : sram'[x] = sram[x]
    <2> SUFFICES ASSUME NEW x \in Cells PROVE sram'[x] = sram[x]
      OBVIOUS
    <2>1. g \in 1 .. Len(GlobalInit)
      BY GlobalOffset
    <2>2. v = globals[g]
      BY <1>1, <1>4, <2>1 DEF GlobalSet
    <2> DEFINE p == Base + WordLen * (g - 1)
    <2>3. CASE x \in p .. p + WordLen - 1
      <3>0. p \in Int /\ x \in Int
        <4>1. WordLen * (g - 1) \in Nat
          BY GlobalOffset
        <4> QED BY <4>1, Numbers DEF Cells
      <3> DEFINE i == x - p + 1
      <3>1. i \in 1 .. WordLen /\ p + i - 1 = x
        <4> HIDE DEF p
        <4> QED BY <2>3, <3>0, Numbers
      <3>2. sram'[p + i - 1] = v[i]
        BY <3>1, <1>1, <1>4, <2>1, SetSets
      <3>3. sram[p + i - 1] = globals[g][i]
        BY <3>1, <2>1 DEF GlobalInv
      <3> HIDE DEF i, p
      <3> QED BY <3>1, <3>2, <3>3, <2>2
    <2>4. CASE x \notin p .. p + WordLen - 1
      BY <2>4, <1>1, <1>4, <2>1, SetSets
    <2> QED BY <2>3, <2>4
  <1>5. CASE Start
    BY <1>5 DEF Start
  <1>6. ASSUME NEW b \in Byte, StackPush(b)
        PROVE  FALSE
    <2>1. Append(stack, b) = stack /\ stack \in Seq(Byte)
      BY <1>1, <1>6 DEF StackPush, TypeInv
    <2>2. Len(stack) \in Nat /\ Len(Append(stack, b)) = Len(stack) + 1
      BY <2>1, AppendProperties, LenProperties
    <2> QED BY <2>1, <2>2
  <1> QED BY <1>1, <1>2, <1>3, <1>4, <1>5, <1>6, StepKinds

\* BoundsHold: a step that is neither a push nor a global.set changes no cell but
\* those that are the program's linear memory.
THEOREM BoundsAreKept ==
  ASSUME Orderly, NearGlobals, SafeGlobals PROVE Spec => BoundsHold
  <1>1. Init => GlobalInv
    BY GlobalsInit
  <1>2. GlobalInv /\ [Next]_vars => GlobalInv'
    BY GlobalsNext
  <1>3. GlobalInv /\ [Next]_vars =>
          [status = "run" /\ stack' = stack /\ globals' = globals =>
             \A x \in Cells : sram'[x] # sram[x] => \E a \in Owned : W2N(a) = x]_vars
    BY BoundsStep
  <1> QED BY <1>1, <1>2, <1>3, PTL DEF Spec, BoundsHold
=============================================================================
