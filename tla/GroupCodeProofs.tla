-------------------------- MODULE GroupCodeProofs --------------------------
(***************************************************************************)
(* What the walk of branch_pc_refill (lines 34-140 of src/src/compile.c)    *)
(* needs of the code: it tells JMP and CALL from the rest by the word       *)
(* alone, so no other encoder may make one of these two words, whatever its *)
(* registers, constant, port or distance.  Here every argument is covered,   *)
(* then every group of words of Groups, and so CallsFound for all programs.  *)
(*                                                                         *)
(* The constants of a program come from its bytes: that the reader gives    *)
(* back the number that was encoded is proved on the way, for every number   *)
(* and for the shortest and the longest of its encodings.                   *)
(***************************************************************************)
EXTENDS Groups, SequenceTheorems, WellFoundedInduction, TLAPS

\* The operands of the AVR: registers, those LDI and SUBI and those ADIW and
\* SBIW can take, and the ports of IN and OUT.
Registers == 0 .. 31
Immediate == 16 .. 31
Adiw      == {24, 26, 28, 30}
Ports     == 0 .. 63

\* A word of the code that the walk passes over.
PassedOver(word) == word \in Nat /\ word < 65536 /\ word # OPCODE_JMP /\ word # OPCODE_CALL

\* makeSourceRegister leaves the bits of the opcode alone.
LEMMA SourceBits ==
    ASSUME NEW r \in Registers
    PROVE  makeSourceRegister(r) \in Nat /\ makeSourceRegister(r) <= 527
  <1>1. r % 16 \in Nat /\ r % 16 <= 15 /\ (r \div 16) % 2 \in Nat /\ (r \div 16) % 2 <= 1
    BY SMT DEF Registers
  <1>2. (r \div 1) % 16 = r % 16
    BY SMT DEF Registers
  <1>3. \A a, b \in Nat : a <= 15 /\ b <= 1 => a * 1 + b * 512 \in Nat /\ a * 1 + b * 512 <= 527
    BY SMT
  <1> QED BY <1>1, <1>2, <1>3 DEF makeSourceRegister, Field

\* Some bits of n, moved: one of range values.  The fields that occur.
LEMMA Bits ==
    ASSUME NEW n \in Int
    PROVE  /\ Field(n, 1, 16, 1) \in Nat /\ Field(n, 1, 16, 1) <= 15
           /\ Field(n, 16, 16, 256) \in Nat /\ Field(n, 16, 16, 256) <= 3840
           /\ Field(n, 16, 4, 64) \in Nat /\ Field(n, 16, 4, 64) <= 192
           /\ Field(n, 16, 4, 512) \in Nat /\ Field(n, 16, 4, 512) <= 1536
           /\ Field(n, 1, 128, 8) \in Nat /\ Field(n, 1, 128, 8) <= 1016
           /\ Field(n, 2, 4096, 1) \in Nat /\ Field(n, 2, 4096, 1) <= 4095
  <1>1. Field(n, 1, 16, 1) \in Nat /\ Field(n, 1, 16, 1) <= 15
    BY SMT DEF Field
  <1>2. Field(n, 16, 16, 256) \in Nat /\ Field(n, 16, 16, 256) <= 3840
    BY SMT DEF Field
  <1>3. Field(n, 16, 4, 64) \in Nat /\ Field(n, 16, 4, 64) <= 192
    BY SMT DEF Field
  <1>4. Field(n, 16, 4, 512) \in Nat /\ Field(n, 16, 4, 512) <= 1536
    BY SMT DEF Field
  <1>5. Field(n, 1, 128, 8) \in Nat /\ Field(n, 1, 128, 8) <= 1016
    BY SMT DEF Field
  <1>6. Field(n, 2, 4096, 1) \in Nat /\ Field(n, 2, 4096, 1) <= 4095
    BY SMT DEF Field
  <1> QED BY <1>1, <1>2, <1>3, <1>4, <1>5, <1>6

\* The parts of the offset of LDD and STD: five bits below 4096, and one worth
\* 8192, so that neither opcode lies between.
FiveBits(offset) == Field(offset, 1, 8, 1) + Field(offset, 8, 4, 1024)
SixthBit(offset) == (offset \div 32) % 2

\* makeLDDSTDoffset puts them together.
LEMMA OffsetBits ==
    ASSUME NEW offset \in Int
    PROVE  /\ FiveBits(offset) \in Nat /\ FiveBits(offset) <= 3079
           /\ SixthBit(offset) \in Nat /\ SixthBit(offset) <= 1
           /\ makeLDDSTDoffset(offset) = FiveBits(offset) + 8192 * SixthBit(offset)
  <1>1. Field(offset, 1, 8, 1) \in Nat /\ Field(offset, 1, 8, 1) <= 7
    BY SMT DEF Field
  <1>2. Field(offset, 8, 4, 1024) \in Nat /\ Field(offset, 8, 4, 1024) <= 3072
    BY SMT DEF Field
  <1>3. SixthBit(offset) \in Nat /\ SixthBit(offset) <= 1
    BY SMT DEF SixthBit
  <1>4. Field(offset, 32, 2, 8192) = 8192 * SixthBit(offset)
    BY SMT DEF Field, SixthBit
  <1>5. FiveBits(offset) \in Nat /\ FiveBits(offset) <= 3079
    BY <1>1, <1>2, SMT DEF FiveBits
  <1>6. makeLDDSTDoffset(offset) = FiveBits(offset) + 8192 * SixthBit(offset)
    BY <1>4 DEF makeLDDSTDoffset, FiveBits
  <1> QED BY <1>3, <1>5, <1>6

\* Arithmetic and moves with two registers.
LEMMA TwoRegisters ==
    ASSUME NEW opcode \in Nat, opcode <= 10240, NEW d \in Registers, NEW r \in Registers
    PROVE  PassedOver(asm_opcodeWithSrcAndDestRegOperand(opcode, d, r))
  BY SourceBits, SMT
     DEF Registers, asm_opcodeWithSrcAndDestRegOperand, PassedOver, OPCODE_JMP, OPCODE_CALL

\* PUSH, POP, shifts and DEC, whose opcodes differ from JMP and CALL in the
\* four bits that the register leaves free, or lie too far below.
LEMMA OneRegister ==
    ASSUME NEW d \in Registers
    PROVE  /\ PassedOver(emit_PUSH(d)) /\ PassedOver(emit_POP(d))
           /\ PassedOver(emit_ASR(d)) /\ PassedOver(emit_LSR(d))
           /\ PassedOver(emit_ROR(d)) /\ PassedOver(emit_DEC(d))
  BY SMT DEF Registers, PassedOver, OPCODE_JMP, OPCODE_CALL, emit_PUSH, emit_POP, emit_ASR,
             emit_LSR, emit_ROR, emit_DEC, asm_opcodeWithSingleRegOperand

\* LDI and SUBI.
LEMMA WithConstant ==
    ASSUME NEW h \in Immediate, NEW k \in Int
    PROVE  PassedOver(emit_LDI(h, k)) /\ PassedOver(emit_SUBI(h, k))
  <1>1. LowByte(k) \in Int
    BY SMT DEF LowByte
  <1> DEFINE low == Field(LowByte(k), 1, 16, 1)
             high == Field(LowByte(k), 16, 16, 256)
  <1>2. low \in Nat /\ low <= 15 /\ high \in Nat /\ high <= 3840
    BY <1>1, Bits, SMT
  <1>3. /\ emit_LDI(h, k) = 57344 + 16 * (h - 16) + low + high
        /\ emit_SUBI(h, k) = 20480 + 16 * (h - 16) + low + high
    BY SMT DEF emit_LDI, emit_SUBI, emit_LDI_SBCI_SUBI_CPI
  <1> HIDE DEF low, high
  <1> QED BY <1>2, <1>3, SMT DEF Immediate, PassedOver, OPCODE_JMP, OPCODE_CALL

\* ADIW and SBIW, which move the frame.
LEMMA FrameWords ==
    ASSUME NEW w \in Adiw, NEW k \in Int
    PROVE  PassedOver(emit_ADIW(w, k)) /\ PassedOver(emit_SBIW(w, k))
  <1>1. (w - 24) \div 2 \in 0 .. 3
    BY SMT DEF Adiw
  <1> DEFINE low == Field(k, 1, 16, 1)
             high == Field(k, 16, 4, 64)
             pair == (w - 24) \div 2
  <1>2. low \in Nat /\ low <= 15 /\ high \in Nat /\ high <= 192
    BY Bits, SMT
  <1>3. /\ emit_ADIW(w, k) = 38400 + 16 * pair + low + high
        /\ emit_SBIW(w, k) = 38656 + 16 * pair + low + high
    BY SMT DEF emit_ADIW, emit_SBIW
  <1> HIDE DEF low, high, pair
  <1> QED BY <1>1, <1>2, <1>3, SMT DEF pair, PassedOver, OPCODE_JMP, OPCODE_CALL

\* The relative branches, over any distance.
LEMMA BranchWords ==
    ASSUME NEW opcode \in Nat, 61440 <= opcode, opcode <= 62468, NEW k \in Int
    PROVE  PassedOver(emit_BRANCH(opcode, k))
  <1>1. LowByte(k) \div 2 \in Int
    BY SMT DEF LowByte
  <1>2. Field(LowByte(k) \div 2, 1, 128, 8) \in Nat /\ Field(LowByte(k) \div 2, 1, 128, 8) <= 1016
    BY <1>1, Bits, SMT
  <1> QED BY <1>2, SMT DEF emit_BRANCH, makeBranchOffset, PassedOver, OPCODE_JMP, OPCODE_CALL

\* The stack pointer is read and written by IN and OUT.
LEMMA PortWords ==
    ASSUME NEW d \in Registers, NEW port \in Ports
    PROVE  PassedOver(emit_IN(d, port)) /\ PassedOver(emit_OUT(port, d))
  <1> DEFINE low == Field(port, 1, 16, 1)
             high == Field(port, 16, 4, 512)
  <1>1. port \in Int
    BY SMT DEF Ports
  <1>2. low \in Nat /\ low <= 15 /\ high \in Nat /\ high <= 1536
    BY <1>1, Bits, SMT
  <1>3. /\ emit_IN(d, port) = 45056 + 16 * d + (low + high)
        /\ emit_OUT(port, d) = 47104 + 16 * d + (low + high)
    BY SMT DEF emit_IN, emit_OUT, makeIN_OUTport
  <1> HIDE DEF low, high
  <1> QED BY <1>2, <1>3, SMT DEF Registers, PassedOver, OPCODE_JMP, OPCODE_CALL

\* Locals and globals are read by LDD and written by STD.
LEMMA AccessWords ==
    ASSUME NEW d \in Registers, NEW yz \in {Y, Z}, NEW offset \in Int
    PROVE  PassedOver(emit_LDD(d, yz, offset)) /\ PassedOver(emit_STD(d, yz, offset))
  <1>1. \A low, high, side \in Nat : low <= 3079 /\ high <= 1 /\ side <= 1 =>
          /\ PassedOver(32768 + 16 * d + 8 * side + (low + 8192 * high))
          /\ PassedOver(33280 + 16 * d + 8 * side + (low + 8192 * high))
    BY SMT DEF Registers, PassedOver, OPCODE_JMP, OPCODE_CALL
  <1>2. yz \in Nat /\ yz <= 1
    BY SMT DEF Y, Z
  <1>3. /\ PassedOver(32768 + 16 * d + 8 * yz + (FiveBits(offset) + 8192 * SixthBit(offset)))
        /\ PassedOver(33280 + 16 * d + 8 * yz + (FiveBits(offset) + 8192 * SixthBit(offset)))
    BY <1>1, <1>2, OffsetBits, SMT
  <1> QED BY <1>3, OffsetBits, SMT DEF emit_LDD, emit_STD

\* RJMP and RET.
LEMMA OtherWords ==
    ASSUME NEW k \in Int
    PROVE  PassedOver(emit_RJMP(k)) /\ PassedOver(emit_RET)
  <1>1. \A a \in Nat : a <= 4095 => PassedOver(49152 + a)
    BY SMT DEF PassedOver, OPCODE_JMP, OPCODE_CALL
  <1>2. PassedOver(emit_RET)
    BY SMT DEF PassedOver, OPCODE_JMP, OPCODE_CALL, emit_RET
  <1> QED BY <1>1, <1>2, Bits DEF emit_RJMP

\* Every word the encoders make for these operands but those of emit_2_CALL
\* and of a JMP.
EncodedWords(d, r, h, w, port, yz, k) ==
    {emit_ADC(d, r), emit_ADD(d, r), emit_AND(d, r), emit_CP(d, r), emit_CPC(d, r),
     emit_EOR(d, r), emit_LSL(d), emit_MOVW(d, r), emit_OR(d, r), emit_ROL(d),
     emit_SBC(d, r), emit_SUB(d, r)}
    \cup {emit_ASR(d), emit_DEC(d), emit_LSR(d), emit_ROR(d), emit_PUSH(d), emit_POP(d)}
    \cup {emit_LDI(h, k), emit_SUBI(h, k), emit_ADIW(w, k), emit_SBIW(w, k)}
    \cup {emit_BREQ(k), emit_BRGE(k), emit_BRLT(k), emit_BRNE(k), emit_BRPL(k),
          emit_BRCS(k), emit_BRCC(k), emit_BRMI(k)}
    \cup {emit_IN(d, port), emit_OUT(port, d), emit_LDD(d, yz, k), emit_STD(d, yz, k),
          emit_RJMP(k), emit_RET}

\* No word but that of emit_2_CALL and of a JMP is taken for one by the walk of
\* branch_pc_refill (lines 38-51 of compile.c), for all registers, constants,
\* ports and distances; and each fits the u16 that emit takes.
THEOREM WalkTellsInstructionsApart ==
    ASSUME NEW d \in Registers, NEW r \in Registers, NEW h \in Immediate, NEW w \in Adiw,
           NEW port \in Ports, NEW yz \in {Y, Z}, NEW k \in Int
    PROVE  \A word \in EncodedWords(d, r, h, w, port, yz, k) : PassedOver(word)
  <1>1. /\ PassedOver(emit_ADC(d, r)) /\ PassedOver(emit_ADD(d, r)) /\ PassedOver(emit_AND(d, r))
        /\ PassedOver(emit_CP(d, r)) /\ PassedOver(emit_CPC(d, r)) /\ PassedOver(emit_EOR(d, r))
        /\ PassedOver(emit_OR(d, r)) /\ PassedOver(emit_SBC(d, r)) /\ PassedOver(emit_SUB(d, r))
        /\ PassedOver(emit_LSL(d)) /\ PassedOver(emit_ROL(d))
    BY TwoRegisters DEF emit_ADC, emit_ADD, emit_AND, emit_CP, emit_CPC, emit_EOR, emit_OR,
                        emit_SBC, emit_SUB, emit_LSL, emit_ROL
  <1>2. PassedOver(emit_MOVW(d, r))
    <2>1. d \div 2 \in Registers /\ r \div 2 \in Registers
      BY SMT DEF Registers
    <2> QED BY <2>1, TwoRegisters, SMT DEF emit_MOVW
  <1>3. /\ PassedOver(emit_BREQ(k)) /\ PassedOver(emit_BRGE(k)) /\ PassedOver(emit_BRLT(k))
        /\ PassedOver(emit_BRNE(k)) /\ PassedOver(emit_BRPL(k)) /\ PassedOver(emit_BRCS(k))
        /\ PassedOver(emit_BRCC(k)) /\ PassedOver(emit_BRMI(k))
    BY BranchWords DEF emit_BREQ, emit_BRGE, emit_BRLT, emit_BRNE, emit_BRPL, emit_BRCS,
                       emit_BRCC, emit_BRMI
  <1> QED
    BY <1>1, <1>2, <1>3, OneRegister, WithConstant, FrameWords, PortWords, AccessWords, OtherWords
       DEF EncodedWords

-----------------------------------------------------------------------------
(* Induction, and the walk as a function of how far it has come.            *)
\* Every set of numbers has a least one.
LEMMA LeastNumber ==
    ASSUME NEW T \in SUBSET Nat, T # {}
    PROVE  \E x \in T : \A y \in T : ~(y < x)
  <1>1. IsWellFoundedOn(OpToRel(<, Nat), Nat)
    BY NatLessThanWellFounded
  <1> DEFINE R == OpToRel(<, Nat)
  <1>2. PICK x \in T : \A y \in T : ~(<<y, x>> \in R)
    <2> HIDE DEF R
    <2>1. IsWellFoundedOn(R, Nat) /\ T \subseteq Nat
      BY <1>1 DEF R
    <2> QED BY <2>1, WFMin
  <1>3. \A y \in T : (<<y, x>> \in R) <=> (y < x)
    BY DEF OpToRel
  <1> QED BY <1>2, <1>3

\* A set of numbers with 0 and with every successor has all numbers.
LEMMA SetInduction ==
    ASSUME NEW P, 0 \in P, \A n \in Nat : n \in P => n + 1 \in P
    PROVE  \A n \in Nat : n \in P
  <1> SUFFICES ASSUME NEW k \in Nat, k \notin P PROVE FALSE
    OBVIOUS
  <1> DEFINE T == {n \in Nat : n \notin P}
  <1>1. PICK x \in T : \A y \in T : ~(y < x)
    BY LeastNumber
  <1>2. x # 0 /\ x - 1 \in Nat
    OBVIOUS
  <1>3. x - 1 \in P
    BY <1>1, <1>2
  <1> QED BY <1>2, <1>3

\* The walk of a longer code takes one turn more.
IsWalk(f, words, n) == f = [i \in 0 .. n |-> IF i = 0 THEN AtStart ELSE Turn(f[i - 1], words[i])]

\* The walk over any number of words.
LEMMA WalkExists ==
    ASSUME NEW words
    PROVE  \A n \in Nat : \E f : IsWalk(f, words, n)
  <1> DEFINE P == {n \in Nat : \E f : IsWalk(f, words, n)}
  <1>1. 0 \in P
    <2>1. IsWalk([i \in 0 .. 0 |-> AtStart], words, 0)
      BY DEF IsWalk
    <2> QED BY <2>1
  <1>2. \A n \in Nat : n \in P => n + 1 \in P
    <2> TAKE n \in Nat
    <2> HAVE n \in P
    <2>1. PICK f : IsWalk(f, words, n)
      OBVIOUS
    <2> DEFINE g == [i \in 0 .. n + 1 |-> IF i = n + 1 THEN Turn(f[n], words[n + 1]) ELSE f[i]]
    <2>2. \A i \in 0 .. n : f[i] = IF i = 0 THEN AtStart ELSE Turn(f[i - 1], words[i])
      BY <2>1 DEF IsWalk
    <2>3. \A i \in 0 .. n + 1 :
             g[i] = IF i = 0 THEN AtStart ELSE Turn(g[i - 1], words[i])
      BY <2>2
    <2>4. IsWalk(g, words, n + 1)
      <3> HIDE DEF g
      <3>1. g = [i \in 0 .. n + 1 |-> g[i]]
        BY DEF g
      <3> QED BY <3>1, <2>3 DEF IsWalk
    <2> HIDE DEF g
    <2> QED BY <2>4
  <1> HIDE DEF P
  <1>3. \A n \in Nat : n \in P
    BY <1>1, <1>2, SetInduction
  <1> QED BY <1>3 DEF P

\* Two walks over the same words agree as far as both go.
LEMMA WalkUnique ==
    ASSUME NEW words, NEW n \in Nat, NEW m \in Nat, n <= m,
           NEW f, IsWalk(f, words, n), NEW g, IsWalk(g, words, m)
    PROVE  \A i \in 0 .. n : f[i] = g[i]
  <1> DEFINE P == {i \in Nat : i <= n => f[i] = g[i]}
  <1>1. /\ \A i \in 0 .. n : f[i] = IF i = 0 THEN AtStart ELSE Turn(f[i - 1], words[i])
        /\ \A i \in 0 .. m : g[i] = IF i = 0 THEN AtStart ELSE Turn(g[i - 1], words[i])
    BY DEF IsWalk
  <1>2. 0 \in P
    BY <1>1
  <1>3. \A i \in Nat : i \in P => i + 1 \in P
    BY <1>1
  <1> HIDE DEF P
  <1>4. \A i \in Nat : i \in P
    BY <1>2, <1>3, SetInduction
  <1> QED BY <1>4 DEF P

\* Walk is where such a walk ends.
LEMMA WalkIs ==
    ASSUME NEW words, Len(words) \in Nat, NEW f, IsWalk(f, words, Len(words))
    PROVE  Walk(words) = f[Len(words)]
  <1> DEFINE g == CHOOSE g : IsWalk(g, words, Len(words))
  <1>1. IsWalk(g, words, Len(words))
    OBVIOUS
  <1>2. Walk(words) = g[Len(words)]
    BY DEF Walk, IsWalk
  <1> HIDE DEF g
  <1>3. \A i \in 0 .. Len(words) : f[i] = g[i]
    BY <1>1, WalkUnique
  <1> QED BY <1>2, <1>3

Found(found) == [operand |-> FALSE, found |-> found]

\* A word that is neither opcode leaves what was found.
LEMMA TurnPasses ==
    ASSUME NEW found, NEW w, PassedOver(w)
    PROVE  Turn(Found(found), w) = Found(found)
  <1>1. Found(found).operand = FALSE /\ Found(found).found = found
    BY DEF Found
  <1>2. (w \in {OPCODE_JMP, OPCODE_CALL}) = FALSE
    BY DEF PassedOver
  <1> QED BY <1>1, <1>2 DEF Turn, Found

\* The opcode of a call and the word behind it add that word.
LEMMA TurnCall ==
    ASSUME NEW found, NEW w
    PROVE  Turn(Turn(Found(found), OPCODE_CALL), w) = Found(Append(found, w))
  <1> DEFINE s == Turn(Found(found), OPCODE_CALL)
  <1>1. Found(found).operand = FALSE /\ Found(found).found = found
    BY DEF Found
  <1>2. s = [operand |-> TRUE, found |-> found]
    BY <1>1 DEF Turn
  <1>3. s.operand = TRUE /\ s.found = found
    BY <1>2
  <1> HIDE DEF s
  <1>4. Turn(s, w) = [operand |-> FALSE, found |-> Append(found, w)]
    BY <1>3 DEF Turn
  <1> QED BY <1>4 DEF s, Found

\* The walk over words and more begins as the walk over words.
LEMMA WalkSplit ==
    ASSUME NEW words \in Seq(Nat), NEW more \in Seq(Nat)
    PROVE  \E f : /\ IsWalk(f, words \o more, Len(words) + Len(more))
                  /\ f[Len(words)] = Walk(words)
                  /\ f[Len(words) + Len(more)] = Walk(words \o more)
                  /\ \A i \in 1 .. Len(more) :
                       f[Len(words) + i] = Turn(f[Len(words) + i - 1], more[i])
  <1> DEFINE n == Len(words)
             k == Len(more)
             both == words \o more
  <1>1. /\ n \in Nat /\ k \in Nat /\ n + k \in Nat /\ Len(both) = n + k
        /\ \A i \in 1 .. n : both[i] = words[i]
        /\ \A i \in 1 .. k : both[n + i] = more[i]
    OBVIOUS
  <1> HIDE DEF n, k, both
  <1>2. PICK f : IsWalk(f, both, n + k)
    BY <1>1, WalkExists
  <1>3. \A i \in 0 .. n + k : f[i] = IF i = 0 THEN AtStart ELSE Turn(f[i - 1], both[i])
    BY <1>2 DEF IsWalk
  <1> DEFINE g == [i \in 0 .. n |-> f[i]]
  <1>4. IsWalk(g, words, n)
    <2>1. \A i \in 0 .. n : g[i] = IF i = 0 THEN AtStart ELSE Turn(g[i - 1], words[i])
      BY <1>1, <1>3
    <2>2. g = [i \in 0 .. n |-> g[i]]
      OBVIOUS
    <2> HIDE DEF g
    <2> QED BY <2>1, <2>2 DEF IsWalk
  <1>5. Walk(words) = g[n]
    BY <1>1, <1>4, WalkIs DEF n
  <1>6. g[n] = f[n]
    BY <1>1
  <1>7. f[n + k] = Walk(both)
    BY <1>1, <1>2, WalkIs
  <1>8. \A i \in 1 .. k : f[n + i] = Turn(f[n + i - 1], more[i])
    BY <1>1, <1>3
  <1> HIDE DEF g
  <1> QED BY <1>2, <1>5, <1>6, <1>7, <1>8 DEF n, k, both

\* The walk passes over words that are neither opcode.
AllPassedOver(words) == words \in Seq(Nat) /\ \A i \in 1 .. Len(words) : PassedOver(words[i])

\* So words that are neither opcode leave what the walk found.
LEMMA WalkPasses ==
    ASSUME NEW words \in Seq(Nat), NEW more, AllPassedOver(more), NEW found,
           Walk(words) = Found(found)
    PROVE  Walk(words \o more) = Found(found)
  <1>1. more \in Seq(Nat) /\ \A i \in 1 .. Len(more) : PassedOver(more[i])
    BY DEF AllPassedOver
  <1>2. Len(words) \in Nat /\ Len(more) \in Nat
    BY <1>1
  <1>3. PICK f : /\ f[Len(words)] = Walk(words)
                 /\ f[Len(words) + Len(more)] = Walk(words \o more)
                 /\ \A i \in 1 .. Len(more) :
                      f[Len(words) + i] = Turn(f[Len(words) + i - 1], more[i])
    BY <1>1, WalkSplit, SMTT(30)
  <1> DEFINE P == {i \in Nat : i <= Len(more) => f[Len(words) + i] = Found(found)}
  <1>4. 0 \in P
    BY <1>2, <1>3
  <1>5. \A i \in Nat : i \in P => i + 1 \in P
    <2> TAKE i \in Nat
    <2> HAVE i \in P
    <2> SUFFICES ASSUME i + 1 <= Len(more) PROVE f[Len(words) + (i + 1)] = Found(found)
      OBVIOUS
    <2>1. i + 1 \in 1 .. Len(more) /\ i <= Len(more) /\ Len(words) + (i + 1) - 1 = Len(words) + i
      BY <1>2
    <2>2. f[Len(words) + i] = Found(found)
      BY <2>1
    <2>3. PassedOver(more[i + 1])
      BY <1>1, <2>1
    <2>4. f[Len(words) + (i + 1)] = Turn(f[Len(words) + (i + 1) - 1], more[i + 1])
      BY <1>3, <2>1
    <2> QED BY <2>1, <2>2, <2>3, <2>4, TurnPasses
  <1> HIDE DEF P
  <1>6. \A i \in Nat : i \in P
    BY <1>4, <1>5, SetInduction
  <1>7. Len(more) \in P
    BY <1>2, <1>6
  <1> QED BY <1>2, <1>3, <1>7 DEF P

\* It keeps the operand of a call.
LEMMA WalkCalls ==
    ASSUME NEW words \in Seq(Nat), NEW operand \in Nat, NEW found, Walk(words) = Found(found)
    PROVE  Walk(words \o emit_2_CALL(operand)) = Found(Append(found, operand))
  <1> DEFINE more == <<OPCODE_CALL, operand>>
  <1>1. /\ more \in Seq(Nat) /\ Len(more) = 2 /\ more[1] = OPCODE_CALL /\ more[2] = operand
    BY DEF OPCODE_CALL
  <1>a. more \in Seq(Nat)
    BY <1>1
  <1> HIDE DEF more
  <1>2. PICK f : /\ f[Len(words)] = Walk(words)
                 /\ f[Len(words) + Len(more)] = Walk(words \o more)
                 /\ \A i \in 1 .. Len(more) :
                      f[Len(words) + i] = Turn(f[Len(words) + i - 1], more[i])
    BY <1>a, WalkSplit, SMTT(30)
  <1>3. Len(words) \in Nat
    OBVIOUS
  <1>4. f[Len(words) + 1] = Turn(Found(found), OPCODE_CALL)
    <2>1. f[Len(words) + 1] = Turn(f[Len(words) + 1 - 1], more[1])
      BY <1>1, <1>2
    <2>2. Len(words) + 1 - 1 = Len(words)
      BY <1>3
    <2> QED BY <1>1, <1>2, <2>1, <2>2
  <1>5. f[Len(words) + 2] = Turn(f[Len(words) + 1], operand)
    <2>1. f[Len(words) + 2] = Turn(f[Len(words) + 2 - 1], more[2])
      BY <1>1, <1>2
    <2>2. Len(words) + 2 - 1 = Len(words) + 1
      BY <1>3
    <2> QED BY <1>1, <2>1, <2>2
  <1>6. Walk(words \o more) = Found(Append(found, operand))
    BY <1>1, <1>2, <1>4, <1>5, TurnCall
  <1> QED BY <1>6 DEF more, emit_2_CALL

-----------------------------------------------------------------------------
(* Numbers: bits, septets and the readers of utils.c.                       *)
IsBit(b) == b = 0 \/ b = 1
IsBits(v) == \A j \in BitIndex : IsBit(v[j])

\* A recursive sum of eight bits, and of seven.
LEMMA UnsignedOf8 ==
    ASSUME NEW v
    PROVE  /\ Unsigned(v, 8) = v[0] + 2 * (v[1] + 2 * (v[2] + 2 * (v[3] + 2 * (v[4] + 2 * (v[5]
                               + 2 * (v[6] + 2 * (v[7] + 2 * 0)))))))
           /\ Unsigned(v, 7) = v[0] + 2 * (v[1] + 2 * (v[2] + 2 * (v[3] + 2 * (v[4] + 2 * (v[5]
                               + 2 * (v[6] + 2 * 0))))))
  <1>1. ASSUME NEW n \in Nat
        PROVE  \E f : f = [j \in 0 .. n |-> IF j = n THEN 0 ELSE v[j] + 2 * f[j + 1]]
    <2> DEFINE P == {k \in Nat : \A m \in Nat :
                       k <= m => \E f : f = [j \in m - k .. m |-> IF j = m THEN 0 ELSE v[j] + 2 * f[j + 1]]}
    <2>1. 0 \in P
      <3> SUFFICES ASSUME NEW m \in Nat
                   PROVE  \E f : f = [j \in m - 0 .. m |-> IF j = m THEN 0 ELSE v[j] + 2 * f[j + 1]]
        OBVIOUS
      <3> DEFINE f == [j \in {m} |-> 0]
      <3>1. f = [j \in m - 0 .. m |-> IF j = m THEN 0 ELSE v[j] + 2 * f[j + 1]]
        OBVIOUS
      <3> QED BY <3>1
    <2>2. \A k \in Nat : k \in P => k + 1 \in P
      <3> TAKE k \in Nat
      <3> HAVE k \in P
      <3> SUFFICES ASSUME NEW m \in Nat, k + 1 <= m
                   PROVE  \E f : f = [j \in m - (k + 1) .. m |-> IF j = m THEN 0 ELSE v[j] + 2 * f[j + 1]]
        OBVIOUS
      <3>0. k <= m
        OBVIOUS
      <3>1. PICK f : f = [j \in m - k .. m |-> IF j = m THEN 0 ELSE v[j] + 2 * f[j + 1]]
        BY <3>0
      <3> DEFINE g == [j \in m - (k + 1) .. m |->
                         IF j = m - (k + 1) THEN v[j] + 2 * f[j + 1] ELSE f[j]]
      <3>2. \A j \in m - k .. m : f[j] = IF j = m THEN 0 ELSE v[j] + 2 * f[j + 1]
        BY <3>1
      <3>3. \A j \in m - (k + 1) .. m : g[j] = IF j = m THEN 0 ELSE v[j] + 2 * g[j + 1]
        BY <3>2
      <3>4. g = [j \in m - (k + 1) .. m |-> g[j]]
        OBVIOUS
      <3> HIDE DEF g
      <3>5. g = [j \in m - (k + 1) .. m |-> IF j = m THEN 0 ELSE v[j] + 2 * g[j + 1]]
        BY <3>3, <3>4
      <3> QED BY <3>5
    <2> HIDE DEF P
    <2>3. n \in P
      BY <2>1, <2>2, SetInduction
    <2>4. n - n = 0 /\ n <= n
      OBVIOUS
    <2> QED BY <2>3, <2>4 DEF P
  <1>2. ASSUME NEW n \in Nat
        PROVE  \E f : /\ Unsigned(v, n) = f[0]
                      /\ \A j \in 0 .. n : f[j] = IF j = n THEN 0 ELSE v[j] + 2 * f[j + 1]
    <2> DEFINE f == CHOOSE f : f = [j \in 0 .. n |-> IF j = n THEN 0 ELSE v[j] + 2 * f[j + 1]]
    <2>1. f = [j \in 0 .. n |-> IF j = n THEN 0 ELSE v[j] + 2 * f[j + 1]]
      BY <1>1
    <2>2. Unsigned(v, n) = f[0]
      BY DEF Unsigned
    <2> HIDE DEF f
    <2> QED BY <2>1, <2>2
  <1>3. PICK f : /\ Unsigned(v, 8) = f[0]
                 /\ \A j \in 0 .. 8 : f[j] = IF j = 8 THEN 0 ELSE v[j] + 2 * f[j + 1]
    BY <1>2
  <1>4. /\ f[8] = 0 /\ f[7] = v[7] + 2 * f[8] /\ f[6] = v[6] + 2 * f[7] /\ f[5] = v[5] + 2 * f[6]
        /\ f[4] = v[4] + 2 * f[5] /\ f[3] = v[3] + 2 * f[4] /\ f[2] = v[2] + 2 * f[3]
        /\ f[1] = v[1] + 2 * f[2] /\ f[0] = v[0] + 2 * f[1]
    BY <1>3
  <1>5. PICK g : /\ Unsigned(v, 7) = g[0]
                 /\ \A j \in 0 .. 7 : g[j] = IF j = 7 THEN 0 ELSE v[j] + 2 * g[j + 1]
    BY <1>2
  <1>6. /\ g[7] = 0 /\ g[6] = v[6] + 2 * g[7] /\ g[5] = v[5] + 2 * g[6]
        /\ g[4] = v[4] + 2 * g[5] /\ g[3] = v[3] + 2 * g[4] /\ g[2] = v[2] + 2 * g[3]
        /\ g[1] = v[1] + 2 * g[2] /\ g[0] = v[0] + 2 * g[1]
    BY <1>5
  <1> QED BY <1>3, <1>4, <1>5, <1>6

\* A bit of a number is a bit of one of its septets.
LEMMA BitOfSeptet ==
    ASSUME NEW a, NEW b, NEW c, NEW d, NEW e, NEW f, NEW g, NEW more,
           IsBit(a), IsBit(b), IsBit(c), IsBit(d), IsBit(e), IsBit(f), IsBit(g), IsBit(more),
           NEW n, n = a + 2 * (b + 2 * (c + 2 * (d + 2 * (e + 2 * (f + 2 * g))))) + 128 * more
    PROVE  /\ Bit(n, 0) = a /\ Bit(n, 1) = b /\ Bit(n, 2) = c /\ Bit(n, 3) = d
           /\ Bit(n, 4) = e /\ Bit(n, 5) = f /\ Bit(n, 6) = g
           /\ Continues(n) <=> more = 1
  <1>0. /\ a \in 0 .. 1 /\ b \in 0 .. 1 /\ c \in 0 .. 1 /\ d \in 0 .. 1 /\ e \in 0 .. 1
        /\ f \in 0 .. 1 /\ g \in 0 .. 1 /\ more \in 0 .. 1
    BY DEF IsBit
  <1>a. 2^0 = 1 /\ 2^1 = 2 /\ 2^2 = 4 /\ 2^3 = 8 /\ 2^4 = 16 /\ 2^5 = 32 /\ 2^6 = 64
    BY SMT
  <1>1. Bit(n, 0) = a
    <2>1. \E low, rest \in Nat : low < 1 /\ n = low + 1 * (a + 2 * rest)
      <3> DEFINE low == 0
                 rest == 1 * b + 2 * c + 4 * d + 8 * e + 16 * f + 32 * g + 64 * more
      <3>1. low \in Nat /\ rest \in Nat /\ low < 1 /\ n = low + 1 * (a + 2 * rest)
        BY <1>0, SMT
      <3> QED BY <3>1
    <2>2. PICK low \in Nat, rest \in Nat : low < 1 /\ n = low + 1 * (a + 2 * rest)
      BY <2>1
    <2>3. n \div 1 = a + 2 * rest
      BY <1>0, <2>2, SMT
    <2>4. (a + 2 * rest) % 2 = a
      BY <1>0, <2>2, SMT
    <2> QED BY <1>a, <2>3, <2>4 DEF Bit
  <1>2. Bit(n, 1) = b
    <2>1. \E low, rest \in Nat : low < 2 /\ n = low + 2 * (b + 2 * rest)
      <3> DEFINE low == 1 * a
                 rest == 1 * c + 2 * d + 4 * e + 8 * f + 16 * g + 32 * more
      <3>1. low \in Nat /\ rest \in Nat /\ low < 2 /\ n = low + 2 * (b + 2 * rest)
        BY <1>0, SMT
      <3> QED BY <3>1
    <2>2. PICK low \in Nat, rest \in Nat : low < 2 /\ n = low + 2 * (b + 2 * rest)
      BY <2>1
    <2>3. n \div 2 = b + 2 * rest
      BY <1>0, <2>2, SMT
    <2>4. (b + 2 * rest) % 2 = b
      BY <1>0, <2>2, SMT
    <2> QED BY <1>a, <2>3, <2>4 DEF Bit
  <1>3. Bit(n, 2) = c
    <2>1. \E low, rest \in Nat : low < 4 /\ n = low + 4 * (c + 2 * rest)
      <3> DEFINE low == 1 * a + 2 * b
                 rest == 1 * d + 2 * e + 4 * f + 8 * g + 16 * more
      <3>1. low \in Nat /\ rest \in Nat /\ low < 4 /\ n = low + 4 * (c + 2 * rest)
        BY <1>0, SMT
      <3> QED BY <3>1
    <2>2. PICK low \in Nat, rest \in Nat : low < 4 /\ n = low + 4 * (c + 2 * rest)
      BY <2>1
    <2>3. n \div 4 = c + 2 * rest
      BY <1>0, <2>2, SMT
    <2>4. (c + 2 * rest) % 2 = c
      BY <1>0, <2>2, SMT
    <2> QED BY <1>a, <2>3, <2>4 DEF Bit
  <1>4. Bit(n, 3) = d
    <2>1. \E low, rest \in Nat : low < 8 /\ n = low + 8 * (d + 2 * rest)
      <3> DEFINE low == 1 * a + 2 * b + 4 * c
                 rest == 1 * e + 2 * f + 4 * g + 8 * more
      <3>1. low \in Nat /\ rest \in Nat /\ low < 8 /\ n = low + 8 * (d + 2 * rest)
        BY <1>0, SMT
      <3> QED BY <3>1
    <2>2. PICK low \in Nat, rest \in Nat : low < 8 /\ n = low + 8 * (d + 2 * rest)
      BY <2>1
    <2>3. n \div 8 = d + 2 * rest
      BY <1>0, <2>2, SMT
    <2>4. (d + 2 * rest) % 2 = d
      BY <1>0, <2>2, SMT
    <2> QED BY <1>a, <2>3, <2>4 DEF Bit
  <1>5. Bit(n, 4) = e
    <2>1. \E low, rest \in Nat : low < 16 /\ n = low + 16 * (e + 2 * rest)
      <3> DEFINE low == 1 * a + 2 * b + 4 * c + 8 * d
                 rest == 1 * f + 2 * g + 4 * more
      <3>1. low \in Nat /\ rest \in Nat /\ low < 16 /\ n = low + 16 * (e + 2 * rest)
        BY <1>0, SMT
      <3> QED BY <3>1
    <2>2. PICK low \in Nat, rest \in Nat : low < 16 /\ n = low + 16 * (e + 2 * rest)
      BY <2>1
    <2>3. n \div 16 = e + 2 * rest
      BY <1>0, <2>2, SMT
    <2>4. (e + 2 * rest) % 2 = e
      BY <1>0, <2>2, SMT
    <2> QED BY <1>a, <2>3, <2>4 DEF Bit
  <1>6. Bit(n, 5) = f
    <2>1. \E low, rest \in Nat : low < 32 /\ n = low + 32 * (f + 2 * rest)
      <3> DEFINE low == 1 * a + 2 * b + 4 * c + 8 * d + 16 * e
                 rest == 1 * g + 2 * more
      <3>1. low \in Nat /\ rest \in Nat /\ low < 32 /\ n = low + 32 * (f + 2 * rest)
        BY <1>0, SMT
      <3> QED BY <3>1
    <2>2. PICK low \in Nat, rest \in Nat : low < 32 /\ n = low + 32 * (f + 2 * rest)
      BY <2>1
    <2>3. n \div 32 = f + 2 * rest
      BY <1>0, <2>2, SMT
    <2>4. (f + 2 * rest) % 2 = f
      BY <1>0, <2>2, SMT
    <2> QED BY <1>a, <2>3, <2>4 DEF Bit
  <1>7. Bit(n, 6) = g
    <2>1. \E low, rest \in Nat : low < 64 /\ n = low + 64 * (g + 2 * rest)
      <3> DEFINE low == 1 * a + 2 * b + 4 * c + 8 * d + 16 * e + 32 * f
                 rest == 1 * more
      <3>1. low \in Nat /\ rest \in Nat /\ low < 64 /\ n = low + 64 * (g + 2 * rest)
        BY <1>0, SMT
      <3> QED BY <3>1
    <2>2. PICK low \in Nat, rest \in Nat : low < 64 /\ n = low + 64 * (g + 2 * rest)
      BY <2>1
    <2>3. n \div 64 = g + 2 * rest
      BY <1>0, <2>2, SMT
    <2>4. (g + 2 * rest) % 2 = g
      BY <1>0, <2>2, SMT
    <2> QED BY <1>a, <2>3, <2>4 DEF Bit
  <1>8. Continues(n) <=> more = 1
    BY SMT DEF IsBit, Continues
  <1> QED BY <1>1, <1>2, <1>3, <1>4, <1>5, <1>6, <1>7, <1>8

\* The value of seven bits lies below 128, that of eight below 256.
LEMMA SeptetRange ==
    ASSUME NEW a, NEW b, NEW c, NEW d, NEW e, NEW f, NEW g, NEW h,
           IsBit(a), IsBit(b), IsBit(c), IsBit(d), IsBit(e), IsBit(f), IsBit(g), IsBit(h)
    PROVE  a + 2 * (b + 2 * (c + 2 * (d + 2 * (e + 2 * (f + 2 * (g + 2 * h)))))) \in 0 .. 255
  BY SMT DEF IsBit

\* Bytes of bits.
LEMMA ByteOfIsByte ==
    ASSUME NEW v, IsBits(v), NEW i \in 1 .. 8
    PROVE  ByteOf(v, i) \in 0 .. 255
  <1> DEFINE w == [j \in 0 .. 7 |-> v[8 * (i - 1) + j]]
  <1>1. \A j \in 0 .. 7 : IsBit(w[j])
    BY DEF IsBits, BitIndex
  <1>2. ByteOf(v, i) = Unsigned(w, 8)
    BY DEF ByteOf
  <1> HIDE DEF w
  <1>3. /\ IsBit(w[0]) /\ IsBit(w[1]) /\ IsBit(w[2]) /\ IsBit(w[3])
        /\ IsBit(w[4]) /\ IsBit(w[5]) /\ IsBit(w[6]) /\ IsBit(w[7])
    BY <1>1
  <1>4. w[7] + 2 * 0 = w[7]
    BY <1>3 DEF IsBit
  <1> QED BY <1>2, <1>3, <1>4, UnsignedOf8, SeptetRange

\* The least of a set of numbers.
LEMMA MinIsLeast ==
    ASSUME NEW T \in SUBSET Nat, T # {}
    PROVE  Min(T) \in T /\ \A y \in T : Min(T) <= y
  <1>1. PICK x \in T : \A y \in T : ~(y < x)
    BY LeastNumber
  <1>2. \A y \in T : x <= y
    BY <1>1
  <1> QED BY <1>2 DEF Min

\* The bits a byte of an encoding stands for: LebEncoding's At.
AtBit(v, j) == IF j \in BitIndex THEN v[j] ELSE v[63]

\* A byte of an encoding holds its seven bits and whether it is the last.
LEMMA EncodedByte ==
    ASSUME NEW v, IsBits(v), NEW k \in 1 .. 10, NEW i \in 1 .. k
    PROVE  /\ \A t \in 0 .. 6 : Bit(LebEncoding(v, k)[i], t) = AtBit(v, 7 * (i - 1) + t)
           /\ Continues(LebEncoding(v, k)[i]) <=> i < k
  <1> DEFINE w == [j \in 0 .. 6 |-> AtBit(v, 7 * (i - 1) + j)]
             more == IF i < k THEN 1 ELSE 0
             n == LebEncoding(v, k)[i]
  <1>1. \A j \in 0 .. 6 : IsBit(w[j])
    BY DEF IsBits, BitIndex, AtBit
  <1>2. n = Unsigned(w, 7) + IF i < k THEN 128 ELSE 0
    BY DEF LebEncoding, AtBit
  <1>3. IsBit(more) /\ (more = 1 <=> i < k) /\ (IF i < k THEN 128 ELSE 0) = 128 * more
    BY DEF IsBit
  <1>4. \A t \in 0 .. 6 : w[t] = AtBit(v, 7 * (i - 1) + t)
    OBVIOUS
  <1> HIDE DEF w, n, more
  <1>5. /\ IsBit(w[0]) /\ IsBit(w[1]) /\ IsBit(w[2]) /\ IsBit(w[3])
        /\ IsBit(w[4]) /\ IsBit(w[5]) /\ IsBit(w[6])
    BY <1>1
  <1>6. Unsigned(w, 7) = w[0] + 2 * (w[1] + 2 * (w[2] + 2 * (w[3] + 2 * (w[4] + 2 * (w[5] + 2 * w[6])))))
    <2>1. w[6] + 2 * 0 = w[6]
      BY <1>5 DEF IsBit
    <2> QED BY <2>1, UnsignedOf8
  <1>7. n = w[0] + 2 * (w[1] + 2 * (w[2] + 2 * (w[3] + 2 * (w[4] + 2 * (w[5] + 2 * w[6])))))
            + 128 * more
    BY <1>2, <1>3, <1>6
  <1>8. /\ Bit(n, 0) = w[0] /\ Bit(n, 1) = w[1] /\ Bit(n, 2) = w[2] /\ Bit(n, 3) = w[3]
        /\ Bit(n, 4) = w[4] /\ Bit(n, 5) = w[5] /\ Bit(n, 6) = w[6]
        /\ (Continues(n) <=> more = 1)
    BY <1>3, <1>5, <1>7, BitOfSeptet
  <1>9. \A t \in 0 .. 6 : Bit(n, t) = w[t]
    BY <1>8
  <1>10. Continues(n) <=> i < k
    BY <1>3, <1>8
  <1> QED BY <1>4, <1>9, <1>10 DEF n

\* The powers of 2 that fit a word.
LEMMA PowersOf2 ==
    ASSUME NEW j \in 0 .. 30
    PROVE  2^j \in Int /\ 2^j > 0
  <1>0. j = 0 => 2^j \in Int /\ 2^j > 0
    <2>1. 2^0 \in Int /\ 2^0 > 0
      BY SMT
    <2> QED BY ONLY <2>1, Zenon
  <1>1. j = 1 => 2^j \in Int /\ 2^j > 0
    <2>1. 2^1 \in Int /\ 2^1 > 0
      BY SMT
    <2> QED BY ONLY <2>1, Zenon
  <1>2. j = 2 => 2^j \in Int /\ 2^j > 0
    <2>1. 2^2 \in Int /\ 2^2 > 0
      BY SMT
    <2> QED BY ONLY <2>1, Zenon
  <1>3. j = 3 => 2^j \in Int /\ 2^j > 0
    <2>1. 2^3 \in Int /\ 2^3 > 0
      BY SMT
    <2> QED BY ONLY <2>1, Zenon
  <1>4. j = 4 => 2^j \in Int /\ 2^j > 0
    <2>1. 2^4 \in Int /\ 2^4 > 0
      BY SMT
    <2> QED BY ONLY <2>1, Zenon
  <1>5. j = 5 => 2^j \in Int /\ 2^j > 0
    <2>1. 2^5 \in Int /\ 2^5 > 0
      BY SMT
    <2> QED BY ONLY <2>1, Zenon
  <1>6. j = 6 => 2^j \in Int /\ 2^j > 0
    <2>1. 2^6 \in Int /\ 2^6 > 0
      BY SMT
    <2> QED BY ONLY <2>1, Zenon
  <1>7. j = 7 => 2^j \in Int /\ 2^j > 0
    <2>1. 2^7 \in Int /\ 2^7 > 0
      BY SMT
    <2> QED BY ONLY <2>1, Zenon
  <1>8. j = 8 => 2^j \in Int /\ 2^j > 0
    <2>1. 2^8 \in Int /\ 2^8 > 0
      BY SMT
    <2> QED BY ONLY <2>1, Zenon
  <1>9. j = 9 => 2^j \in Int /\ 2^j > 0
    <2>1. 2^9 \in Int /\ 2^9 > 0
      BY SMT
    <2> QED BY ONLY <2>1, Zenon
  <1>10. j = 10 => 2^j \in Int /\ 2^j > 0
    <2>1. 2^10 \in Int /\ 2^10 > 0
      BY SMT
    <2> QED BY ONLY <2>1, Zenon
  <1>11. j = 11 => 2^j \in Int /\ 2^j > 0
    <2>1. 2^11 \in Int /\ 2^11 > 0
      BY SMT
    <2> QED BY ONLY <2>1, Zenon
  <1>12. j = 12 => 2^j \in Int /\ 2^j > 0
    <2>1. 2^12 \in Int /\ 2^12 > 0
      BY SMT
    <2> QED BY ONLY <2>1, Zenon
  <1>13. j = 13 => 2^j \in Int /\ 2^j > 0
    <2>1. 2^13 \in Int /\ 2^13 > 0
      BY SMT
    <2> QED BY ONLY <2>1, Zenon
  <1>14. j = 14 => 2^j \in Int /\ 2^j > 0
    <2>1. 2^14 \in Int /\ 2^14 > 0
      BY SMT
    <2> QED BY ONLY <2>1, Zenon
  <1>15. j = 15 => 2^j \in Int /\ 2^j > 0
    <2>1. 2^15 \in Int /\ 2^15 > 0
      BY SMT
    <2> QED BY ONLY <2>1, Zenon
  <1>16. j = 16 => 2^j \in Int /\ 2^j > 0
    <2>1. 2^16 \in Int /\ 2^16 > 0
      BY SMT
    <2> QED BY ONLY <2>1, Zenon
  <1>17. j = 17 => 2^j \in Int /\ 2^j > 0
    <2>1. 2^17 \in Int /\ 2^17 > 0
      BY SMT
    <2> QED BY ONLY <2>1, Zenon
  <1>18. j = 18 => 2^j \in Int /\ 2^j > 0
    <2>1. 2^18 \in Int /\ 2^18 > 0
      BY SMT
    <2> QED BY ONLY <2>1, Zenon
  <1>19. j = 19 => 2^j \in Int /\ 2^j > 0
    <2>1. 2^19 \in Int /\ 2^19 > 0
      BY SMT
    <2> QED BY ONLY <2>1, Zenon
  <1>20. j = 20 => 2^j \in Int /\ 2^j > 0
    <2>1. 2^20 \in Int /\ 2^20 > 0
      BY SMT
    <2> QED BY ONLY <2>1, Zenon
  <1>21. j = 21 => 2^j \in Int /\ 2^j > 0
    <2>1. 2^21 \in Int /\ 2^21 > 0
      BY SMT
    <2> QED BY ONLY <2>1, Zenon
  <1>22. j = 22 => 2^j \in Int /\ 2^j > 0
    <2>1. 2^22 \in Int /\ 2^22 > 0
      BY SMT
    <2> QED BY ONLY <2>1, Zenon
  <1>23. j = 23 => 2^j \in Int /\ 2^j > 0
    <2>1. 2^23 \in Int /\ 2^23 > 0
      BY SMT
    <2> QED BY ONLY <2>1, Zenon
  <1>24. j = 24 => 2^j \in Int /\ 2^j > 0
    <2>1. 2^24 \in Int /\ 2^24 > 0
      BY SMT
    <2> QED BY ONLY <2>1, Zenon
  <1>25. j = 25 => 2^j \in Int /\ 2^j > 0
    <2>1. 2^25 \in Int /\ 2^25 > 0
      BY SMT
    <2> QED BY ONLY <2>1, Zenon
  <1>26. j = 26 => 2^j \in Int /\ 2^j > 0
    <2>1. 2^26 \in Int /\ 2^26 > 0
      BY SMT
    <2> QED BY ONLY <2>1, Zenon
  <1>27. j = 27 => 2^j \in Int /\ 2^j > 0
    <2>1. 2^27 \in Int /\ 2^27 > 0
      BY SMT
    <2> QED BY ONLY <2>1, Zenon
  <1>28. j = 28 => 2^j \in Int /\ 2^j > 0
    <2>1. 2^28 \in Int /\ 2^28 > 0
      BY SMT
    <2> QED BY ONLY <2>1, Zenon
  <1>29. j = 29 => 2^j \in Int /\ 2^j > 0
    <2>1. 2^29 \in Int /\ 2^29 > 0
      BY SMT
    <2> QED BY ONLY <2>1, Zenon
  <1>30. j = 30 => 2^j \in Int /\ 2^j > 0
    <2>1. 2^30 \in Int /\ 2^30 > 0
      BY SMT
    <2> QED BY ONLY <2>1, Zenon
  <1> QED
    BY <1>0, <1>1, <1>2, <1>3, <1>4, <1>5, <1>6, <1>7, <1>8, <1>9, <1>10, <1>11, <1>12, <1>13, <1>14, <1>15, <1>16, <1>17, <1>18, <1>19, <1>20, <1>21, <1>22, <1>23, <1>24, <1>25, <1>26, <1>27, <1>28, <1>29, <1>30, SMT

\* Quotient and remainder by 7.
LEMMA BySeven ==
    ASSUME NEW j \in Nat
    PROVE  /\ j \div 7 \in Nat /\ j % 7 \in 0 .. 6 /\ j = 7 * (j \div 7) + (j % 7)
  BY SMT

\* BitsOf and BitsOfWide give bits.
LEMMA BitsAreBits ==
    ASSUME NEW n \in Int
    PROVE  /\ IsBits(BitsOf(n))
           /\ \A j \in BitIndex : j > 30 => BitsOf(n)[j] = BitsOf(n)[63]
  <1>1. ASSUME NEW j \in 0 .. 30 PROVE IsBit(Bit(n, j))
    <2>1. 2^j \in Int /\ 2^j > 0
      BY PowersOf2
    <2>2. \A q \in Int : IsBit(q % 2)
      BY SMT DEF IsBit
    <2>3. n \div 2^j \in Int
      BY <2>1, SMT
    <2> QED BY <2>2, <2>3 DEF Bit
  <1>2. \A j \in BitIndex : BitsOf(n)[j] = IF j > 30 THEN (IF n < 0 THEN 1 ELSE 0) ELSE Bit(n, j)
    BY DEF BitsOf
  <1>3. \A j \in BitIndex : ~(j > 30) => j \in 0 .. 30
    BY DEF BitIndex
  <1>4. 63 \in BitIndex /\ 63 > 30
    BY DEF BitIndex
  <1> QED BY <1>1, <1>2, <1>3, <1>4 DEF IsBits, IsBit

\* SignedLength is long enough.
LEMMA SignedLengthSuffices ==
    ASSUME NEW v
    PROVE  /\ SignedLength(v) \in 1 .. 10
           /\ \A j \in BitIndex : j >= 7 * SignedLength(v) - 1 => v[j] = v[63]
           /\ (\A j \in BitIndex : j > 30 => v[j] = v[63]) => SignedLength(v) <= 5
  <1> DEFINE T == {k \in 1 .. 10 : \A j \in BitIndex : j >= 7 * k - 1 => v[j] = v[63]}
  <1>1. T \subseteq Nat /\ 10 \in T
    BY DEF BitIndex
  <1>2. SignedLength(v) = Min(T)
    BY DEF SignedLength
  <1>3. SignedLength(v) \in T /\ \A y \in T : SignedLength(v) <= y
    <2> HIDE DEF T
    <2> QED BY <1>1, <1>2, MinIsLeast
  <1>4. (\A j \in BitIndex : j > 30 => v[j] = v[63]) => 5 \in T
    BY DEF BitIndex
  <1> QED BY <1>3, <1>4

\* The reader stops at the byte that does not continue.
LEMMA ReadLengthIs ==
    ASSUME NEW c, NEW p \in Nat, NEW e \in Nat, NEW width, NEW k \in 1 .. e - p,
           ~Continues(c[p + k - 1]) \/ 7 * k >= width \/ p + k = e,
           \A t \in 1 .. k - 1 : ~(~Continues(c[p + t - 1]) \/ 7 * t >= width \/ p + t = e)
    PROVE  ReadLength(c, p, e, width) = k
  <1> DEFINE T == {t \in 1 .. e - p : ~Continues(c[p + t - 1]) \/ 7 * t >= width \/ p + t = e}
  <1>0. k \in T
    OBVIOUS
  <1>1. \A t \in T : ~(t < k)
    <2> SUFFICES ASSUME NEW t \in T, t < k PROVE FALSE
      OBVIOUS
    <2>1. t \in 1 .. e - p /\ (~Continues(c[p + t - 1]) \/ 7 * t >= width \/ p + t = e)
      OBVIOUS
    <2>2. t \in 1 .. k - 1
      BY <2>1
    <2> QED BY <2>1, <2>2
  <1>2. ReadLength(c, p, e, width) = IF p >= e THEN 0 ELSE Min(T)
    BY DEF ReadLength
  <1>3. ~(p >= e) /\ T \subseteq Nat
    OBVIOUS
  <1> HIDE DEF T
  <1>4. Min(T) \in T /\ \A y \in T : Min(T) <= y
    BY <1>0, <1>3, MinIsLeast
  <1>5. Min(T) <= k /\ ~(Min(T) < k) /\ Min(T) \in Nat
    BY <1>0, <1>1, <1>3, <1>4
  <1> QED BY <1>2, <1>3, <1>5

\* What ReadLebSigned reads of an encoding is what was encoded, for the shortest
\* and for the longest encoding.
LEMMA SignedRoundTrip ==
    ASSUME NEW v, IsBits(v), v = [j \in BitIndex |-> v[j]], NEW n \in {4, 8},
           n = 4 => \A j \in BitIndex : j > 30 => v[j] = v[63],
           NEW k \in Encodings(n, v)
    PROVE  ReadLebSigned(LebEncoding(v, k), 1, k + 1, 8 * n).value = v
  <1> DEFINE c == LebEncoding(v, k)
  <1>1. /\ k \in 1 .. 10 /\ SignedLength(v) <= k /\ (n = 4 => k <= 5)
        /\ SignedLength(v) \in 1 .. 10
    <2>1. n = 4 => (8 * n + 6) \div 7 = 5
      BY SMT
    <2>2. n = 8 => (8 * n + 6) \div 7 = 10
      BY SMT
    <2>3. k \in {SignedLength(v), (8 * n + 6) \div 7} /\ k >= SignedLength(v)
      BY DEF Encodings
    <2> QED BY <2>1, <2>2, <2>3, SignedLengthSuffices
  <1>2. \A j \in BitIndex : j >= 7 * k - 1 => v[j] = v[63]
    <2>1. \A j \in BitIndex : j \in Int
      BY DEF BitIndex
    <2> QED BY <1>1, <2>1, SignedLengthSuffices
  <1>3. \A i \in 1 .. k : Continues(c[i]) <=> i < k
    BY <1>1, EncodedByte
  <1>4. \A i \in 1 .. k : \A t \in 0 .. 6 : Bit(c[i], t) = AtBit(v, 7 * (i - 1) + t)
    BY <1>1, EncodedByte
  <1>5. ReadLength(c, 1, k + 1, 8 * n) = k
    <2>1. /\ k \in 1 .. (k + 1) - 1 /\ 1 + k = k + 1 /\ k + 1 \in Nat
          /\ \A t \in 1 .. k - 1 : /\ 1 + t - 1 = t /\ t \in 1 .. k /\ t < k
                                   /\ ~(7 * t >= 8 * n) /\ ~(1 + t = k + 1)
      BY <1>1
    <2>2. \A t \in 1 .. k - 1 : Continues(c[1 + t - 1])
      BY <1>3, <2>1
    <2> HIDE DEF c
    <2>3. \A t \in 1 .. k - 1 :
             ~(~Continues(c[1 + t - 1]) \/ 7 * t >= 8 * n \/ 1 + t = k + 1)
      BY <2>1, <2>2
    <2>4. 1 \in Nat
      OBVIOUS
    <2>5. ~Continues(c[1 + k - 1]) \/ 7 * k >= 8 * n \/ 1 + k = k + 1
      BY <2>1
    <2>6. k \in 1 .. (k + 1) - 1 /\ k + 1 \in Nat
      BY <2>1
    <2> QED BY ONLY <2>3, <2>4, <2>5, <2>6, ReadLengthIs
  <1> HIDE DEF c
  <1> DEFINE sign == IF k > 0 /\ ~Continues(c[1 + k - 1]) THEN Bit(c[1 + k - 1], 6) ELSE 0
  <1>6. sign = v[63]
    <2>1. k > 0 /\ 1 + k - 1 = k /\ k \in 1 .. k /\ ~(k < k)
      BY <1>1
    <2>2. sign = Bit(c[k], 6)
      BY <1>3, <2>1
    <2>3. Bit(c[k], 6) = AtBit(v, 7 * (k - 1) + 6)
      BY <1>4, <2>1
    <2>4. 7 * (k - 1) + 6 = 7 * k - 1 /\ 7 * k - 1 >= 7 * k - 1
      BY <1>1
    <2>5. AtBit(v, 7 * k - 1) = v[63]
      BY <1>2, <2>4 DEF AtBit
    <2> QED BY <2>2, <2>3, <2>4, <2>5
  <1> HIDE DEF sign
  <1>7. ASSUME NEW j \in BitIndex
        PROVE  (IF j < 7 * k THEN Payload(c, 1, j) ELSE sign) = v[j]
    <2>1. j \in Nat
      BY DEF BitIndex
    <2>2. CASE j < 7 * k
      <3> DEFINE q == j \div 7
                 r == j % 7
      <3>1. q \in Nat /\ r \in 0 .. 6 /\ j = 7 * q + r
        BY <2>1, BySeven
      <3> HIDE DEF q, r
      <3>2. /\ 1 + q \in 1 .. k
            /\ 7 * ((1 + q) - 1) + r = j
        BY <1>1, <2>1, <2>2, <3>1
      <3>3. Bit(c[1 + q], r) = AtBit(v, j)
        BY <1>4, <3>1, <3>2
      <3> USE DEF q, r
      <3> QED BY <2>2, <3>3 DEF Payload, AtBit
    <2>3. CASE ~(j < 7 * k)
      <3>1. j >= 7 * k - 1
        BY <1>1, <2>1, <2>3
      <3> QED BY <1>2, <1>6, <2>3, <3>1
    <2> QED BY <2>2, <2>3
  <1>8. ReadLebSigned(c, 1, k + 1, 8 * n).value
          = [j \in BitIndex |-> IF j < 7 * k THEN Payload(c, 1, j) ELSE sign]
    BY <1>5 DEF ReadLebSigned, Result, sign
  <1>9. [j \in BitIndex |-> IF j < 7 * k THEN Payload(c, 1, j) ELSE sign] = [j \in BitIndex |-> v[j]]
    BY <1>7
  <1> QED BY <1>8, <1>9 DEF c

-----------------------------------------------------------------------------
(* The operands of constants.                                               *)
\* The operand bytes of a constant are those of its number, for every encoding.
LEMMA NarrowConstant ==
    ASSUME NEW n \in Int, NEW k \in Encodings(4, BitsOf(n))
    PROVE  Operands(BitsOf(n), k, 4) = Word(n)
  <1> DEFINE b == BitsOf(n)
  <1>1. /\ IsBits(b) /\ b = [j \in BitIndex |-> b[j]]
        /\ \A j \in BitIndex : j > 30 => b[j] = b[63]
    <2>1. b = [j \in BitIndex |-> b[j]]
      BY DEF BitsOf
    <2> QED BY <2>1, BitsAreBits
  <1> HIDE DEF b
  <1>2. ReadLebSigned(LebEncoding(b, k), 1, k + 1, 8 * 4).value = b
    BY <1>1, SignedRoundTrip DEF b
  <1>3. Operands(b, k, 4) = [i \in 1 .. 4 |-> ByteOf(b, i)]
    BY <1>2 DEF Operands
  <1>4. Word(n) = <<ByteOf(b, 1), ByteOf(b, 2), ByteOf(b, 3), ByteOf(b, 4)>>
    BY DEF Word, b
  <1>5. [i \in 1 .. 4 |-> ByteOf(b, i)] = <<ByteOf(b, 1), ByteOf(b, 2), ByteOf(b, 3), ByteOf(b, 4)>>
    OBVIOUS
  <1> QED BY <1>3, <1>4, <1>5 DEF b


\* A word of the program's bytes.
IsWord(w) == w \in [1 .. 4 -> Bytes]
IsWide(w) == w \in [1 .. 8 -> Bytes]

\* The bytes of a number are bytes.
LEMMA WordIsWord ==
    ASSUME NEW n \in Int
    PROVE  IsWord(Word(n))
  <1>1. \A i \in 1 .. 4 : ByteOf(BitsOf(n), i) \in 0 .. 255
    BY BitsAreBits, ByteOfIsByte, SMTT(30)
  <1>2. /\ ByteOf(BitsOf(n), 1) \in Bytes /\ ByteOf(BitsOf(n), 2) \in Bytes
        /\ ByteOf(BitsOf(n), 3) \in Bytes /\ ByteOf(BitsOf(n), 4) \in Bytes
    BY <1>1 DEF Bytes
  <1> QED BY <1>2 DEF Word, IsWord

\* Eight bytes are four low and four high ones.
LEMMA FourAndFour ==
    ASSUME NEW S, NEW x \in [1 .. 8 -> S]
    PROVE  <<x[1], x[2], x[3], x[4]>> \o <<x[5], x[6], x[7], x[8]>> = x
  <1> DEFINE s == <<x[1], x[2], x[3], x[4]>>
             t == <<x[5], x[6], x[7], x[8]>>
  <1>1. s \in Seq(S) /\ Len(s) = 4 /\ t \in Seq(S) /\ Len(t) = 4
    OBVIOUS
  <1>2. /\ s[1] = x[1] /\ s[2] = x[2] /\ s[3] = x[3] /\ s[4] = x[4]
        /\ t[1] = x[5] /\ t[2] = x[6] /\ t[3] = x[7] /\ t[4] = x[8]
    OBVIOUS
  <1> HIDE DEF s, t
  <1>3. /\ s \o t \in Seq(S) /\ Len(s \o t) = 4 + 4
        /\ \A i \in 1 .. 4 + 4 : (s \o t)[i] = IF i <= 4 THEN s[i] ELSE t[i - 4]
    <2>1. s \in Seq(S) /\ t \in Seq(S)
      BY <1>1
    <2>2. /\ s \o t \in Seq(S)
          /\ Len(s \o t) = Len(s) + Len(t)
          /\ \A i \in 1 .. Len(s) + Len(t) : (s \o t)[i] = IF i <= Len(s) THEN s[i] ELSE t[i - Len(s)]
      BY ONLY <2>1, ConcatProperties, Zenon
    <2> QED BY ONLY <1>1, <2>2, Zenon
  <1> DEFINE u == s \o t
  <1>a. /\ u \in Seq(S) /\ Len(u) = 8
        /\ \A i \in 1 .. 8 : u[i] = IF i <= 4 THEN s[i] ELSE t[i - 4]
    <2>1. 4 + 4 = 8
      OBVIOUS
    <2> QED BY ONLY <1>3, <2>1, Zenon
  <1> HIDE DEF u
  <1>4. \A i \in 1 .. 8 : u[i] = x[i]
    <2> TAKE i \in 1 .. 8
    <2>1. i = 1 \/ i = 2 \/ i = 3 \/ i = 4 \/ i = 5 \/ i = 6 \/ i = 7 \/ i = 8
      OBVIOUS
    <2> QED BY <1>2, <1>a, <2>1
  <1>5. u = [i \in 1 .. 8 |-> u[i]]
    BY <1>a
  <1>6. u = x
    BY <1>4, <1>5
  <1> QED BY <1>6 DEF s, t, u

\* An i64.const has the eight bytes of its number as its operand.
LEMMA WideConstant ==
    ASSUME NEW w, w[1] \in Int, w[2] \in Int, NEW k \in Encodings(8, BitsOfWide(w))
    PROVE  Operands(BitsOfWide(w), k, 8) = Wide(w) /\ IsWide(Wide(w))
  <1> DEFINE b == BitsOfWide(w)
             low == BitsOf(w[1])
             high == BitsOf(w[2])
  <1>0. w[1] \in Int /\ w[2] \in Int
    OBVIOUS
  <1>1. IsBits(low) /\ IsBits(high)
    BY <1>0, BitsAreBits
  <1>2. \A j \in BitIndex : b[j] = IF j < 32 THEN low[j] ELSE high[j - 32]
    BY DEF BitsOfWide
  <1>3. b = [j \in BitIndex |-> b[j]]
    BY DEF BitsOfWide
  <1> HIDE DEF b, low, high
  <1>4. IsBits(b)
    BY <1>1, <1>2 DEF IsBits, BitIndex
  <1>5. ReadLebSigned(LebEncoding(b, k), 1, k + 1, 8 * 8).value = b
    <2>1. 8 \in {4, 8} /\ (8 = 4 => \A j \in BitIndex : j > 30 => b[j] = b[63])
      OBVIOUS
    <2>2. k \in Encodings(8, b)
      BY DEF b
    <2> QED BY <1>3, <1>4, <2>1, <2>2, SignedRoundTrip
  <1>6. Operands(b, k, 8) = [i \in 1 .. 8 |-> ByteOf(b, i)]
    BY <1>5 DEF Operands
  <1>7. \A i \in 1 .. 4 : ByteOf(b, i) = ByteOf(low, i) /\ ByteOf(b, i + 4) = ByteOf(high, i)
    <2> TAKE i \in 1 .. 4
    <2>1. \A j \in 0 .. 7 : /\ 8 * (i - 1) + j \in BitIndex /\ 8 * (i - 1) + j < 32
                            /\ 8 * ((i + 4) - 1) + j \in BitIndex /\ ~(8 * ((i + 4) - 1) + j < 32)
                            /\ 8 * ((i + 4) - 1) + j - 32 = 8 * (i - 1) + j
      BY DEF BitIndex
    <2>2. \A j \in 0 .. 7 : b[8 * (i - 1) + j] = low[8 * (i - 1) + j]
      BY <1>2, <2>1
    <2>3. \A j \in 0 .. 7 : b[8 * ((i + 4) - 1) + j] = high[8 * (i - 1) + j]
      BY <1>2, <2>1
    <2>4. [j \in 0 .. 7 |-> b[8 * (i - 1) + j]] = [j \in 0 .. 7 |-> low[8 * (i - 1) + j]]
      BY <2>2
    <2>5. [j \in 0 .. 7 |-> b[8 * ((i + 4) - 1) + j]] = [j \in 0 .. 7 |-> high[8 * (i - 1) + j]]
      BY <2>3
    <2>6. ByteOf(b, i) = ByteOf(low, i)
      BY <2>4 DEF ByteOf
    <2>7. ByteOf(b, i + 4) = ByteOf(high, i)
      BY <2>5 DEF ByteOf
    <2> QED BY <2>6, <2>7
  <1>8. /\ Word(w[1]) = <<ByteOf(low, 1), ByteOf(low, 2), ByteOf(low, 3), ByteOf(low, 4)>>
        /\ Word(w[2]) = <<ByteOf(high, 1), ByteOf(high, 2), ByteOf(high, 3), ByteOf(high, 4)>>
    BY DEF Word, low, high
  <1>9. /\ ByteOf(b, 1) = ByteOf(low, 1) /\ ByteOf(b, 2) = ByteOf(low, 2)
        /\ ByteOf(b, 3) = ByteOf(low, 3) /\ ByteOf(b, 4) = ByteOf(low, 4)
        /\ ByteOf(b, 5) = ByteOf(high, 1) /\ ByteOf(b, 6) = ByteOf(high, 2)
        /\ ByteOf(b, 7) = ByteOf(high, 3) /\ ByteOf(b, 8) = ByteOf(high, 4)
    BY <1>7
  <1>10. Wide(w) = [i \in 1 .. 8 |-> ByteOf(b, i)]
    <2>1. Wide(w) = <<ByteOf(low, 1), ByteOf(low, 2), ByteOf(low, 3), ByteOf(low, 4)>>
                    \o <<ByteOf(high, 1), ByteOf(high, 2), ByteOf(high, 3), ByteOf(high, 4)>>
      BY <1>8 DEF Wide
    <2>2. Wide(w) = <<ByteOf(b, 1), ByteOf(b, 2), ByteOf(b, 3), ByteOf(b, 4)>>
                    \o <<ByteOf(b, 5), ByteOf(b, 6), ByteOf(b, 7), ByteOf(b, 8)>>
      BY <1>9, <2>1
    <2> DEFINE x == [i \in 1 .. 8 |-> ByteOf(b, i)]
    <2>3. x \in [1 .. 8 -> Bytes]
      BY <1>4, ByteOfIsByte DEF Bytes
    <2>4. /\ x[1] = ByteOf(b, 1) /\ x[2] = ByteOf(b, 2) /\ x[3] = ByteOf(b, 3)
          /\ x[4] = ByteOf(b, 4) /\ x[5] = ByteOf(b, 5) /\ x[6] = ByteOf(b, 6)
          /\ x[7] = ByteOf(b, 7) /\ x[8] = ByteOf(b, 8)
      OBVIOUS
    <2> HIDE DEF x
    <2>5. Wide(w) = <<x[1], x[2], x[3], x[4]>> \o <<x[5], x[6], x[7], x[8]>>
      BY <2>2, <2>4
    <2> QED BY <2>3, <2>5, FourAndFour DEF x
  <1>11. IsWide(Wide(w))
    <2>1. \A i \in 1 .. 8 : ByteOf(b, i) \in Bytes
      BY <1>4, ByteOfIsByte DEF Bytes
    <2> QED BY <1>10, <2>1 DEF IsWide
  <1> QED BY <1>6, <1>10, <1>11 DEF b

-----------------------------------------------------------------------------
(* The words of every group.                                                *)
\* The words the walk passes over.
Passed == {n \in Nat : PassedOver(n)}

\* A sequence of such words is passed over.
LEMMA PassedSeq ==
    ASSUME NEW s \in Seq(Passed)
    PROVE  AllPassedOver(s)
  BY DEF AllPassedOver, Passed

\* Two of them in a row are as well.
LEMMA JoinPassed ==
    ASSUME NEW s \in Seq(Passed), NEW t \in Seq(Passed)
    PROVE  s \o t \in Seq(Passed)
  BY ConcatProperties, Zenon

\* The words of every encoder are among them.
LEMMA EncodersPass ==
    /\ \A d, r \in Registers :
         /\ emit_ADC(d, r) \in Passed /\ emit_ADD(d, r) \in Passed /\ emit_AND(d, r) \in Passed
         /\ emit_CP(d, r) \in Passed /\ emit_CPC(d, r) \in Passed /\ emit_EOR(d, r) \in Passed
         /\ emit_OR(d, r) \in Passed /\ emit_SBC(d, r) \in Passed /\ emit_SUB(d, r) \in Passed
         /\ emit_MOVW(d, r) \in Passed
    /\ \A d \in Registers :
         /\ emit_LSL(d) \in Passed /\ emit_ROL(d) \in Passed /\ emit_ASR(d) \in Passed
         /\ emit_DEC(d) \in Passed /\ emit_LSR(d) \in Passed /\ emit_ROR(d) \in Passed
         /\ emit_PUSH(d) \in Passed /\ emit_POP(d) \in Passed
    /\ \A h \in Immediate, k \in Int : emit_LDI(h, k) \in Passed /\ emit_SUBI(h, k) \in Passed
    /\ \A w \in Adiw, k \in Int : emit_ADIW(w, k) \in Passed /\ emit_SBIW(w, k) \in Passed
    /\ \A k \in Int :
         /\ emit_BREQ(k) \in Passed /\ emit_BRGE(k) \in Passed /\ emit_BRLT(k) \in Passed
         /\ emit_BRNE(k) \in Passed /\ emit_BRPL(k) \in Passed /\ emit_BRCS(k) \in Passed
         /\ emit_BRCC(k) \in Passed /\ emit_BRMI(k) \in Passed /\ emit_RJMP(k) \in Passed
    /\ \A d \in Registers, port \in Ports : emit_IN(d, port) \in Passed /\ emit_OUT(port, d) \in Passed
    /\ \A d \in Registers, yz \in {Y, Z}, k \in Int :
         emit_LDD(d, yz, k) \in Passed /\ emit_STD(d, yz, k) \in Passed
    /\ emit_RET \in Passed
  <1>1. ASSUME NEW d \in Registers, NEW r \in Registers, NEW h \in Immediate, NEW w \in Adiw,
               NEW port \in Ports, NEW yz \in {Y, Z}, NEW k \in Int
        PROVE  \A word \in EncodedWords(d, r, h, w, port, yz, k) : word \in Passed
    BY <1>1, WalkTellsInstructionsApart DEF Passed, PassedOver
  <1>2. 0 \in Registers /\ 16 \in Immediate /\ 24 \in Adiw /\ 0 \in Ports /\ Y \in {Y, Z} /\ 0 \in Int
    BY DEF Registers, Immediate, Adiw, Ports
  <1>3. ASSUME NEW d \in Registers, NEW r \in Registers
        PROVE  /\ emit_ADC(d, r) \in Passed /\ emit_ADD(d, r) \in Passed /\ emit_AND(d, r) \in Passed
               /\ emit_CP(d, r) \in Passed /\ emit_CPC(d, r) \in Passed /\ emit_EOR(d, r) \in Passed
               /\ emit_OR(d, r) \in Passed /\ emit_SBC(d, r) \in Passed /\ emit_SUB(d, r) \in Passed
               /\ emit_MOVW(d, r) \in Passed
               /\ emit_LSL(d) \in Passed /\ emit_ROL(d) \in Passed /\ emit_ASR(d) \in Passed
               /\ emit_DEC(d) \in Passed /\ emit_LSR(d) \in Passed /\ emit_ROR(d) \in Passed
               /\ emit_PUSH(d) \in Passed /\ emit_POP(d) \in Passed
    <2>1. \A word \in EncodedWords(d, r, 16, 24, 0, Y, 0) : word \in Passed
      BY <1>1, <1>2
    <2> QED BY <2>1 DEF EncodedWords
  <1>4. ASSUME NEW h \in Immediate, NEW w \in Adiw, NEW k \in Int
        PROVE  /\ emit_LDI(h, k) \in Passed /\ emit_SUBI(h, k) \in Passed
               /\ emit_ADIW(w, k) \in Passed /\ emit_SBIW(w, k) \in Passed
               /\ emit_BREQ(k) \in Passed /\ emit_BRGE(k) \in Passed /\ emit_BRLT(k) \in Passed
               /\ emit_BRNE(k) \in Passed /\ emit_BRPL(k) \in Passed /\ emit_BRCS(k) \in Passed
               /\ emit_BRCC(k) \in Passed /\ emit_BRMI(k) \in Passed /\ emit_RJMP(k) \in Passed
               /\ emit_RET \in Passed
    <2>1. \A word \in EncodedWords(0, 0, h, w, 0, Y, k) : word \in Passed
      BY <1>1, <1>2
    <2> QED BY <2>1 DEF EncodedWords
  <1>5. ASSUME NEW d \in Registers, NEW port \in Ports, NEW yz \in {Y, Z}, NEW k \in Int
        PROVE  /\ emit_IN(d, port) \in Passed /\ emit_OUT(port, d) \in Passed
               /\ emit_LDD(d, yz, k) \in Passed /\ emit_STD(d, yz, k) \in Passed
    <2>1. \A word \in EncodedWords(d, 0, 16, 24, port, yz, k) : word \in Passed
      BY <1>1, <1>2
    <2> QED BY <2>1 DEF EncodedWords
  <1> QED BY <1>2, <1>3, <1>4, <1>5

\* A sequence given as a function.
LEMMA PassedFunction ==
    ASSUME NEW n \in Nat, NEW s \in [1 .. n -> Passed]
    PROVE  s \in Seq(Passed)
  BY SeqDef

\* The groups of pushes, pops and constants.
LEMMA StackWordsPass ==
    ASSUME NEW base \in Registers, base <= 28
    PROVE  /\ emit_x_PUSH_32bit(base) \in Seq(Passed)
           /\ emit_x_POP_32bit(base) \in Seq(Passed)
           /\ emit_x_POP_16bit(base) \in Seq(Passed)
  <1>1. \A i \in 1 .. 4 : base + 4 - i \in Registers /\ base + i - 1 \in Registers
    BY DEF Registers
  <1>2. \A i \in 1 .. 2 : i \in 1 .. 4
    OBVIOUS
  <1>3. emit_x_PUSH_32bit(base) \in [1 .. 4 -> Passed]
    BY <1>1, EncodersPass DEF emit_x_PUSH_32bit
  <1>4. emit_x_POP_32bit(base) \in [1 .. 4 -> Passed]
    BY <1>1, EncodersPass DEF emit_x_POP_32bit
  <1>5. emit_x_POP_16bit(base) \in [1 .. 2 -> Passed]
    BY <1>1, <1>2, EncodersPass DEF emit_x_POP_16bit
  <1> QED BY <1>3, <1>4, <1>5, PassedFunction

\* Four bytes of a constant.
LEMMA ConstantWordsPass ==
    ASSUME NEW base \in {18, 22}, NEW b, IsWord(b)
    PROVE  LDI_4(base, b) \in Seq(Passed)
  <1>1. \A i \in 1 .. 4 : base + i - 1 \in Immediate /\ b[i] \in Int
    BY DEF Immediate, IsWord, Bytes
  <1>2. LDI_4(base, b) \in [1 .. 4 -> Passed]
    BY <1>1, EncodersPass DEF LDI_4
  <1> QED BY <1>2, PassedFunction

\* Bounds of the shapes, by name.
LEMMA ShapeSets ==
    ASSUME func \in Shapes
    PROVE  /\ func.args \in Seq(Int) /\ func.result \in BOOLEAN /\ func.entry \in BOOLEAN
           /\ func.values \subseteq Int
           /\ \A w \in func.wides : w[1] \in Int /\ w[2] \in Int
           /\ \A o \in func.offsets : o \in Nat
           /\ (func.entry => func.args = <<>>)
  <1>1. IsShape(func)
    BY ShapesAssumption
  <1>2. func.args \in Seq(Int)
    BY <1>1, SMT DEF IsShape
  <1>3. func.result \in BOOLEAN /\ func.entry \in BOOLEAN
    BY <1>1, SMT DEF IsShape
  <1>4. func.values \subseteq Int
    BY <1>1, SMTT(30) DEF IsShape
  <1>7. \A o \in func.offsets : o \in Nat
    BY <1>1, SMT DEF IsShape
  <1>5. \A w \in func.wides : w[1] \in Int /\ w[2] \in Int
    BY <1>1, SMT DEF IsShape
  <1>6. func.entry => func.args = <<>>
    BY <1>1, SMT DEF IsShape
  <1> QED BY <1>2, <1>3, <1>4, <1>5, <1>6, <1>7, Zenon

\* The numbers of the shapes, by name.
LEMMA ShapeFacts ==
    ASSUME func \in Shapes
    PROVE  /\ numLocals \in Nat /\ func.globals \in Nat /\ func.size \in Nat /\ Args \in Nat
           /\ numLocalBytes = 4 * numLocals /\ wasm_globals_size = 4 * func.globals
           /\ Args + numLocals + 1 < 64 /\ func.globals < 64
           /\ wasm_mem_space + 4 * func.globals + 20 + 4 * numLocals + 8 * func.size <= EntrySP
           /\ EntrySP + 2 + 4 * Args < 65536
           /\ wasm_mem_space \in Nat /\ EntrySP \in Nat
  <1>1. IsShape(func)
    BY ShapesAssumption
  <1>2. /\ numLocals = func.locals /\ Args = Len(func.args)
        /\ numLocalBytes = 4 * numLocals /\ wasm_globals_size = 4 * func.globals
    BY DEF numLocals, Args, numLocalBytes, wasm_globals_size
  <1>3. func.args \in Seq(Int) /\ func.locals \in Nat /\ func.globals \in Nat /\ func.size \in Nat
    BY <1>1 DEF IsShape
  <1>4. Len(func.args) \in Nat
    BY <1>3
  <1>5. /\ Len(func.args) + func.locals + 1 < 64 /\ func.globals < 64
        /\ wasm_mem_space + 4 * func.globals + 20 + 4 * func.locals + 8 * func.size <= EntrySP
        /\ EntrySP + 2 + 4 * Len(func.args) < 65536
    BY <1>1 DEF IsShape
  <1>6. numLocals \in Nat /\ Args \in Nat
    BY <1>2, <1>3, <1>4, Zenon
  <1>7. Args + numLocals + 1 < 64
    BY <1>2, <1>3, <1>4, <1>5, SMT
  <1>8. wasm_mem_space + 4 * func.globals + 20 + 4 * numLocals + 8 * func.size <= EntrySP
    BY <1>2, <1>5, SMT
  <1>9. EntrySP + 2 + 4 * Args < 65536
    BY <1>2, <1>5, SMT
  <1>10. func.globals \in Nat /\ func.size \in Nat /\ func.globals < 64
    BY <1>3, <1>5, SMT
  <1>11. wasm_mem_space \in Nat /\ EntrySP \in Nat
    BY PlacesAssumption, SMT
  <1>12. /\ numLocalBytes = 4 * numLocals /\ wasm_globals_size = 4 * func.globals
         /\ numLocals \in Nat /\ Args \in Nat
    BY <1>2, <1>6, Zenon
  <1>13. func.globals \in Nat /\ func.size \in Nat /\ func.globals < 64
    BY ONLY <1>10, SMT
  <1>14. Args + numLocals + 1 < 64
    BY ONLY <1>7, SMT
  <1>15. wasm_mem_space + 4 * func.globals + 20 + 4 * numLocals + 8 * func.size <= EntrySP
    BY ONLY <1>8, SMT
  <1>16. EntrySP + 2 + 4 * Args < 65536
    BY ONLY <1>9, SMT
  <1>17. /\ Args + numLocals + 1 < 64 /\ func.globals < 64
           /\ wasm_mem_space + 4 * func.globals + 20 + 4 * numLocals + 8 * func.size <= EntrySP
           /\ EntrySP + 2 + 4 * Args < 65536
    BY ONLY <1>13, <1>14, <1>15, <1>16, SMT
  <1> QED BY ONLY <1>12, <1>13, <1>17, <1>11, SMT

\* The frame is laid out and taken down.
LEMMA FrameWordsPass ==
    ASSUME NEW n \in Int
    PROVE  emit_local_init(n) \in Seq(Passed) /\ emit_local_deinit(n) \in Seq(Passed)
  <1>1. /\ \A d \in {28, 29, 30, 31} : d \in Registers
        /\ 30 \in Immediate /\ 31 \in Immediate /\ 28 \in Adiw /\ 61 \in Ports /\ 62 \in Ports
        /\ n % 256 \in Int /\ (n \div 256) * 256 \in Int
    BY SMT DEF Registers, Immediate, Adiw, Ports
  <1> DEFINE far1 == <<emit_LDI(RZL, n % 256), emit_LDI(RZH, (n \div 256) * 256),
                       emit_SUB(RYL, RZL), emit_SBC(RYH, RZH)>>
             far2 == <<emit_LDI(RZL, n % 256), emit_LDI(RZH, (n \div 256) * 256),
                       emit_ADD(RYL, RZL), emit_ADC(RYH, RZH)>>
             head1 == <<emit_PUSH(28), emit_PUSH(29), emit_IN(28, 61), emit_IN(29, 62)>>
             tail1 == <<emit_OUT(62, 29), emit_OUT(61, 28)>>
             tail2 == <<emit_OUT(62, 29), emit_OUT(61, 28), emit_POP(29), emit_POP(28)>>
             near1 == <<emit_SBIW(28, n)>>
             near2 == <<emit_ADIW(28, n)>>
             move1 == IF n >= 60 THEN far1 ELSE near1
             move2 == IF n >= 60 THEN far2 ELSE near2
  <1>2. /\ emit_LDI(RZL, n % 256) \in Passed /\ emit_LDI(RZH, (n \div 256) * 256) \in Passed
        /\ emit_SUB(RYL, RZL) \in Passed /\ emit_SBC(RYH, RZH) \in Passed
        /\ emit_ADD(RYL, RZL) \in Passed /\ emit_ADC(RYH, RZH) \in Passed
        /\ emit_PUSH(28) \in Passed /\ emit_PUSH(29) \in Passed
        /\ emit_POP(28) \in Passed /\ emit_POP(29) \in Passed
        /\ emit_IN(28, 61) \in Passed /\ emit_IN(29, 62) \in Passed
        /\ emit_OUT(62, 29) \in Passed /\ emit_OUT(61, 28) \in Passed
        /\ emit_SBIW(28, n) \in Passed /\ emit_ADIW(28, n) \in Passed
    BY <1>1, EncodersPass DEF RYL, RYH, RZL, RZH
  <1>3. /\ far1 \in Seq(Passed) /\ far2 \in Seq(Passed) /\ head1 \in Seq(Passed)
        /\ tail1 \in Seq(Passed) /\ tail2 \in Seq(Passed)
        /\ near1 \in Seq(Passed) /\ near2 \in Seq(Passed)
    BY <1>2
  <1>4. move1 \in Seq(Passed) /\ move2 \in Seq(Passed)
    BY <1>3
  <1>5. emit_local_init(n) = (head1 \o move1) \o tail1 /\ emit_local_deinit(n) = move2 \o tail2
    BY DEF emit_local_init, emit_local_deinit
  <1> HIDE DEF move1, move2, head1, tail1, tail2
  <1> QED BY <1>3, <1>4, <1>5, JoinPassed

\* The registers of the caller, saved and restored.
LEMMA SavedWordsPass ==
    emit_x_call_save \in Seq(Passed) /\ emit_x_call_restore \in Seq(Passed)
  <1>1. \A i \in 1 .. 16 : 1 + i \in Registers /\ 18 - i \in Registers
    BY DEF Registers
  <1>2. emit_x_call_save \in [1 .. 16 -> Passed] /\ emit_x_call_restore \in [1 .. 16 -> Passed]
    BY <1>1, EncodersPass DEF emit_x_call_save, emit_x_call_restore
  <1> QED BY <1>2, PassedFunction

\* Locals and globals.
LEMMA AccessWordsPass ==
    ASSUME func \in Shapes, NEW i \in Int
    PROVE  /\ LocalAccess(emit_LDD, i) \in Seq(Passed) /\ LocalAccess(emit_STD, i) \in Seq(Passed)
           /\ GlobalAccess(emit_LDD, i) \in Seq(Passed) /\ GlobalAccess(emit_STD, i) \in Seq(Passed)
  <1>1. \A k \in 1 .. 4 : 21 + k \in Registers
    BY DEF Registers
  <1>2. /\ \A d \in {28, 29, 30, 31, 22, 23, 2} : d \in Registers
        /\ 30 \in Immediate /\ 31 \in Immediate /\ 22 \in Immediate /\ 23 \in Immediate
    BY DEF Registers, Immediate
  <1>3. LocalBase(i) \in Int /\ 4 * (i - 1) \in Int /\ 0 \in Int
    <2>1. Args \in Int /\ numLocalBytes \in Int
      BY ShapeFacts
    <2> QED BY <2>1 DEF LocalBase
  <1>4. ASSUME NEW n \in Int
        PROVE  /\ [k \in 1 .. 4 |-> emit_LDD(21 + k, Y, n + k)] \in Seq(Passed)
               /\ [k \in 1 .. 4 |-> emit_STD(21 + k, Y, n + k)] \in Seq(Passed)
               /\ [k \in 1 .. 4 |-> emit_LDD(21 + k, Z, n + k - 1)] \in Seq(Passed)
               /\ [k \in 1 .. 4 |-> emit_STD(21 + k, Z, n + k - 1)] \in Seq(Passed)
    <2>1. \A k \in 1 .. 4 : n + k \in Int /\ n + k - 1 \in Int
      OBVIOUS
    <2>2. /\ [k \in 1 .. 4 |-> emit_LDD(21 + k, Y, n + k)] \in [1 .. 4 -> Passed]
          /\ [k \in 1 .. 4 |-> emit_STD(21 + k, Y, n + k)] \in [1 .. 4 -> Passed]
      BY <1>1, <2>1, EncodersPass
    <2>3. /\ [k \in 1 .. 4 |-> emit_LDD(21 + k, Z, n + k - 1)] \in [1 .. 4 -> Passed]
          /\ [k \in 1 .. 4 |-> emit_STD(21 + k, Z, n + k - 1)] \in [1 .. 4 -> Passed]
      BY <1>1, <2>1, EncodersPass
    <2> QED BY <2>2, <2>3, PassedFunction
  <1>5. ASSUME NEW n \in Int
        PROVE  /\ <<emit_LDI(RZL, n % 256), emit_LDI(RZH, (n \div 256) * 256)>> \in Seq(Passed)
               /\ <<emit_ADD(RYL, RZL), emit_ADC(RYH, RZH)>> \in Seq(Passed)
               /\ <<emit_SUB(RYL, RZL), emit_SBC(RYH, RZH)>> \in Seq(Passed)
               /\ <<emit_MOVW(RZL, 2)>> \in Seq(Passed)
               /\ <<emit_LDI(22, n % 256), emit_LDI(23, (n \div 256) * 256),
                    emit_ADD(RZL, 22), emit_ADC(RZH, 23)>> \in Seq(Passed)
    <2>1. n % 256 \in Int /\ (n \div 256) * 256 \in Int
      BY SMT
    <2>2. /\ emit_LDI(RZL, n % 256) \in Passed /\ emit_LDI(RZH, (n \div 256) * 256) \in Passed
          /\ emit_LDI(22, n % 256) \in Passed /\ emit_LDI(23, (n \div 256) * 256) \in Passed
          /\ emit_SUB(RYL, RZL) \in Passed /\ emit_SBC(RYH, RZH) \in Passed
          /\ emit_ADD(RYL, RZL) \in Passed /\ emit_ADC(RYH, RZH) \in Passed
          /\ emit_ADD(RZL, 22) \in Passed /\ emit_ADC(RZH, 23) \in Passed
          /\ emit_MOVW(RZL, 2) \in Passed
      BY <1>2, <2>1, EncodersPass DEF RYL, RYH, RZL, RZH
    <2> QED BY <2>2
  <1> DEFINE l == LocalBase(i)
             g == 4 * (i - 1)
             put == <<emit_LDI(RZL, l % 256), emit_LDI(RZH, (l \div 256) * 256)>>
             add == <<emit_ADD(RYL, RZL), emit_ADC(RYH, RZH)>>
             sub == <<emit_SUB(RYL, RZL), emit_SBC(RYH, RZH)>>
             move == <<emit_MOVW(RZL, 2)>>
             far == <<emit_LDI(22, g % 256), emit_LDI(23, (g \div 256) * 256),
                      emit_ADD(RZL, 22), emit_ADC(RZH, 23)>>
             LoadY(n) == [k \in 1 .. 4 |-> emit_LDD(21 + k, Y, n + k)]
             StoreY(n) == [k \in 1 .. 4 |-> emit_STD(21 + k, Y, n + k)]
             LoadZ(n) == [k \in 1 .. 4 |-> emit_LDD(21 + k, Z, n + k - 1)]
             StoreZ(n) == [k \in 1 .. 4 |-> emit_STD(21 + k, Z, n + k - 1)]
  <1>6. LocalAccess(emit_LDD, i) = IF l < 60 THEN LoadY(l) ELSE ((put \o add) \o LoadY(0)) \o sub
    BY DEF LocalAccess
  <1>7. LocalAccess(emit_STD, i) = IF l < 60 THEN StoreY(l) ELSE ((put \o add) \o StoreY(0)) \o sub
    BY DEF LocalAccess
  <1>8. GlobalAccess(emit_LDD, i) = move \o IF g < 60 THEN LoadZ(g) ELSE far \o LoadZ(0)
    BY DEF GlobalAccess
  <1>9. GlobalAccess(emit_STD, i) = move \o IF g < 60 THEN StoreZ(g) ELSE far \o StoreZ(0)
    BY DEF GlobalAccess
  <1>10. /\ put \in Seq(Passed) /\ add \in Seq(Passed) /\ sub \in Seq(Passed)
         /\ move \in Seq(Passed) /\ far \in Seq(Passed)
    BY <1>3, <1>5
  <1>11. /\ LoadY(l) \in Seq(Passed) /\ LoadY(0) \in Seq(Passed)
         /\ StoreY(l) \in Seq(Passed) /\ StoreY(0) \in Seq(Passed)
         /\ LoadZ(g) \in Seq(Passed) /\ LoadZ(0) \in Seq(Passed)
         /\ StoreZ(g) \in Seq(Passed) /\ StoreZ(0) \in Seq(Passed)
    BY <1>3, <1>4
  <1> HIDE DEF l, g, put, add, sub, move, far, LoadY, StoreY, LoadZ, StoreZ
  <1>12. /\ ((put \o add) \o LoadY(0)) \o sub \in Seq(Passed)
         /\ ((put \o add) \o StoreY(0)) \o sub \in Seq(Passed)
         /\ move \o LoadZ(g) \in Seq(Passed) /\ move \o (far \o LoadZ(0)) \in Seq(Passed)
         /\ move \o StoreZ(g) \in Seq(Passed) /\ move \o (far \o StoreZ(0)) \in Seq(Passed)
    BY <1>10, <1>11, JoinPassed, Zenon
  <1> QED BY ONLY <1>6, <1>7, <1>8, <1>9, <1>11, <1>12, Zenon

\* The operands of constants are those of their numbers.
LEMMA NarrowOperandsAre ==
    ASSUME func \in Shapes, NEW n \in func.values, NEW v \in NarrowOperands[n]
    PROVE  v = Word(n) /\ IsWord(v)
  <1>1. n \in UNION {f.values : f \in Shapes}
    OBVIOUS
  <1>2. n \in Int
    BY ShapeSets
  <1>3. NarrowOperands[n] = {Operands(BitsOf(n), k, 4) : k \in Encodings(4, BitsOf(n))}
    BY <1>1 DEF NarrowOperands
  <1>4. v = Word(n)
    BY <1>2, <1>3, NarrowConstant
  <1> QED BY <1>2, <1>4, WordIsWord

\* The same for the eight bytes of an i64.
LEMMA WideOperandsAre ==
    ASSUME func \in Shapes, NEW w \in func.wides, NEW v \in WideOperands[w]
    PROVE  v = Wide(w) /\ IsWide(v)
  <1>1. w \in UNION {f.wides : f \in Shapes}
    OBVIOUS
  <1>2. w[1] \in Int /\ w[2] \in Int
    BY ShapeSets
  <1>3. WideOperands[w] = {Operands(BitsOfWide(w), k, 8) : k \in Encodings(8, BitsOfWide(w))}
    BY <1>1 DEF WideOperands
  <1> QED BY <1>2, <1>3, WideConstant

\* The instructions on four bytes.
LEMMA FourBytesPass ==
    /\ FourBytes(emit_CP, emit_CPC, 22, 18) \in Seq(Passed)
    /\ FourBytes(emit_CP, emit_CPC, 18, 22) \in Seq(Passed)
    /\ FourBytes(emit_ADD, emit_ADC, 22, 18) \in Seq(Passed)
    /\ FourBytes(emit_SUB, emit_SBC, 22, 18) \in Seq(Passed)
    /\ FourBytes(emit_AND, emit_AND, 22, 18) \in Seq(Passed)
    /\ FourBytes(emit_OR, emit_OR, 22, 18) \in Seq(Passed)
    /\ FourBytes(emit_EOR, emit_EOR, 22, 18) \in Seq(Passed)
  <1>1. /\ 22 \in Registers /\ 22 + 1 \in Registers /\ 22 + 2 \in Registers /\ 22 + 3 \in Registers
        /\ 18 \in Registers /\ 18 + 1 \in Registers /\ 18 + 2 \in Registers /\ 18 + 3 \in Registers
    BY DEF Registers
  <1>2. ASSUME NEW a \in Passed, NEW b \in Passed, NEW c \in Passed, NEW d \in Passed
        PROVE  <<a, b, c, d>> \in Seq(Passed)
    OBVIOUS
  <1>3. FourBytes(emit_CP, emit_CPC, 22, 18) \in Seq(Passed)
    <2>1. /\ emit_CP(22, 18) \in Passed /\ emit_CPC(22 + 1, 18 + 1) \in Passed
          /\ emit_CPC(22 + 2, 18 + 2) \in Passed /\ emit_CPC(22 + 3, 18 + 3) \in Passed
      BY <1>1, EncodersPass
    <2>2. FourBytes(emit_CP, emit_CPC, 22, 18)
            = <<emit_CP(22, 18), emit_CPC(22 + 1, 18 + 1), emit_CPC(22 + 2, 18 + 2), emit_CPC(22 + 3, 18 + 3)>>
      BY DEF FourBytes
    <2>3. <<emit_CP(22, 18), emit_CPC(22 + 1, 18 + 1), emit_CPC(22 + 2, 18 + 2), emit_CPC(22 + 3, 18 + 3)>> \in Seq(Passed)
      BY ONLY <1>2, <2>1, Zenon
    <2> QED BY <2>2, <2>3, Zenon
  <1>4. FourBytes(emit_CP, emit_CPC, 18, 22) \in Seq(Passed)
    <2>1. /\ emit_CP(18, 22) \in Passed /\ emit_CPC(18 + 1, 22 + 1) \in Passed
          /\ emit_CPC(18 + 2, 22 + 2) \in Passed /\ emit_CPC(18 + 3, 22 + 3) \in Passed
      BY <1>1, EncodersPass
    <2>2. FourBytes(emit_CP, emit_CPC, 18, 22)
            = <<emit_CP(18, 22), emit_CPC(18 + 1, 22 + 1), emit_CPC(18 + 2, 22 + 2), emit_CPC(18 + 3, 22 + 3)>>
      BY DEF FourBytes
    <2>3. <<emit_CP(18, 22), emit_CPC(18 + 1, 22 + 1), emit_CPC(18 + 2, 22 + 2), emit_CPC(18 + 3, 22 + 3)>> \in Seq(Passed)
      BY ONLY <1>2, <2>1, Zenon
    <2> QED BY <2>2, <2>3, Zenon
  <1>5. FourBytes(emit_ADD, emit_ADC, 22, 18) \in Seq(Passed)
    <2>1. /\ emit_ADD(22, 18) \in Passed /\ emit_ADC(22 + 1, 18 + 1) \in Passed
          /\ emit_ADC(22 + 2, 18 + 2) \in Passed /\ emit_ADC(22 + 3, 18 + 3) \in Passed
      BY <1>1, EncodersPass
    <2>2. FourBytes(emit_ADD, emit_ADC, 22, 18)
            = <<emit_ADD(22, 18), emit_ADC(22 + 1, 18 + 1), emit_ADC(22 + 2, 18 + 2), emit_ADC(22 + 3, 18 + 3)>>
      BY DEF FourBytes
    <2>3. <<emit_ADD(22, 18), emit_ADC(22 + 1, 18 + 1), emit_ADC(22 + 2, 18 + 2), emit_ADC(22 + 3, 18 + 3)>> \in Seq(Passed)
      BY ONLY <1>2, <2>1, Zenon
    <2> QED BY <2>2, <2>3, Zenon
  <1>6. FourBytes(emit_SUB, emit_SBC, 22, 18) \in Seq(Passed)
    <2>1. /\ emit_SUB(22, 18) \in Passed /\ emit_SBC(22 + 1, 18 + 1) \in Passed
          /\ emit_SBC(22 + 2, 18 + 2) \in Passed /\ emit_SBC(22 + 3, 18 + 3) \in Passed
      BY <1>1, EncodersPass
    <2>2. FourBytes(emit_SUB, emit_SBC, 22, 18)
            = <<emit_SUB(22, 18), emit_SBC(22 + 1, 18 + 1), emit_SBC(22 + 2, 18 + 2), emit_SBC(22 + 3, 18 + 3)>>
      BY DEF FourBytes
    <2>3. <<emit_SUB(22, 18), emit_SBC(22 + 1, 18 + 1), emit_SBC(22 + 2, 18 + 2), emit_SBC(22 + 3, 18 + 3)>> \in Seq(Passed)
      BY ONLY <1>2, <2>1, Zenon
    <2> QED BY <2>2, <2>3, Zenon
  <1>7. FourBytes(emit_AND, emit_AND, 22, 18) \in Seq(Passed)
    <2>1. /\ emit_AND(22, 18) \in Passed /\ emit_AND(22 + 1, 18 + 1) \in Passed
          /\ emit_AND(22 + 2, 18 + 2) \in Passed /\ emit_AND(22 + 3, 18 + 3) \in Passed
      BY <1>1, EncodersPass
    <2>2. FourBytes(emit_AND, emit_AND, 22, 18)
            = <<emit_AND(22, 18), emit_AND(22 + 1, 18 + 1), emit_AND(22 + 2, 18 + 2), emit_AND(22 + 3, 18 + 3)>>
      BY DEF FourBytes
    <2>3. <<emit_AND(22, 18), emit_AND(22 + 1, 18 + 1), emit_AND(22 + 2, 18 + 2), emit_AND(22 + 3, 18 + 3)>> \in Seq(Passed)
      BY ONLY <1>2, <2>1, Zenon
    <2> QED BY <2>2, <2>3, Zenon
  <1>8. FourBytes(emit_OR, emit_OR, 22, 18) \in Seq(Passed)
    <2>1. /\ emit_OR(22, 18) \in Passed /\ emit_OR(22 + 1, 18 + 1) \in Passed
          /\ emit_OR(22 + 2, 18 + 2) \in Passed /\ emit_OR(22 + 3, 18 + 3) \in Passed
      BY <1>1, EncodersPass
    <2>2. FourBytes(emit_OR, emit_OR, 22, 18)
            = <<emit_OR(22, 18), emit_OR(22 + 1, 18 + 1), emit_OR(22 + 2, 18 + 2), emit_OR(22 + 3, 18 + 3)>>
      BY DEF FourBytes
    <2>3. <<emit_OR(22, 18), emit_OR(22 + 1, 18 + 1), emit_OR(22 + 2, 18 + 2), emit_OR(22 + 3, 18 + 3)>> \in Seq(Passed)
      BY ONLY <1>2, <2>1, Zenon
    <2> QED BY <2>2, <2>3, Zenon
  <1>9. FourBytes(emit_EOR, emit_EOR, 22, 18) \in Seq(Passed)
    <2>1. /\ emit_EOR(22, 18) \in Passed /\ emit_EOR(22 + 1, 18 + 1) \in Passed
          /\ emit_EOR(22 + 2, 18 + 2) \in Passed /\ emit_EOR(22 + 3, 18 + 3) \in Passed
      BY <1>1, EncodersPass
    <2>2. FourBytes(emit_EOR, emit_EOR, 22, 18)
            = <<emit_EOR(22, 18), emit_EOR(22 + 1, 18 + 1), emit_EOR(22 + 2, 18 + 2), emit_EOR(22 + 3, 18 + 3)>>
      BY DEF FourBytes
    <2>3. <<emit_EOR(22, 18), emit_EOR(22 + 1, 18 + 1), emit_EOR(22 + 2, 18 + 2), emit_EOR(22 + 3, 18 + 3)>> \in Seq(Passed)
      BY ONLY <1>2, <2>1, Zenon
    <2> QED BY <2>2, <2>3, Zenon
  <1> QED BY <1>3, <1>4, <1>5, <1>6, <1>7, <1>8, <1>9

\* The groups that take operands from the stack.
LEMMA PopsPass ==
    /\ FirstTo22 \in Seq(Passed) /\ SecondTo22 \in Seq(Passed) /\ StorePops \in Seq(Passed)
    /\ emit_x_POP_32bit(22) \in Seq(Passed) /\ emit_x_POP_32bit(18) \in Seq(Passed)
    /\ emit_x_POP_32bit(20) \in Seq(Passed) /\ emit_x_POP_32bit(14) \in Seq(Passed)
    /\ emit_x_PUSH_32bit(22) \in Seq(Passed) /\ emit_x_PUSH_32bit(18) \in Seq(Passed)
  <1>1. \A b \in {14, 18, 20, 22} : b \in Registers /\ b <= 28
    BY DEF Registers
  <1>2. /\ emit_x_POP_32bit(22) \in Seq(Passed) /\ emit_x_POP_32bit(18) \in Seq(Passed)
        /\ emit_x_POP_32bit(20) \in Seq(Passed) /\ emit_x_POP_32bit(14) \in Seq(Passed)
        /\ emit_x_PUSH_32bit(22) \in Seq(Passed) /\ emit_x_PUSH_32bit(18) \in Seq(Passed)
        /\ emit_x_POP_16bit(18) \in Seq(Passed)
    BY <1>1, StackWordsPass
  <1>3. emit_x_POP_16bit(30) \in Seq(Passed)
    <2>1. \A i \in 1 .. 2 : 30 + i - 1 \in Registers
      BY DEF Registers
    <2>2. emit_x_POP_16bit(30) \in [1 .. 2 -> Passed]
      BY <2>1, EncodersPass DEF emit_x_POP_16bit
    <2> QED BY <2>2, PassedFunction
  <1> QED BY <1>2, <1>3, JoinPassed, Zenon DEF FirstTo22, SecondTo22, StorePops

\* LDI of any constant.
LEMMA LDIPass ==
    ASSUME NEW a \in 16 .. 31, NEW k \in Int
    PROVE  emit_LDI(a, k) \in Passed
  BY EncodersPass DEF Immediate

\* The number 1 in R22..R25.
LEMMA OnesPass ==
    LDI_4(22, One) \in Seq(Passed)
  <1>1. IsWord(One)
    BY DEF One, IsWord, Bytes
  <1> QED BY <1>1, ConstantWordsPass

\* The branch of a comparison.
LEMMA BranchPasses ==
    ASSUME NEW op \in Comparisons
    PROVE  BranchFor(op) \in Passed
  BY EncodersPass DEF BranchFor, Comparisons

\* The words that widen what was loaded.
LEMMA WidenPasses ==
    ASSUME NEW op \in Loads
    PROVE  Widen(op) \in Seq(Passed)
  <1>1. /\ 22 \in Registers /\ 23 \in Registers /\ 24 \in Registers /\ 25 \in Registers
        /\ 1 \in Registers
        /\ 22 \in Immediate /\ 23 \in Immediate /\ 24 \in Immediate /\ 25 \in Immediate
    BY DEF Registers, Immediate
  <1>2. /\ emit_EOR(23, 23) \in Passed /\ emit_EOR(24, 24) \in Passed /\ emit_EOR(25, 25) \in Passed
        /\ emit_SUBI(22, 0) \in Passed /\ emit_BRMI(8) \in Passed /\ emit_BRMI(6) \in Passed
        /\ emit_RJMP(6) \in Passed /\ emit_RJMP(4) \in Passed
        /\ emit_CP(22, 1) \in Passed /\ emit_CPC(23, 1) \in Passed
    BY <1>1, EncodersPass
  <1>3. /\ emit_LDI(23, 0) \in Passed /\ emit_LDI(24, 0) \in Passed /\ emit_LDI(25, 0) \in Passed
        /\ emit_LDI(23, 255) \in Passed /\ emit_LDI(24, 255) \in Passed /\ emit_LDI(25, 255) \in Passed
    BY <1>1, EncodersPass
  <1>4. op = "load" => Widen(op) \in Seq(Passed)
    BY DEF Widen
  <1>5. op = "load8_u" => Widen(op) \in Seq(Passed)
    BY <1>2 DEF Widen
  <1>6. op = "load16_u" => Widen(op) \in Seq(Passed)
    BY <1>2 DEF Widen
  <1>7. op = "load8_s" => Widen(op) \in Seq(Passed)
    BY <1>2, <1>3 DEF Widen
  <1>8. op = "load16_s" => Widen(op) \in Seq(Passed)
    BY <1>2, <1>3 DEF Widen
  <1> QED BY <1>4, <1>5, <1>6, <1>7, <1>8 DEF Loads

-----------------------------------------------------------------------------
(* The steps.                                                               *)
\* What the walk needs of the state.
WalkInv ==
    /\ func \in Shapes
    /\ \A i \in DOMAIN locals : i \in Int
    /\ \A g \in DOMAIN globals : g \in Int
    /\ code \in Seq(Nat)
    /\ CallsFound

\* What a step emits.
EmitsPassed ==
    \E words : words \in Seq(Passed) /\ code' = code \o words /\ calls' = calls
EmitsCall ==
    \E pops, pushes, f :
        /\ pops \in Seq(Passed) /\ pushes \in Seq(Passed) /\ f \in Nat
        /\ code' = code \o (pops \o emit_2_CALL(f) \o pushes) /\ calls' = Append(calls, f)

\* Words that are passed over are words.
LEMMA PassedAreWords ==
    ASSUME NEW s \in Seq(Passed)
    PROVE  s \in Seq(Nat)
  BY DEF Passed

\* Words behind words are words.
LEMMA JoinWords ==
    ASSUME NEW s \in Seq(Nat), NEW t \in Seq(Nat)
    PROVE  s \o t \in Seq(Nat)
  BY ConcatProperties, Zenon

\* Concatenation of words associates.
LEMMA WordsAssociate ==
    ASSUME NEW s \in Seq(Nat), NEW t \in Seq(Nat), NEW u \in Seq(Nat)
    PROVE  s \o (t \o u) = (s \o t) \o u
  BY SMTT(30)

\* Emitting words that are passed over keeps CallsFound.
LEMMA EmitsPassedKeeps ==
    ASSUME code \in Seq(Nat), CallsFound, EmitsPassed
    PROVE  code' \in Seq(Nat) /\ CallsFound'
  <1>1. PICK words : words \in Seq(Passed) /\ code' = code \o words /\ calls' = calls
    BY DEF EmitsPassed
  <1>2. Walk(code) = Found(calls)
    BY DEF CallsFound, Found
  <1>3. AllPassedOver(words)
    BY <1>1, PassedSeq
  <1>4. Walk(code \o words) = Found(calls)
    BY <1>2, <1>3, WalkPasses
  <1>5. code \o words \in Seq(Nat)
    BY <1>1, PassedAreWords, JoinWords
  <1>6. Walk(code') = Found(calls')
    BY <1>1, <1>4, Zenon
  <1>7. CallsFound'
    BY <1>6 DEF CallsFound, Found
  <1> QED BY <1>1, <1>5, <1>7, Zenon

\* Emitting a call between such words keeps it too.
LEMMA EmitsCallKeeps ==
    ASSUME code \in Seq(Nat), CallsFound, EmitsCall
    PROVE  code' \in Seq(Nat) /\ CallsFound'
  <1>1. PICK pops, pushes, f :
          /\ pops \in Seq(Passed) /\ pushes \in Seq(Passed) /\ f \in Nat
          /\ code' = code \o (pops \o emit_2_CALL(f) \o pushes) /\ calls' = Append(calls, f)
    BY DEF EmitsCall
  <1>2. Walk(code) = Found(calls)
    BY DEF CallsFound, Found
  <1>3. AllPassedOver(pops) /\ AllPassedOver(pushes) /\ pops \in Seq(Nat) /\ pushes \in Seq(Nat)
    BY <1>1, PassedSeq, PassedAreWords
  <1> DEFINE call == emit_2_CALL(f)
  <1>4. call \in Seq(Nat)
    BY <1>1 DEF emit_2_CALL, OPCODE_CALL
  <1> DEFINE c1 == code \o pops
  <1>5. c1 \in Seq(Nat) /\ Walk(c1) = Found(calls)
    <2>1. c1 \in Seq(Nat)
      BY <1>3, JoinWords
    <2> QED BY <2>1, <1>2, <1>3, WalkPasses
  <1> DEFINE c2 == c1 \o call
  <1>6. c2 \in Seq(Nat) /\ Walk(c2) = Found(Append(calls, f))
    <2> HIDE DEF c1
    <2>1. c2 \in Seq(Nat)
      BY <1>4, <1>5, JoinWords
    <2> QED BY <2>1, <1>1, <1>5, WalkCalls
  <1> DEFINE c3 == c2 \o pushes
  <1>7. c3 \in Seq(Nat) /\ Walk(c3) = Found(Append(calls, f))
    <2> HIDE DEF c2
    <2>1. c3 \in Seq(Nat)
      BY <1>3, <1>6, JoinWords
    <2> QED BY <2>1, <1>3, <1>6, WalkPasses
  <1>8. code \o (pops \o call \o pushes) = c3
    <2> HIDE DEF call
    <2>1. pops \o call \in Seq(Nat)
      BY <1>3, <1>4, JoinWords
    <2>2. code \o ((pops \o call) \o pushes) = (code \o (pops \o call)) \o pushes
      BY <1>3, <2>1, WordsAssociate, ZenonT(30)
    <2>3. code \o (pops \o call) = (code \o pops) \o call
      BY <1>3, <1>4, WordsAssociate, ZenonT(30)
    <2> QED BY <2>2, <2>3, Zenon
  <1> HIDE DEF call, c3
  <1>9. code' = c3
    BY <1>1, <1>8, Zenon DEF call
  <1>10. CallsFound'
    BY <1>1, <1>7, <1>9 DEF CallsFound, Found
  <1> QED BY <1>7, <1>9, <1>10

\* An instruction that calls nothing emits such words.
LEMMA InstructionEmits ==
    ASSUME NEW op, NEW sizes, NEW left, NEW words, NEW top,
           Instruction(op, sizes, left, words, top), words \in Seq(Passed), calls' = calls
    PROVE  EmitsPassed
  <1>1. code' = code \o words
    BY SMT DEF Instruction, Emit
  <1> QED BY <1>1, Zenon DEF EmitsPassed

\* An instruction by an embedded function emits its call.
LEMMA ByFunctionEmits ==
    ASSUME NEW op, NEW f \in Nat, NEW sizes, NEW left, NEW pops, NEW pushes, NEW top,
           ByFunction(op, f, sizes, left, pops, pushes, top),
           pops \in Seq(Passed), pushes \in Seq(Passed)
    PROVE  EmitsCall /\ func' = func /\ locals' = locals /\ globals' = globals
  <1>1. /\ code' = code \o (pops \o emit_2_CALL(f) \o pushes)
        /\ calls' = Append(calls, f) /\ func' = func /\ locals' = locals /\ globals' = globals
    BY DEF ByFunction, Instruction, Calling, Emit
  <1> QED BY <1>1, Zenon DEF EmitsCall

\* The loops of the shifts.
LEMMA ShiftWordsPass ==
    /\ ShiftLoop(<<emit_LSL(22), emit_ROL(23), emit_ROL(24), emit_ROL(25)>>) \in Seq(Passed)
    /\ ShiftLoop(<<emit_LSR(25), emit_ROR(24), emit_ROR(23), emit_ROR(22)>>) \in Seq(Passed)
    /\ ShiftLoop(<<emit_ASR(25), emit_ROR(24), emit_ROR(23), emit_ROR(22)>>) \in Seq(Passed)
  <1>1. \A d \in {18, 22, 23, 24, 25} : d \in Registers
    BY DEF Registers
  <1>2. ASSUME NEW a \in Passed, NEW b \in Passed, NEW c \in Passed, NEW d \in Passed
        PROVE  ShiftLoop(<<a, b, c, d>>) \in Seq(Passed)
    <2>1. emit_RJMP(8) \in Passed /\ emit_DEC(18) \in Passed /\ emit_BRPL(-12) \in Passed
      BY <1>1, EncodersPass
    <2> DEFINE x == emit_RJMP(8)
               y == emit_DEC(18)
               z == emit_BRPL(-12)
    <2> HIDE DEF x, y, z
    <2>2. x \in Passed /\ y \in Passed /\ z \in Passed
      BY <2>1 DEF x, y, z
    <2>3. <<x>> \in Seq(Passed) /\ <<a, b, c, d>> \in Seq(Passed) /\ <<y, z>> \in Seq(Passed)
      BY <2>2
    <2>4. <<x>> \o <<a, b, c, d>> \o <<y, z>> \in Seq(Passed)
      BY <2>3, JoinPassed, Zenon
    <2> QED BY <2>4, Zenon DEF ShiftLoop, x, y, z
  <1>3. /\ emit_LSL(22) \in Passed /\ emit_ROL(23) \in Passed /\ emit_ROL(24) \in Passed
        /\ emit_ROL(25) \in Passed
    BY <1>1, EncodersPass
  <1>4. /\ emit_LSR(25) \in Passed /\ emit_ASR(25) \in Passed /\ emit_ROR(24) \in Passed
        /\ emit_ROR(23) \in Passed /\ emit_ROR(22) \in Passed
    BY <1>1, EncodersPass
  <1>5. ShiftLoop(<<emit_LSL(22), emit_ROL(23), emit_ROL(24), emit_ROL(25)>>) \in Seq(Passed)
    BY <1>2, <1>3, Zenon
  <1>6. ShiftLoop(<<emit_LSR(25), emit_ROR(24), emit_ROR(23), emit_ROR(22)>>) \in Seq(Passed)
    BY <1>2, <1>4, Zenon
  <1>7. ShiftLoop(<<emit_ASR(25), emit_ROR(24), emit_ROR(23), emit_ROR(22)>>) \in Seq(Passed)
    BY <1>2, <1>4, Zenon
  <1> QED BY <1>5, <1>6, <1>7, Zenon

\* The way out of a function.
LEMMA EpiloguePasses ==
    ASSUME func \in Shapes
    PROVE  Epilogue \in Seq(Passed)
  <1>1. emit_RET \in Passed
    BY EncodersPass
  <1> DEFINE r == emit_RET
             x == IF func.result THEN emit_x_POP_32bit(22) ELSE <<>>
             y == IF HasFrame THEN emit_local_deinit(numLocalBytes) ELSE <<>>
             z == IF func.entry THEN emit_x_call_restore ELSE <<>>
  <1>2. r \in Passed
    BY <1>1
  <1>3. <<r>> \in Seq(Passed)
    <2> HIDE DEF r
    <2> QED BY <1>2
  <1>4. <<>> \in Seq(Passed)
    OBVIOUS
  <1>5. numLocalBytes \in Int
    BY ShapeFacts
  <1>6. x \in Seq(Passed)
    BY <1>4, PopsPass, Zenon
  <1>7. y \in Seq(Passed)
    BY <1>4, <1>5, FrameWordsPass, Zenon
  <1>8. z \in Seq(Passed)
    BY <1>4, SavedWordsPass, Zenon
  <1>9. Epilogue = x \o y \o z \o <<r>>
    BY Zenon DEF Epilogue
  <1> HIDE DEF r, x, y, z
  <1> QED BY <1>3, <1>6, <1>7, <1>8, <1>9, JoinPassed, Zenon

\* The words of the groups that call nothing.
LEMMA ConstantsPass ==
    ASSUME func \in Shapes
    PROVE  /\ \A n \in func.values : \A v \in NarrowOperands[n] :
                LDI_4(22, v) \o emit_x_PUSH_32bit(22) \in Seq(Passed)
           /\ \A w \in func.wides : \A v \in WideOperands[w] :
                [i \in 1 .. 8 |-> emit_LDI(17 + i, v[i])]
                    \o emit_x_PUSH_32bit(22) \o emit_x_PUSH_32bit(18) \in Seq(Passed)
  <1>1. ASSUME NEW n \in func.values, NEW v \in NarrowOperands[n]
        PROVE  LDI_4(22, v) \o emit_x_PUSH_32bit(22) \in Seq(Passed)
    <2>1. LDI_4(22, v) \in Seq(Passed)
      BY NarrowOperandsAre, ConstantWordsPass
    <2> QED BY <2>1, PopsPass, JoinPassed, Zenon
  <1>2. ASSUME NEW w \in func.wides, NEW v \in WideOperands[w]
        PROVE  [i \in 1 .. 8 |-> emit_LDI(17 + i, v[i])]
                 \o emit_x_PUSH_32bit(22) \o emit_x_PUSH_32bit(18) \in Seq(Passed)
    <2> DEFINE s == [i \in 1 .. 8 |-> emit_LDI(17 + i, v[i])]
    <2>1. \A i \in 1 .. 8 : 17 + i \in 16 .. 31 /\ v[i] \in Int
      BY WideOperandsAre, SMTT(30) DEF IsWide, Bytes
    <2>2. s \in [1 .. 8 -> Passed]
      BY <2>1, LDIPass
    <2>3. s \in Seq(Passed)
      <3> HIDE DEF s
      <3> QED BY <2>2, PassedFunction
    <2> HIDE DEF s
    <2>4. s \o emit_x_PUSH_32bit(22) \o emit_x_PUSH_32bit(18) \in Seq(Passed)
      BY <2>3, PopsPass, JoinPassed, Zenon
    <2> QED BY <2>4 DEF s
  <1> QED BY <1>1, <1>2

\* i32.eqz.
LEMMA EqzPasses ==
    emit_x_POP_32bit(18) \o LDI_4(22, One)
        \o <<emit_OR(18, 19), emit_OR(18, 20), emit_OR(18, 21), emit_BREQ(2), emit_LDI(22, 0)>>
        \o emit_x_PUSH_32bit(22) \in Seq(Passed)
  <1>1. /\ \A d \in {18, 19, 20, 21} : d \in Registers
        /\ 22 \in 16 .. 31
    BY DEF Registers
  <1>2. /\ emit_OR(18, 19) \in Passed /\ emit_OR(18, 20) \in Passed /\ emit_OR(18, 21) \in Passed
        /\ emit_BREQ(2) \in Passed /\ emit_LDI(22, 0) \in Passed
    BY <1>1, EncodersPass, LDIPass
  <1>3. ASSUME NEW a \in Passed, NEW b \in Passed, NEW c \in Passed, NEW d \in Passed, NEW e \in Passed
        PROVE  <<a, b, c, d, e>> \in Seq(Passed)
    OBVIOUS
  <1>4. <<emit_OR(18, 19), emit_OR(18, 20), emit_OR(18, 21), emit_BREQ(2), emit_LDI(22, 0)>>
          \in Seq(Passed)
    BY ONLY <1>2, <1>3, Zenon
  <1> QED BY <1>4, OnesPass, PopsPass, JoinPassed, Zenon

\* The comparisons.
LEMMA ComparePasses ==
    ASSUME NEW op \in Comparisons, NEW swapped
    PROVE  emit_x_POP_32bit(22) \o emit_x_POP_32bit(18)
             \o (IF swapped THEN FourBytes(emit_CP, emit_CPC, 22, 18)
                            ELSE FourBytes(emit_CP, emit_CPC, 18, 22))
             \o LDI_4(22, One) \o <<BranchFor(op), emit_LDI(22, 0)>>
             \o emit_x_PUSH_32bit(22) \in Seq(Passed)
  <1>1. emit_LDI(22, 0) \in Passed
    BY LDIPass
  <1>2. BranchFor(op) \in Passed
    BY BranchPasses
  <1>3. <<BranchFor(op), emit_LDI(22, 0)>> \in Seq(Passed)
    BY ONLY <1>1, <1>2
  <1> DEFINE x == FourBytes(emit_CP, emit_CPC, 22, 18)
             y == FourBytes(emit_CP, emit_CPC, 18, 22)
  <1>4. x \in Seq(Passed) /\ y \in Seq(Passed)
    BY FourBytesPass
  <1> HIDE DEF x, y
  <1>5. (IF swapped THEN x ELSE y) \in Seq(Passed)
    BY <1>4, Zenon
  <1>6. emit_x_POP_32bit(22) \o emit_x_POP_32bit(18)
             \o (IF swapped THEN x ELSE y)
             \o LDI_4(22, One) \o <<BranchFor(op), emit_LDI(22, 0)>>
             \o emit_x_PUSH_32bit(22) \in Seq(Passed)
    BY <1>3, <1>5, OnesPass, PopsPass, JoinPassed, Zenon
  <1> QED BY <1>6 DEF x, y

\* select.
LEMMA SelectPasses ==
    emit_x_POP_32bit(22) \o emit_x_POP_32bit(18)
      \o <<emit_OR(22, 23), emit_OR(22, 24), emit_OR(22, 25), emit_BRNE(16)>>
      \o emit_x_POP_32bit(22) \o emit_x_PUSH_32bit(18) \in Seq(Passed)
  <1>1. \A d \in {22, 23, 24, 25} : d \in Registers
    BY DEF Registers
  <1>2. /\ emit_OR(22, 23) \in Passed /\ emit_OR(22, 24) \in Passed /\ emit_OR(22, 25) \in Passed
        /\ emit_BRNE(16) \in Passed
    BY <1>1, EncodersPass
  <1>3. <<emit_OR(22, 23), emit_OR(22, 24), emit_OR(22, 25), emit_BRNE(16)>> \in Seq(Passed)
    BY ONLY <1>2
  <1> QED BY <1>3, PopsPass, JoinPassed, ZenonT(30)

\* What goes before the call of a load and of a store.
LEMMA LoadStorePass ==
    ASSUME NEW offset \in Nat
    PROVE  /\ <<emit_LDI(24, offset), emit_LDI(25, offset \div 256)>> \o emit_x_POP_32bit(20) \in Seq(Passed)
           /\ <<emit_LDI(20, offset), emit_LDI(21, offset \div 256)>> \o StorePops \in Seq(Passed)
  <1>1. offset \div 256 \in Int
    OBVIOUS
  <1>2. /\ emit_LDI(24, offset) \in Passed /\ emit_LDI(25, offset \div 256) \in Passed
        /\ emit_LDI(20, offset) \in Passed /\ emit_LDI(21, offset \div 256) \in Passed
    BY <1>1, LDIPass
  <1>3. /\ <<emit_LDI(24, offset), emit_LDI(25, offset \div 256)>> \in Seq(Passed)
        /\ <<emit_LDI(20, offset), emit_LDI(21, offset \div 256)>> \in Seq(Passed)
    BY ONLY <1>2
  <1> QED BY <1>3, PopsPass, JoinPassed, ZenonT(30)

\* i64.store, near and far.
LEMMA WideStorePasses ==
    ASSUME NEW n \in Int
    PROVE  emit_x_POP_32bit(18) \o emit_x_POP_32bit(22) \o emit_x_POP_32bit(14)
             \o <<emit_MOVW(RZL, 2), emit_ADD(RZL, 14), emit_ADC(RZH, 15)>>
             \o (IF n % 256 >= 30
                 THEN <<emit_LDI(16, n), emit_LDI(17, n \div 256),
                        emit_ADD(RZL, 16), emit_ADC(RZH, 17)>> \o [i \in 1 .. 8 |-> emit_STD(17 + i, Z, 0 + i - 1)]
                 ELSE [i \in 1 .. 8 |-> emit_STD(17 + i, Z, (n % 256) + i - 1)]) \in Seq(Passed)
  <1>1. /\ \A d \in {2, 14, 15, 16, 17, 30, 31} : d \in Registers
        /\ \A i \in 1 .. 8 : 17 + i \in Registers
        /\ 16 \in 16 .. 31 /\ 17 \in 16 .. 31 /\ n \div 256 \in Int /\ n % 256 \in Int
    BY DEF Registers
  <1>2. /\ emit_MOVW(RZL, 2) \in Passed /\ emit_ADD(RZL, 14) \in Passed /\ emit_ADC(RZH, 15) \in Passed
        /\ emit_ADD(RZL, 16) \in Passed /\ emit_ADC(RZH, 17) \in Passed
        /\ emit_LDI(16, n) \in Passed /\ emit_LDI(17, n \div 256) \in Passed
    BY <1>1, EncodersPass, LDIPass DEF RZL, RZH
  <1>3. <<emit_MOVW(RZL, 2), emit_ADD(RZL, 14), emit_ADC(RZH, 15)>> \in Seq(Passed)
    BY ONLY <1>2
  <1>4. <<emit_LDI(16, n), emit_LDI(17, n \div 256), emit_ADD(RZL, 16), emit_ADC(RZH, 17)>> \in Seq(Passed)
    BY ONLY <1>2
  <1>5. ASSUME NEW k \in Int
        PROVE  [i \in 1 .. 8 |-> emit_STD(17 + i, Z, k + i - 1)] \in Seq(Passed)
    <2>1. \A i \in 1 .. 8 : emit_STD(17 + i, Z, k + i - 1) \in Passed
      <3> TAKE i \in 1 .. 8
      <3>1. 17 + i \in Registers /\ k + i - 1 \in Int /\ Z \in {Y, Z}
        BY <1>1
      <3> QED BY <3>1, EncodersPass
    <2>2. [i \in 1 .. 8 |-> emit_STD(17 + i, Z, k + i - 1)] \in [1 .. 8 -> Passed]
      BY <2>1, Zenon
    <2> QED BY <2>2, PassedFunction
  <1> DEFINE x == [i \in 1 .. 8 |-> emit_STD(17 + i, Z, 0 + i - 1)]
             y == [i \in 1 .. 8 |-> emit_STD(17 + i, Z, (n % 256) + i - 1)]
             far == <<emit_LDI(16, n), emit_LDI(17, n \div 256), emit_ADD(RZL, 16), emit_ADC(RZH, 17)>>
  <1>6. x \in Seq(Passed) /\ y \in Seq(Passed)
    <2>1. 0 \in Int /\ n % 256 \in Int
      BY <1>1
    <2> QED BY <2>1, <1>5
  <1>7. far \in Seq(Passed)
    BY <1>4
  <1> HIDE DEF x, y, far
  <1>8. (IF n % 256 >= 30 THEN far \o x ELSE y) \in Seq(Passed)
    <2>1. far \o x \in Seq(Passed)
      BY <1>6, <1>7, JoinPassed, Zenon
    <2> QED BY <1>6, <2>1, Zenon
  <1>9. emit_x_POP_32bit(18) \o emit_x_POP_32bit(22) \o emit_x_POP_32bit(14)
             \o <<emit_MOVW(RZL, 2), emit_ADD(RZL, 14), emit_ADC(RZH, 15)>>
             \o (IF n % 256 >= 30 THEN far \o x ELSE y) \in Seq(Passed)
    BY <1>3, <1>8, PopsPass, JoinPassed, ZenonT(30)
  <1> QED BY <1>9 DEF far, x, y

\* What every step leaves alone or keeps.
SameNames ==
    /\ func' = func
    /\ DOMAIN locals' = DOMAIN locals
    /\ DOMAIN globals' = DOMAIN globals

\* An instruction that only computes.
LEMMA PureEmits ==
    ASSUME NEW op, NEW sizes, NEW left, NEW words, NEW top,
           Instruction(op, sizes, left, words, top), words \in Seq(Passed), Pure
    PROVE  EmitsPassed /\ SameNames
  <1>1. calls' = calls /\ locals' = locals /\ globals' = globals
    BY DEF Pure
  <1>2. func' = func
    BY SMT DEF Instruction
  <1>3. EmitsPassed
    BY <1>1, InstructionEmits
  <1> QED BY <1>1, <1>2, <1>3, Zenon DEF SameNames

\* Arithmetic in line.
LEMMA ArithmeticEmits ==
    ASSUME NEW op, NEW result, NEW pops \in Seq(Passed), NEW words \in Seq(Passed),
           Arithmetic(op, result, pops, words)
    PROVE  EmitsPassed /\ SameNames
  <1>1. pops \o words \o emit_x_PUSH_32bit(22) \in Seq(Passed)
    BY PopsPass, JoinPassed, Zenon
  <1>2. Instruction(op, <<4, 4>>, <<result>>, pops \o words \o emit_x_PUSH_32bit(22), -1) /\ Pure
    BY Zenon DEF Arithmetic
  <1> QED BY <1>1, <1>2, PureEmits

\* An instruction by an embedded function.
LEMMA CallEmits ==
    ASSUME NEW op, NEW f \in Nat, NEW sizes, NEW left, NEW pops \in Seq(Passed),
           NEW pushes \in Seq(Passed), NEW top,
           ByFunction(op, f, sizes, left, pops, pushes, top)
    PROVE  EmitsCall /\ SameNames
  <1>1. EmitsCall /\ func' = func /\ locals' = locals /\ globals' = globals
    BY ByFunctionEmits
  <1> QED BY <1>1, Zenon DEF SameNames

\* Every instruction that only computes.
LEMMA PlainSteps ==
    ASSUME func \in Shapes,
           \/ \E n \in func.values : I32Const(n)
           \/ \E w \in func.wides : I64Const(w)
           \/ I32Eqz
           \/ \E op \in Comparisons : I32Compare(op)
           \/ Drop
           \/ Select
    PROVE  EmitsPassed /\ SameNames
  <1>1. ASSUME NEW n \in func.values, I32Const(n)
        PROVE  EmitsPassed /\ SameNames
    <2>1. PICK v \in NarrowOperands[n] :
            Instruction("i32.const", <<>>, <<Word(n)>>, LDI_4(22, v) \o emit_x_PUSH_32bit(22), 1) /\ Pure
      BY <1>1, Zenon DEF I32Const
    <2>2. LDI_4(22, v) \o emit_x_PUSH_32bit(22) \in Seq(Passed)
      BY ConstantsPass
    <2> QED BY <2>1, <2>2, PureEmits
  <1>2. ASSUME NEW w \in func.wides, I64Const(w)
        PROVE  EmitsPassed /\ SameNames
    <2>1. PICK v \in WideOperands[w] :
            /\ Instruction("i64.const", <<>>, <<Wide(w)>>,
                       [i \in 1 .. 8 |-> emit_LDI(17 + i, v[i])]
                           \o emit_x_PUSH_32bit(22) \o emit_x_PUSH_32bit(18), 2)
            /\ Pure
      BY <1>2, Zenon DEF I64Const
    <2>2. [i \in 1 .. 8 |-> emit_LDI(17 + i, v[i])]
                    \o emit_x_PUSH_32bit(22) \o emit_x_PUSH_32bit(18) \in Seq(Passed)
      BY ConstantsPass, Zenon
    <2> QED BY <2>1, <2>2, PureEmits
  <1>3. ASSUME I32Eqz PROVE EmitsPassed /\ SameNames
    BY <1>3, EqzPasses, PureEmits DEF I32Eqz
  <1>4. ASSUME NEW op \in Comparisons, I32Compare(op)
        PROVE  EmitsPassed /\ SameNames
    <2> DEFINE swapped == op \in {"le_s", "le_u", "gt_s", "gt_u"}
               words == emit_x_POP_32bit(22) \o emit_x_POP_32bit(18)
                       \o (IF swapped THEN FourBytes(emit_CP, emit_CPC, 22, 18)
                                      ELSE FourBytes(emit_CP, emit_CPC, 18, 22))
                       \o LDI_4(22, One) \o <<BranchFor(op), emit_LDI(22, 0)>>
                       \o emit_x_PUSH_32bit(22)
    <2>1. Instruction("compare", <<4, 4>>, <<Truth(Compared(op, Operand(1), Operand(0)))>>, words, -1) /\ Pure
      BY <1>4, Zenon DEF I32Compare
    <2>2. words \in Seq(Passed)
      BY ComparePasses
    <2> HIDE DEF words
    <2> QED BY <2>1, <2>2, PureEmits
  <1>5. ASSUME Drop PROVE EmitsPassed /\ SameNames
    BY <1>5, PopsPass, PureEmits DEF Drop
  <1>6. ASSUME Select PROVE EmitsPassed /\ SameNames
    BY <1>6, SelectPasses, PureEmits DEF Select
  <1> QED BY <1>1, <1>2, <1>3, <1>4, <1>5, <1>6

\* Every instruction on two operands in line.
LEMMA ArithmeticSteps ==
    ASSUME I32Add \/ I32Sub \/ I32And \/ I32Or \/ I32Xor \/ I32Shl \/ I32ShrU \/ I32ShrS
    PROVE  EmitsPassed /\ SameNames
  <1>1. ASSUME I32Add PROVE EmitsPassed /\ SameNames
    <2> HIDE DEF FourBytes
    <2> QED BY <1>1, FourBytesPass, PopsPass, ArithmeticEmits DEF I32Add
  <1>2. ASSUME I32Sub PROVE EmitsPassed /\ SameNames
    BY <1>2, FourBytesPass, PopsPass, ArithmeticEmits DEF I32Sub
  <1>3. ASSUME I32And PROVE EmitsPassed /\ SameNames
    BY <1>3, FourBytesPass, PopsPass, ArithmeticEmits DEF I32And
  <1>4. ASSUME I32Or PROVE EmitsPassed /\ SameNames
    BY <1>4, FourBytesPass, PopsPass, ArithmeticEmits DEF I32Or
  <1>5. ASSUME I32Xor PROVE EmitsPassed /\ SameNames
    BY <1>5, FourBytesPass, PopsPass, ArithmeticEmits DEF I32Xor
  <1>6. ASSUME I32Shl PROVE EmitsPassed /\ SameNames
    <2>1. Arithmetic("i32.shl", WShl(Operand(1), Operand(0)[1]), FirstTo22,
                     ShiftLoop(<<emit_LSL(22), emit_ROL(23), emit_ROL(24), emit_ROL(25)>>))
      BY <1>6, Zenon DEF I32Shl, Shift
    <2> QED BY <2>1, ShiftWordsPass, PopsPass, ArithmeticEmits
  <1>7. ASSUME I32ShrU PROVE EmitsPassed /\ SameNames
    <2>1. Arithmetic("i32.shr_u", WShrU(Operand(1), Operand(0)[1]), FirstTo22,
                     ShiftLoop(<<emit_LSR(25), emit_ROR(24), emit_ROR(23), emit_ROR(22)>>))
      BY <1>7, Zenon DEF I32ShrU, Shift
    <2> QED BY <2>1, ShiftWordsPass, PopsPass, ArithmeticEmits
  <1>8. ASSUME I32ShrS PROVE EmitsPassed /\ SameNames
    <2>1. Arithmetic("i32.shr_s", WShrS(Operand(1), Operand(0)[1]), FirstTo22,
                     ShiftLoop(<<emit_ASR(25), emit_ROR(24), emit_ROR(23), emit_ROR(22)>>))
      BY <1>8, Zenon DEF I32ShrS, Shift
    <2> QED BY <2>1, ShiftWordsPass, PopsPass, ArithmeticEmits
  <1> QED BY <1>1, <1>2, <1>3, <1>4, <1>5, <1>6, <1>7, <1>8, Zenon

\* Every instruction that calls an embedded function but the stores.
LEMMA CallingSteps ==
    ASSUME func \in Shapes,
           \/ I32Clz \/ I32Mul \/ \E signed \in BOOLEAN : I32Div(signed)
           \/ \E op \in Loads, o \in func.offsets : I32Load(op, o)
    PROVE  EmitsCall /\ SameNames
  <1>1. ASSUME I32Clz PROVE EmitsCall /\ SameNames
    <2>1. embed_func_clz32 \in Nat
      BY DEF embed_func_clz32
    <2> QED BY <1>1, <2>1, PopsPass, CallEmits DEF I32Clz
  <1>2. ASSUME I32Mul PROVE EmitsCall /\ SameNames
    <2>1. embed_func_umul \in Nat
      BY DEF embed_func_umul
    <2> QED BY <1>2, <2>1, PopsPass, CallEmits DEF I32Mul
  <1>3. ASSUME NEW signed \in BOOLEAN, I32Div(signed) PROVE EmitsCall /\ SameNames
    <2> DEFINE f == IF signed THEN embed_func_idiv ELSE embed_func_udiv
               result == IF signed THEN WDivS(Operand(1), Operand(0)) ELSE WDivU(Operand(1), Operand(0))
    <2>1. f \in Nat
      BY DEF embed_func_idiv, embed_func_udiv
    <2>2. ByFunction("i32.div", f, <<4, 4>>, <<result>>, FirstTo22, emit_x_PUSH_32bit(22), -1)
      BY <1>3, Zenon DEF I32Div
    <2> HIDE DEF f, result
    <2> QED BY <2>1, <2>2, PopsPass, CallEmits
  <1>4. ASSUME NEW op \in Loads, NEW o \in func.offsets, I32Load(op, o)
        PROVE  EmitsCall /\ SameNames
    <2>1. embed_func_i32load \in Nat
      BY DEF embed_func_i32load
    <2>2. o \in Nat
      BY ShapeSets
    <2> DEFINE pops == <<emit_LDI(24, o), emit_LDI(25, o \div 256)>> \o emit_x_POP_32bit(20)
               pushes == Widen(op) \o emit_x_PUSH_32bit(22)
    <2>3. pops \in Seq(Passed)
      BY <2>2, LoadStorePass
    <2>4. pushes \in Seq(Passed)
      BY WidenPasses, PopsPass, JoinPassed, Zenon
    <2>5. ByFunction("i32.load", embed_func_i32load, <<4>>,
                  <<LoadedWord(op, Half0(Operand(0)) + o)>>, pops, pushes, 0)
      BY <1>4, Zenon DEF I32Load
    <2> HIDE DEF pops, pushes
    <2> QED BY <2>1, <2>3, <2>4, <2>5, CallEmits
  <1> QED BY <1>1, <1>2, <1>3, <1>4

\* The stores.
LEMMA StoringSteps ==
    ASSUME func \in Shapes, NEW f \in Nat, NEW o \in func.offsets, I32Store(f, o)
    PROVE  EmitsCall /\ SameNames
  <1>2. o \in Nat
    BY ShapeSets
  <1> DEFINE pops == <<emit_LDI(20, o), emit_LDI(21, o \div 256)>> \o StorePops
  <1>3. pops \in Seq(Passed)
    BY <1>2, LoadStorePass
  <1>4. <<>> \in Seq(Passed)
    OBVIOUS
  <1>5. ByFunction("i32.store", f, <<4, 4>>, <<>>, pops, <<>>, -2)
    BY Zenon DEF I32Store
  <1> HIDE DEF pops
  <1> QED BY <1>3, <1>4, <1>5, CallEmits

\* The locals and the globals.
LEMMA VariableSteps ==
    ASSUME func \in Shapes, \A i \in DOMAIN locals : i \in Int, \A g \in DOMAIN globals : g \in Int,
           \/ \E i \in DOMAIN locals : LocalGet(i) \/ LocalSet(i) \/ LocalTee(i)
           \/ \E g \in DOMAIN globals : GlobalGet(g) \/ GlobalSet(g)
    PROVE  EmitsPassed /\ SameNames
  <1>1. ASSUME NEW i \in DOMAIN locals, LocalGet(i) PROVE EmitsPassed /\ SameNames
    <2> DEFINE words == LocalAccess(emit_LDD, i) \o emit_x_PUSH_32bit(22)
    <2>1. words \in Seq(Passed)
      BY AccessWordsPass, PopsPass, JoinPassed, Zenon
    <2>2. Instruction("local.get", <<>>, <<locals[i]>>, words, 1) /\ Pure
      BY <1>1, Zenon DEF LocalGet
    <2> HIDE DEF words
    <2> QED BY <2>1, <2>2, PureEmits
  <1>2. ASSUME NEW i \in DOMAIN locals, LocalSet(i) PROVE EmitsPassed /\ SameNames
    <2> DEFINE words == emit_x_POP_32bit(22) \o LocalAccess(emit_STD, i)
    <2>1. words \in Seq(Passed)
      BY AccessWordsPass, PopsPass, JoinPassed, Zenon
    <2>2. /\ Instruction("local.set", <<4>>, <<>>, words, -1)
          /\ locals' = [locals EXCEPT ![i] = Operand(0)]
          /\ globals' = globals /\ calls' = calls
      BY <1>2 DEF LocalSet
    <2>3. func' = func
      BY <2>2, SMT DEF Instruction
    <2> HIDE DEF words
    <2>4. EmitsPassed
      BY <2>1, <2>2, InstructionEmits
    <2> QED BY <2>2, <2>3, <2>4 DEF SameNames
  <1>3. ASSUME NEW i \in DOMAIN locals, LocalTee(i) PROVE EmitsPassed /\ SameNames
    <2> DEFINE words == emit_x_POP_32bit(22) \o LocalAccess(emit_STD, i) \o emit_x_PUSH_32bit(22)
    <2>1. words \in Seq(Passed)
      BY AccessWordsPass, PopsPass, JoinPassed, Zenon
    <2>2. /\ Instruction("local.tee", <<4>>, <<Operand(0)>>, words, 0)
          /\ locals' = [locals EXCEPT ![i] = Operand(0)]
          /\ globals' = globals /\ calls' = calls
      BY <1>3 DEF LocalTee
    <2>3. func' = func
      BY <2>2, SMT DEF Instruction
    <2> HIDE DEF words
    <2>4. EmitsPassed
      BY <2>1, <2>2, InstructionEmits
    <2> QED BY <2>2, <2>3, <2>4 DEF SameNames
  <1>4. ASSUME NEW g \in DOMAIN globals, GlobalGet(g) PROVE EmitsPassed /\ SameNames
    <2> DEFINE words == GlobalAccess(emit_LDD, g) \o emit_x_PUSH_32bit(22)
    <2>1. words \in Seq(Passed)
      BY AccessWordsPass, PopsPass, JoinPassed, Zenon
    <2>2. Instruction("global.get", <<>>, <<globals[g]>>, words, 1) /\ Pure
      BY <1>4, Zenon DEF GlobalGet
    <2> HIDE DEF words
    <2> QED BY <2>1, <2>2, PureEmits
  <1>5. ASSUME NEW g \in DOMAIN globals, GlobalSet(g) PROVE EmitsPassed /\ SameNames
    <2> DEFINE words == emit_x_POP_32bit(22) \o GlobalAccess(emit_STD, g)
    <2>1. words \in Seq(Passed)
      BY AccessWordsPass, PopsPass, JoinPassed, Zenon
    <2>2. /\ Instruction("global.set", <<4>>, <<>>, words, -1)
          /\ globals' = [globals EXCEPT ![g] = Operand(0)]
          /\ locals' = locals /\ calls' = calls
      BY <1>5 DEF GlobalSet
    <2>3. func' = func
      BY <2>2, SMT DEF Instruction
    <2> HIDE DEF words
    <2>4. EmitsPassed
      BY <2>1, <2>2, InstructionEmits
    <2> QED BY <2>2, <2>3, <2>4 DEF SameNames
  <1> QED BY <1>1, <1>2, <1>3, <1>4, <1>5

\* The store in line.
LEMMA WideStoreSteps ==
    ASSUME func \in Shapes, NEW o \in func.offsets, I64Store(o)
    PROVE  EmitsPassed /\ SameNames
  <1> DEFINE n == o + wasm_globals_size
             words == emit_x_POP_32bit(18) \o emit_x_POP_32bit(22) \o emit_x_POP_32bit(14)
                      \o <<emit_MOVW(RZL, 2), emit_ADD(RZL, 14), emit_ADC(RZH, 15)>>
                      \o (IF n % 256 >= 30
                          THEN <<emit_LDI(16, n), emit_LDI(17, n \div 256),
                                 emit_ADD(RZL, 16), emit_ADC(RZH, 17)>>
                               \o [i \in 1 .. 8 |-> emit_STD(17 + i, Z, 0 + i - 1)]
                          ELSE [i \in 1 .. 8 |-> emit_STD(17 + i, Z, (n % 256) + i - 1)])
  <1>1. n \in Int
    <2>1. o \in Nat
      BY ShapeSets
    <2>2. func.globals \in Nat
      BY ShapeFacts
    <2> QED BY <2>1, <2>2 DEF wasm_globals_size
  <1>2. /\ Instruction("i64.store", <<4, 8>>, <<>>, words, -3)
        /\ UNCHANGED <<locals, globals, calls>>
    BY Zenon DEF I64Store
  <1>3. words \in Seq(Passed)
    <2> HIDE DEF n
    <2> QED BY <1>1, WideStorePasses
  <1> HIDE DEF words
  <1>4. EmitsPassed
    BY <1>2, <1>3, InstructionEmits
  <1>5. func' = func
    BY <1>2, SMT DEF Instruction
  <1> QED BY <1>2, <1>4, <1>5, Zenon DEF SameNames

\* The way out.
LEMMA LeaveSteps ==
    ASSUME func \in Shapes, Leave
    PROVE  EmitsPassed /\ SameNames
  <1>1. code' = code \o Epilogue /\ func' = func /\ locals' = locals /\ globals' = globals /\ calls' = calls
    BY SMT DEF Leave, Emit, Pure
  <1>2. Epilogue \in Seq(Passed)
    BY EpiloguePasses
  <1> QED BY <1>1, <1>2, Zenon DEF EmitsPassed, SameNames

\* The way in.
LEMMA EnterSteps ==
    ASSUME func \in Shapes, Enter
    PROVE  EmitsPassed /\ SameNames
  <1> DEFINE x == <<emit_LDI(22, wasm_mem_space), emit_LDI(23, wasm_mem_space \div 256), emit_MOVW(2, 22)>>
             y == IF func.entry THEN emit_x_call_save \o x ELSE <<>>
             z == IF HasFrame THEN emit_local_init(numLocalBytes) ELSE <<>>
  <1>1. /\ wasm_mem_space \in Int /\ wasm_mem_space \div 256 \in Int /\ numLocalBytes \in Int
        /\ 2 \in Registers /\ 22 \in Registers
    BY ShapeFacts, PlacesAssumption DEF Registers
  <1>2. /\ emit_LDI(22, wasm_mem_space) \in Passed /\ emit_LDI(23, wasm_mem_space \div 256) \in Passed
        /\ emit_MOVW(2, 22) \in Passed
    BY <1>1, EncodersPass, LDIPass
  <1>3. x \in Seq(Passed)
    BY ONLY <1>2
  <1>4. <<>> \in Seq(Passed)
    OBVIOUS
  <1> HIDE DEF x
  <1>5. y \in Seq(Passed)
    <2>1. emit_x_call_save \o x \in Seq(Passed)
      BY <1>3, SavedWordsPass, JoinPassed, Zenon
    <2> QED BY <1>4, <2>1, Zenon
  <1>6. z \in Seq(Passed)
    BY <1>1, <1>4, FrameWordsPass, Zenon
  <1>7. code' = code \o (y \o z) /\ func' = func /\ locals' = locals /\ globals' = globals /\ calls' = calls
    BY Zenon DEF Enter, Emit, Pure, x
  <1> HIDE DEF y, z
  <1>8. y \o z \in Seq(Passed)
    BY <1>5, <1>6, JoinPassed, Zenon
  <1> QED BY <1>7, <1>8, Zenon DEF EmitsPassed, SameNames

\* What every step that emits emits.
LEMMA NextEmits ==
    ASSUME func \in Shapes, \A i \in DOMAIN locals : i \in Int, \A g \in DOMAIN globals : g \in Int,
           Next
    PROVE  (EmitsPassed \/ EmitsCall \/ UNCHANGED <<code, calls>>) /\ SameNames
  <1> DEFINE Goal == (EmitsPassed \/ EmitsCall \/ UNCHANGED <<code, calls>>) /\ SameNames
  <1>1. ASSUME Execute PROVE Goal
    BY <1>1 DEF Execute, SameNames
  <1>2. ASSUME Enter PROVE Goal
    BY <1>2, EnterSteps
  <1>3. ASSUME \/ \E n \in func.values : I32Const(n)
               \/ \E w \in func.wides : I64Const(w)
               \/ I32Eqz
               \/ \E op \in Comparisons : I32Compare(op)
               \/ Drop
               \/ Select
        PROVE  Goal
    BY <1>3, PlainSteps
  <1>4. ASSUME I32Add \/ I32Sub \/ I32And \/ I32Or \/ I32Xor \/ I32Shl \/ I32ShrU \/ I32ShrS
        PROVE  Goal
    BY <1>4, ArithmeticSteps
  <1>5. ASSUME \/ I32Clz \/ I32Mul \/ \E signed \in BOOLEAN : I32Div(signed)
               \/ \E op \in Loads, o \in func.offsets : I32Load(op, o)
        PROVE  Goal
    BY <1>5, CallingSteps
  <1>6. ASSUME \/ \E i \in DOMAIN locals : LocalGet(i) \/ LocalSet(i) \/ LocalTee(i)
               \/ \E g \in DOMAIN globals : GlobalGet(g) \/ GlobalSet(g)
        PROVE  Goal
    BY <1>6, VariableSteps
  <1>7. ASSUME NEW f \in Nat, NEW o \in func.offsets, I32Store(f, o)
        PROVE  Goal
    BY <1>7, StoringSteps
  <1>8. ASSUME NEW o \in func.offsets, I64Store(o)
        PROVE  Goal
    BY <1>8, WideStoreSteps
  <1>9. ASSUME Return \/ EndFunction PROVE Goal
    BY <1>9, LeaveSteps DEF Return, EndFunction
  <1>10. \/ Execute \/ Enter
         \/ \E n \in func.values : I32Const(n)
         \/ \E w \in func.wides : I64Const(w)
         \/ I32Eqz
         \/ \E op \in Comparisons : I32Compare(op)
         \/ I32Clz \/ I32Add \/ I32Sub \/ I32And \/ I32Or \/ I32Xor \/ I32Mul
         \/ \E signed \in BOOLEAN : I32Div(signed)
         \/ I32Shl \/ I32ShrU \/ I32ShrS
         \/ Drop \/ Select
         \/ \E i \in DOMAIN locals : LocalGet(i) \/ LocalSet(i) \/ LocalTee(i)
         \/ \E g \in DOMAIN globals : GlobalGet(g) \/ GlobalSet(g)
         \/ \E op \in Loads, o \in func.offsets : I32Load(op, o)
         \/ \E f \in Nat, o \in func.offsets : I32Store(f, o)
         \/ \E o \in func.offsets : I64Store(o)
         \/ Return \/ EndFunction
    BY SMT DEF Next
  <1> HIDE DEF Goal
  <1>11. Goal
    BY ONLY <1>1, <1>2, <1>3, <1>4, <1>5, <1>6, <1>7, <1>8, <1>9, <1>10
  <1> QED BY <1>11 DEF Goal

\* The walk of branch_pc_refill finds the calls of every program.
THEOREM WalkFindsTheCalls == Spec => []CallsFound
  <1>1. Init => WalkInv
    <2> SUFFICES ASSUME Init PROVE WalkInv
      OBVIOUS
    <2>1. func \in Shapes /\ code = <<>> /\ calls = <<>>
      BY Zenon DEF Init
    <2>2. \A i \in DOMAIN locals : i \in Int
      <3>1. Args \in Nat /\ numLocals \in Nat
        BY <2>1, ShapeFacts
      <3>2. DOMAIN locals = 0 .. Args + numLocals - 1
        BY Zenon DEF Init
      <3> QED BY <3>1, <3>2
    <2>3. \A g \in DOMAIN globals : g \in Int
      <3>1. DOMAIN globals = 1 .. func.globals
        BY Zenon DEF Init
      <3> QED BY <2>1, <3>1
    <2>4. code \in Seq(Nat)
      BY <2>1
    <2>5. Walk(<<>>) = AtStart
      <3>1. IsWalk([i \in 0 .. 0 |-> AtStart], <<>>, 0)
        BY DEF IsWalk
      <3>2. Len(<<>>) = 0 /\ Len(<<>>) \in Nat
        OBVIOUS
      <3> DEFINE f == [i \in 0 .. 0 |-> AtStart]
      <3>3. f[0] = AtStart
        OBVIOUS
      <3>4. IsWalk(f, <<>>, Len(<<>>))
        BY <3>1, <3>2
      <3> HIDE DEF f
      <3>5. Walk(<<>>) = f[Len(<<>>)]
        BY <3>2, <3>4, WalkIs
      <3> QED BY <3>2, <3>3, <3>5
    <2>6. CallsFound
      BY <2>1, <2>5 DEF CallsFound, AtStart
    <2> QED BY <2>1, <2>2, <2>3, <2>4, <2>6 DEF WalkInv
  <1>2. WalkInv /\ [Next]_vars => WalkInv'
    <2> SUFFICES ASSUME WalkInv, [Next]_vars PROVE WalkInv'
      OBVIOUS
    <2>1. /\ func \in Shapes /\ \A i \in DOMAIN locals : i \in Int
          /\ \A g \in DOMAIN globals : g \in Int
          /\ code \in Seq(Nat) /\ CallsFound
      BY DEF WalkInv
    <2>2. CASE Next
      <3>1. (EmitsPassed \/ EmitsCall \/ UNCHANGED <<code, calls>>) /\ SameNames
        BY <2>1, <2>2, NextEmits
      <3>2. code' \in Seq(Nat) /\ CallsFound'
        <4>1. CASE EmitsPassed
          BY <2>1, <4>1, EmitsPassedKeeps
        <4>2. CASE EmitsCall
          BY <2>1, <4>2, EmitsCallKeeps
        <4>3. CASE UNCHANGED <<code, calls>>
          BY <2>1, <4>3 DEF CallsFound
        <4> QED BY <3>1, <4>1, <4>2, <4>3
      <3> QED BY <2>1, <3>1, <3>2 DEF WalkInv, SameNames
    <2>3. CASE UNCHANGED vars
      BY <2>1, <2>3 DEF vars, WalkInv, CallsFound
    <2> QED BY <2>2, <2>3
  <1>3. WalkInv => CallsFound
    BY DEF WalkInv
  <1> QED BY <1>1, <1>2, <1>3, PTL DEF Spec
=============================================================================
