----------------------------- MODULE AsmEncoding -----------------------------
(***************************************************************************)
(* The encoders of src/include/asm.h and src/src/asm.c that the translator   *)
(* uses: each gives the word (a u16) it passes to emit, the groups at the    *)
(* end the sequence of words they pass one after the other.  Registers,      *)
(* constants and branch distances are uint8_t parameters, so that a larger   *)
(* argument loses its high byte.                                            *)
(***************************************************************************)
LOCAL INSTANCE Integers
LOCAL INSTANCE Sequences

LowByte(n) == n % 256

\* Some bits of n, moved to another place: the lowest of them counts unit in n
\* and place in the result, and they have values below range.
Field(n, unit, range, place) == ((n \div unit) % range) * place

Y   == 1
Z   == 0
RYL == 28
RYH == 29
RZL == 30
RZH == 31

makeSourceRegister(r)    == Field(r, 1, 16, 1) + Field(r, 16, 2, 512)
makeIN_OUTport(a)        == Field(a, 1, 16, 1) + Field(a, 16, 4, 512)
makeBranchOffset(offset) == Field(offset, 1, 128, 8)

makeLDDSTDoffset(offset) ==
    Field(offset, 1, 8, 1) + Field(offset, 8, 4, 1024) + Field(offset, 32, 2, 8192)

asm_opcodeWithSingleRegOperand(opcode, reg) == opcode + 16 * reg
asm_opcodeWithSrcAndDestRegOperand(opcode, destreg, srcreg) ==
    opcode + 16 * destreg + makeSourceRegister(srcreg)

emit_LDI_SBCI_SUBI_CPI(opcode, reg, constant) ==
    opcode + 16 * (reg - 16) + Field(constant, 1, 16, 1) + Field(constant, 16, 16, 256)
emit_BRANCH(opcode, offset) == opcode + makeBranchOffset(LowByte(offset) \div 2)

emit_ADC(d, r)   == asm_opcodeWithSrcAndDestRegOperand(7168, d, r)
emit_ADD(d, r)   == asm_opcodeWithSrcAndDestRegOperand(3072, d, r)
emit_ADIW(d, k)  == 38400 + 16 * ((d - 24) \div 2) + Field(k, 1, 16, 1) + Field(k, 16, 4, 64)
emit_AND(d, r)   == asm_opcodeWithSrcAndDestRegOperand(8192, d, r)
emit_ASR(d)      == asm_opcodeWithSingleRegOperand(37893, d)
emit_BREQ(k)     == emit_BRANCH(61441, k)
emit_BRGE(k)     == emit_BRANCH(62468, k)
emit_BRLT(k)     == emit_BRANCH(61444, k)
emit_BRNE(k)     == emit_BRANCH(62465, k)
emit_BRPL(k)     == emit_BRANCH(62466, k)
emit_BRCS(k)     == emit_BRANCH(61440, k)
emit_BRCC(k)     == emit_BRANCH(62464, k)
emit_BRMI(k)     == emit_BRANCH(61442, k)
OPCODE_CALL      == 37902
emit_2_CALL(f)   == <<OPCODE_CALL, f>>
emit_CP(d, r)    == asm_opcodeWithSrcAndDestRegOperand(5120, d, r)
emit_CPC(d, r)   == asm_opcodeWithSrcAndDestRegOperand(1024, d, r)
emit_DEC(d)      == asm_opcodeWithSingleRegOperand(37898, d)
emit_EOR(d, r)   == asm_opcodeWithSrcAndDestRegOperand(9216, d, r)
emit_IN(d, port) == 45056 + 16 * d + makeIN_OUTport(port)
OPCODE_JMP       == 37900
emit_LDD(d, yz, offset) == 32768 + 16 * d + 8 * yz + makeLDDSTDoffset(offset)
emit_LDI(d, k)   == emit_LDI_SBCI_SUBI_CPI(57344, d, LowByte(k))
emit_LSL(d)      == emit_ADD(d, d)
emit_LSR(d)      == asm_opcodeWithSingleRegOperand(37894, d)
emit_MOVW(d, r)  == asm_opcodeWithSrcAndDestRegOperand(256, d \div 2, r \div 2)
emit_OR(d, r)    == asm_opcodeWithSrcAndDestRegOperand(10240, d, r)
emit_OUT(port, r) == 47104 + 16 * r + makeIN_OUTport(port)
emit_PUSH(r)     == asm_opcodeWithSingleRegOperand(37391, r)
emit_POP(d)      == asm_opcodeWithSingleRegOperand(36879, d)

\* Mutant, not the code: the opcode of CALL.
emit_RETAsCall   == 37902

emit_RET         == 38152
emit_RJMP(k)     == 49152 + Field(k, 2, 4096, 1)
emit_ROL(d)      == emit_ADC(d, d)
emit_ROR(d)      == asm_opcodeWithSingleRegOperand(37895, d)
emit_SBC(d, r)   == asm_opcodeWithSrcAndDestRegOperand(2048, d, r)
emit_SBIW(d, k)  == 38656 + 16 * ((d - 24) \div 2) + Field(k, 1, 16, 1) + Field(k, 16, 4, 64)
emit_STD(r, yz, offset) == 33280 + 16 * r + 8 * yz + makeLDDSTDoffset(offset)
emit_SUB(d, r)   == asm_opcodeWithSrcAndDestRegOperand(6144, d, r)
emit_SUBI(d, k)  == emit_LDI_SBCI_SUBI_CPI(20480, d, LowByte(k))

-----------------------------------------------------------------------------
(* Groups.                                                                  *)

emit_x_PUSH_32bit(base) == [i \in 1 .. 4 |-> emit_PUSH(base + 4 - i)]
emit_x_POP_32bit(base)  == [i \in 1 .. 4 |-> emit_POP(base + i - 1)]
emit_x_POP_16bit(base)  == [i \in 1 .. 2 |-> emit_POP(base + i - 1)]

emit_x_call_save    == [i \in 1 .. 16 |-> emit_PUSH(1 + i)]

\* Mutant, not the code: in the order they were pushed.
emit_x_call_restoreForward == [i \in 1 .. 16 |-> emit_POP(1 + i)]

emit_x_call_restore == [i \in 1 .. 16 |-> emit_POP(18 - i)]

\* Y and SP move by numLocalBytes, whose low byte alone is added to Z from 60 on.
emit_local_init(numLocalBytes) ==
    <<emit_PUSH(28), emit_PUSH(29), emit_IN(28, 61), emit_IN(29, 62)>>
    \o (IF numLocalBytes >= 60
        THEN <<emit_LDI(RZL, numLocalBytes % 256), emit_LDI(RZH, (numLocalBytes \div 256) * 256),
               emit_SUB(RYL, RZL), emit_SBC(RYH, RZH)>>
        ELSE <<emit_SBIW(28, numLocalBytes)>>)
    \o <<emit_OUT(62, 29), emit_OUT(61, 28)>>

emit_local_deinit(numLocalBytes) ==
    (IF numLocalBytes >= 60
     THEN <<emit_LDI(RZL, numLocalBytes % 256), emit_LDI(RZH, (numLocalBytes \div 256) * 256),
            emit_ADD(RYL, RZL), emit_ADC(RYH, RZH)>>
     ELSE <<emit_ADIW(28, numLocalBytes)>>)
    \o <<emit_OUT(62, 29), emit_OUT(61, 28), emit_POP(29), emit_POP(28)>>
=============================================================================
