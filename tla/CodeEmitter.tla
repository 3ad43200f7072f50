---------------------------- MODULE CodeEmitter ----------------------------
(***************************************************************************)
(* The code buffer of src/src/rtc_emit.c and the labels of                 *)
(* src/src/instructions.c: AVR words are collected in a RAM buffer; when it *)
(* is full, or a function ends, a peephole pass deletes every "PUSH R25..   *)
(* R22 POP R22..R25" from it, moves the labels that lie behind the deleted  *)
(* words, and hands the rest to the flash writer.                          *)
(*                                                                         *)
(* out is the code already handed over, the image that FlashLog keeps from  *)
(* CodeStart up to its cursor.  sent is a history variable: every word ever *)
(* emitted.  A word in the buffer carries the place it has in sent, and     *)
(* anchor the place in sent of the word a label was put in front of, which  *)
(* is what the code knows only as the program counter in block_pc.          *)
(***************************************************************************)
EXTENDS Integers, Sequences

CONSTANTS
    BufferSize,   \* RTC_CODEBUFFER_SIZE, in words
    Half,         \* the registers of a value: 4 PUSHes make a pair with 4 POPs
    Bare,         \* TRUE: the first function is compiled without a prologue
    MaxWords,     \* bound: the words emitted
    MaxLabels     \* bound: the labels made (MAX_JUMP_INSTRUCTION_NUM)

ASSUME EmitterAssumption ==
    /\ Half \in Nat \ {0} /\ BufferSize \in Nat \ {0}
    /\ MaxWords \in Nat /\ MaxLabels \in Nat /\ Bare \in BOOLEAN
    /\ 2 * (MaxWords + 1) < 65536

VARIABLES
    buffer,    \* code_buffer up to codebuffer_position
    out,       \* the words passed to wkreprog_write
    ts_pc,     \* ts.pc: the byte offset of the next word
    block_pc,  \* blct.block_pc: the byte offset of each label, 0 if not known
    next_id,   \* blct.next_id
    open,      \* blct.block_label up to blct.top: the labels of the open blocks
    todo,      \* the words of the instruction that is being emitted
    scan,      \* the loop index of rtc_optimise
    phase,     \* "emit", or "optimise" while the buffer is being flushed
    sent,      \* history: all words emitted
    anchor     \* history: the place in sent each label belongs to, 0 if not known

vars == <<buffer, out, ts_pc, block_pc, next_id, open, todo, scan, phase, sent, anchor>>

Label == 0 .. MaxLabels - 1
U16   == 65536

Push(r) == <<"push", r>>
Pop(r)  == <<"pop", r>>
Op      == <<"op", 0>>           \* any other instruction of one word
Jmp     == <<"jmp", 0>>          \* OPCODE_JMP
To(j)   == <<"label", j>>        \* its second word: the number of a label

\* emit_x_PUSH_32bit(R22), emit_x_POP_32bit(R22), and both one after the other:
\* the pattern of rtc_optimise.
PushGroup == [r \in 1 .. Half |-> Push(Half + 1 - r)]
PopGroup  == [r \in 1 .. Half |-> Pop(r)]
PairLen   == 2 * Half
Pair      == [k \in 1 .. PairLen |-> IF k <= Half THEN Push(Half + 1 - k) ELSE Pop(k - Half)]

Word == {Push(r) : r \in 1 .. Half} \cup {Pop(r) : r \in 1 .. Half}
            \cup {Op, Jmp} \cup {To(j) : j \in Label}

Code == out \o buffer

Init ==
    /\ buffer = <<>> /\ out = <<>> /\ ts_pc = 0
    /\ block_pc = [j \in Label |-> 0] /\ next_id = 0 /\ open = <<>>
    /\ todo = IF Bare THEN <<>> ELSE <<Op>>
    /\ scan = 0 /\ phase = "emit"
    /\ sent = <<>> /\ anchor = [j \in Label |-> 0]

Idle == phase = "emit" /\ todo = <<>>

\* Code already emitted jumps to the label j.
JumpedTo(j) == \E n \in 1 .. Len(sent) : sent[n] = To(j)

\* The label j was put between the halves of a pair.
Split(j) ==
    /\ anchor[j] \in 2 .. Len(sent)
    /\ sent[anchor[j] - 1] = Push(1) /\ sent[anchor[j]] = Pop(1)

\* A label that a jump which is taken may lead to.
Live(j) == (JumpedTo(j) \/ \E n \in 1 .. Len(open) : open[n] = j) /\ ~Split(j)

\* What the translator guarantees (Translator checks it on whole programs): no
\* jump that is ever taken leads between the halves of a pair.  A block does not
\* end in a push when it is jumped out of, for End_ pops what it leaves behind;
\* and only a branch out of a loop pops at once what was pushed in front of the
\* loop, so that the rest of the loop cannot be reached.
PopAllowed ==
    ~ \E j \in Label : /\ anchor[j] = Len(sent) + 1 /\ JumpedTo(j)
                       /\ Len(sent) > 0 /\ sent[Len(sent)] = Push(1)

\* The next instruction of the program is translated to the words ws.
Translate(ws) ==
    /\ Idle
    /\ Len(sent) + Len(ws) <= MaxWords
    /\ todo' = ws
    /\ UNCHANGED <<buffer, out, ts_pc, block_pc, next_id, open, scan, phase, sent, anchor>>

TranslatePop  == PopAllowed /\ Translate(PopGroup)
TranslateJump == \E n \in 1 .. Len(open) : ~Split(open[n]) /\ Translate(<<Jmp, To(open[n])>>)

\* The cases Block and Loop of emit_single_instruction.
StartBlock ==
    /\ Idle /\ next_id < MaxLabels
    /\ open' = Append(open, next_id)
    /\ block_pc' = [block_pc EXCEPT ![next_id] = 0]
    /\ next_id' = next_id + 1
    /\ UNCHANGED <<buffer, out, ts_pc, todo, scan, phase, sent, anchor>>

StartLoop ==
    /\ Idle /\ next_id < MaxLabels
    /\ open' = Append(open, next_id)
    /\ block_pc' = [block_pc EXCEPT ![next_id] = ts_pc]
    /\ anchor' = [anchor EXCEPT ![next_id] = Len(sent) + 1]
    /\ next_id' = next_id + 1
    /\ UNCHANGED <<buffer, out, ts_pc, todo, scan, phase, sent>>

\* The case End_ of a block: a label without an address is put here.
EndBlock ==
    /\ Idle /\ open # <<>>
    /\ LET j == open[Len(open)]
       IN  /\ block_pc' = IF block_pc[j] = 0 THEN [block_pc EXCEPT ![j] = ts_pc] ELSE block_pc
           /\ anchor' = IF anchor[j] = 0 THEN [anchor EXCEPT ![j] = Len(sent) + 1] ELSE anchor
    /\ open' = SubSeq(open, 1, Len(open) - 1)
    /\ UNCHANGED <<buffer, out, ts_pc, next_id, todo, scan, phase, sent>>

\* Mutant, not the code: the buffer is flushed one word too late.
EmitRawWordLate ==
    /\ phase = "emit" /\ todo # <<>>
    /\ sent' = Append(sent, Head(todo))
    /\ buffer' = Append(buffer, [word |-> Head(todo), at |-> Len(sent) + 1])
    /\ ts_pc' = ts_pc + 2
    /\ todo' = Tail(todo)
    /\ phase' = IF Len(buffer') > BufferSize THEN "optimise" ELSE "emit"
    /\ UNCHANGED <<out, block_pc, next_id, open, scan, anchor>>

\* emit_raw_word, one word at a time; a full buffer is flushed, which may fall
\* between the words of one instruction.
EmitRawWord ==
    /\ phase = "emit" /\ todo # <<>>
    /\ sent' = Append(sent, Head(todo))
    /\ buffer' = Append(buffer, [word |-> Head(todo), at |-> Len(sent) + 1])
    /\ ts_pc' = ts_pc + 2
    /\ todo' = Tail(todo)
    /\ phase' = IF Len(buffer') >= BufferSize THEN "optimise" ELSE "emit"
    /\ UNCHANGED <<out, block_pc, next_id, open, scan, anchor>>

\* compile_close at the end of a function: emit_flush_to_flash.
EndFunction ==
    /\ Idle /\ open = <<>> /\ buffer # <<>>
    /\ phase' = "optimise"
    /\ UNCHANGED <<buffer, out, ts_pc, block_pc, next_id, open, todo, scan, sent, anchor>>

\* Mutant, not the code: the POPs are not looked at.
PairAtPush(i) == \A k \in 1 .. Half : buffer[i + k].word = Pair[k]

\* A pair begins at index i of the buffer (i counts from 0 as in the code).
PairAt(i) == \A k \in 1 .. PairLen : buffer[i + k].word = Pair[k]

\* The address of the word at index i: int curr_pc in rtc_optimise.
curr_pc(i) == ts_pc - 2 * Len(buffer) + 2 * i

\* Mutant, not the code: one word too many is deleted.
WithoutNext(i) == SubSeq(buffer, 1, i) \o SubSeq(buffer, i + PairLen + 2, Len(buffer))

Without(i) == SubSeq(buffer, 1, i) \o SubSeq(buffer, i + PairLen + 1, Len(buffer))

\* Mutant, not the code: a label in front of the pair moves as well.
MovedToo(i) ==
    [j \in Label |-> IF j < next_id /\ block_pc[j] >= curr_pc(i)
                     THEN (block_pc[j] - 2 * PairLen) % U16 ELSE block_pc[j]]

\* The labels behind the pair at index i move to the front.
Moved(i) ==
    [j \in Label |-> IF j < next_id /\ block_pc[j] > curr_pc(i)
                     THEN (block_pc[j] - 2 * PairLen) % U16 ELSE block_pc[j]]

\* Mutant, not the code: ts.pc does not follow the deletion.
OptimiseStepKeepsPc ==
    /\ phase = "optimise" /\ scan < Len(buffer) - PairLen
    /\ IF PairAt(scan)
       THEN /\ buffer' = Without(scan)
            /\ block_pc' = Moved(scan)
       ELSE UNCHANGED <<buffer, block_pc>>
    /\ scan' = scan + 1
    /\ UNCHANGED <<out, ts_pc, next_id, open, todo, phase, sent, anchor>>

\* One iteration of the loop of rtc_optimise (the pair that ends the buffer is
\* never looked at: i < buffer_len - 8).
OptimiseStep ==
    /\ phase = "optimise" /\ scan < Len(buffer) - PairLen
    /\ IF PairAt(scan)
       THEN /\ buffer' = Without(scan)
            /\ block_pc' = Moved(scan)
            /\ ts_pc' = ts_pc - 2 * PairLen
       ELSE UNCHANGED <<buffer, block_pc, ts_pc>>
    /\ scan' = scan + 1
    /\ UNCHANGED <<out, next_id, open, todo, phase, sent, anchor>>

\* The end of emit_flush_to_flash: the buffer goes to the flash writer.
WriteOut ==
    /\ phase = "optimise" /\ scan >= Len(buffer) - PairLen
    /\ out' = out \o buffer
    /\ buffer' = <<>> /\ scan' = 0 /\ phase' = "emit"
    /\ UNCHANGED <<ts_pc, block_pc, next_id, open, todo, sent, anchor>>

Next ==
    \/ Translate(PushGroup)
    \/ TranslatePop
    \/ Translate(<<Op>>)
    \/ TranslateJump
    \/ StartBlock
    \/ StartLoop
    \/ EndBlock
    \/ EmitRawWord
    \/ EndFunction
    \/ OptimiseStep
    \/ WriteOut

Spec == Init /\ [][Next]_vars

-----------------------------------------------------------------------------
Placed == [word : Word, at : Nat]

\* The shape of the state.
TypeOK ==
    /\ buffer \in Seq(Placed) /\ Len(buffer) <= BufferSize
    /\ out \in Seq(Placed)
    /\ ts_pc \in Nat
    /\ block_pc \in [Label -> Nat] /\ anchor \in [Label -> Nat]
    /\ next_id \in 0 .. MaxLabels
    /\ open \in Seq(Label)
    /\ todo \in Seq(Word) /\ sent \in Seq(Word)
    /\ scan \in Nat /\ phase \in {"emit", "optimise"}

\* ts.pc is the offset at which the next word will really lie, through every
\* deletion and every flush; with it RTC_START_OF_COMPILED_CODE_SPACE + ts.pc
\* is wkreprog_get_raw_position plus what is still in the buffer.
PcTracksFlash == ts_pc = 2 * (Len(out) + Len(buffer))

\* A label somebody can jump to lies between the words that were emitted before
\* it was put down and those emitted after it, however many pairs have been
\* deleted in front of it.
LabelsFollowCode ==
    \A j \in Label : Live(j) /\ anchor[j] # 0 =>
        \A n \in 1 .. Len(Code) : 2 * n <= block_pc[j] <=> Code[n].at < anchor[j]

\* The deletions are exactly the pairs: the code is the sequence of words
\* emitted, in order, and what is missing between two neighbours is one or more
\* complete PUSH/POP pairs.
OnlyPairsDeleted ==
    \A n \in 1 .. Len(Code) :
        LET prev == IF n = 1 THEN 0 ELSE Code[n - 1].at
            gap  == Code[n].at - prev - 1
        IN  /\ Code[n].word = sent[Code[n].at]
            /\ gap >= 0 /\ gap % PairLen = 0
            /\ \A k \in 1 .. gap : sent[prev + k] = Pair[((k - 1) % PairLen) + 1]

\* What branch_pc_refill walks over: in the code in flash a JMP is always
\* followed by its label, even when the buffer was flushed between the two.
JumpsIntact ==
    \A n \in 1 .. Len(Code) - 1 :
        Code[n].word = Jmp <=> Code[n + 1].word \in {To(j) : j \in Label}
=============================================================================
