-------------------------- MODULE CodeEmitterProofs --------------------------
(***************************************************************************)
(* Proofs about the code buffer (CodeEmitter), for every buffer size, every *)
(* width of a PUSH/POP pair and any number of words and labels.             *)
(***************************************************************************)
EXTENDS CodeEmitter, SequenceTheorems, TLAPS

\* What the types and the program counter rest on: a buffer that is being
\* filled has room for a word, because emit_raw_word flushes a full one.
EmitterInv ==
    /\ TypeOK
    /\ PcTracksFlash
    /\ phase = "emit" => Len(buffer) < BufferSize

\* The words the translator asks for are words of the buffer.
LEMMA GroupWords ==
  /\ PushGroup \in Seq(Word) /\ PopGroup \in Seq(Word) /\ <<Op>> \in Seq(Word)
  /\ \A j \in Label : <<Jmp, To(j)>> \in Seq(Word)
  <1>1. Half \in Nat
    BY EmitterAssumption
  <1>2. \A r \in 1 .. Half : Push(Half + 1 - r) \in Word /\ Pop(r) \in Word
    <2> SUFFICES ASSUME NEW r \in 1 .. Half
                 PROVE  Push(Half + 1 - r) \in Word /\ Pop(r) \in Word
      OBVIOUS
    <2>1. Half + 1 - r \in 1 .. Half
      BY <1>1
    <2> QED BY <2>1 DEF Word
  <1>3. PushGroup \in Seq(Word)
    BY <1>1, <1>2 DEF PushGroup
  <1>4. PopGroup \in Seq(Word)
    BY <1>1, <1>2 DEF PopGroup
  <1>5. Op \in Word /\ Jmp \in Word /\ \A j \in Label : To(j) \in Word
    BY DEF Word
  <1> QED BY <1>3, <1>4, <1>5

\* The state at the start of a compilation.
LEMMA EmitterInit == Init => EmitterInv
  <1> SUFFICES ASSUME Init PROVE EmitterInv
    OBVIOUS
  <1>1. todo \in Seq(Word)
    BY GroupWords DEF Init
  <1> QED
    BY <1>1, EmitterAssumption DEF Init, EmitterInv, TypeOK, PcTracksFlash

\* An instruction is taken up: only the words that are to be emitted change.
LEMMA TranslateInv ==
  ASSUME EmitterInv, NEW ws \in Seq(Word), Translate(ws)
  PROVE  EmitterInv'
  BY DEF Translate, Idle, EmitterInv, TypeOK, PcTracksFlash

\* Block and Loop: the label made is one of blct.
LEMMA StartInv ==
  ASSUME EmitterInv, StartBlock \/ StartLoop
  PROVE  EmitterInv'
  <1>1. /\ next_id \in 0 .. MaxLabels /\ next_id < MaxLabels
        /\ open \in Seq(Label) /\ sent \in Seq(Word) /\ ts_pc \in Nat
        /\ block_pc \in [Label -> Nat] /\ anchor \in [Label -> Nat]
    BY DEF EmitterInv, TypeOK, StartBlock, StartLoop
  <1>2. next_id \in Label /\ next_id + 1 \in 0 .. MaxLabels
    BY <1>1, EmitterAssumption DEF Label
  <1>3. open' \in Seq(Label) /\ next_id' \in 0 .. MaxLabels
    <2>1. open' = Append(open, next_id) /\ next_id' = next_id + 1
      BY DEF StartBlock, StartLoop
    <2> QED BY <1>1, <1>2, <2>1
  <1>4. block_pc' \in [Label -> Nat] /\ anchor' \in [Label -> Nat]
    BY <1>1, SMTT(30) DEF StartBlock, StartLoop
  <1>5. UNCHANGED <<buffer, out, ts_pc, todo, scan, phase, sent>>
    BY DEF StartBlock, StartLoop
  <1> QED BY <1>3, <1>4, <1>5 DEF EmitterInv, TypeOK, PcTracksFlash

\* The End_ of a block puts its label down at ts.pc.
LEMMA EndBlockInv ==
  ASSUME EmitterInv, EndBlock
  PROVE  EmitterInv'
  <1>1. open \in Seq(Label) /\ open # <<>> /\ Len(sent) + 1 \in Nat
    BY DEF EmitterInv, TypeOK, EndBlock
  <1>2. open[Len(open)] \in Label /\ open' \in Seq(Label)
    BY <1>1 DEF EndBlock
  <1>3. block_pc' \in [Label -> Nat] /\ anchor' \in [Label -> Nat]
    BY <1>1, <1>2 DEF EndBlock, EmitterInv, TypeOK
  <1> QED BY <1>2, <1>3 DEF EndBlock, EmitterInv, TypeOK, PcTracksFlash

\* emit_raw_word: the program counter counts the word that goes to the buffer.
LEMMA EmitInv ==
  ASSUME EmitterInv, EmitRawWord
  PROVE  EmitterInv'
  <1>1. /\ todo \in Seq(Word) /\ todo # <<>> /\ sent \in Seq(Word)
        /\ buffer \in Seq(Placed) /\ Len(buffer) < BufferSize /\ ts_pc \in Nat
        /\ out \in Seq(Placed) /\ ts_pc = 2 * (Len(out) + Len(buffer))
    BY DEF EmitRawWord, EmitterInv, TypeOK, PcTracksFlash
  <1>2. Head(todo) \in Word /\ todo' \in Seq(Word) /\ Len(sent) + 1 \in Nat
    BY <1>1 DEF EmitRawWord
  <1>3. [word |-> Head(todo), at |-> Len(sent) + 1] \in Placed
    BY <1>2 DEF Placed
  <1>4. buffer' \in Seq(Placed) /\ Len(buffer') = Len(buffer) + 1 /\ sent' \in Seq(Word)
    BY <1>1, <1>2, <1>3 DEF EmitRawWord
  <1>5. Len(buffer') <= BufferSize
    BY <1>1, <1>4, EmitterAssumption
  <1>6. PcTracksFlash' /\ ts_pc' \in Nat
    BY <1>1, <1>4 DEF EmitRawWord, PcTracksFlash
  <1>7. /\ phase' \in {"emit", "optimise"}
        /\ phase' = "emit" => Len(buffer') < BufferSize
    BY <1>1, <1>4, EmitterAssumption DEF EmitRawWord
  <1> QED
    BY <1>2, <1>4, <1>5, <1>6, <1>7 DEF EmitRawWord, EmitterInv, TypeOK

\* The end of a function starts a flush.
LEMMA EndFunctionInv ==
  ASSUME EmitterInv, EndFunction
  PROVE  EmitterInv'
  BY DEF EndFunction, EmitterInv, TypeOK, PcTracksFlash

\* What remains of the buffer when the pair at index i is deleted.
LEMMA WithoutPair ==
  ASSUME NEW i \in Nat, buffer \in Seq(Placed), i < Len(buffer) - PairLen
  PROVE  /\ Without(i) \in Seq(Placed)
         /\ Len(Without(i)) = Len(buffer) - PairLen
  <1>1. PairLen \in Nat /\ PairLen > 0 /\ Len(buffer) \in Nat
    BY EmitterAssumption DEF PairLen
  <1> DEFINE before == SubSeq(buffer, 1, i)
             behind == SubSeq(buffer, i + PairLen + 1, Len(buffer))
  <1>2. before \in Seq(Placed) /\ Len(before) = i
    BY <1>1
  <1>3. behind \in Seq(Placed) /\ Len(behind) = Len(buffer) - i - PairLen
    <2>1. i + PairLen + 1 \in Int /\ i + PairLen + 1 <= Len(buffer)
      BY <1>1
    <2>2. \A k \in i + PairLen + 1 .. Len(buffer) : buffer[k] \in Placed
      BY <1>1
    <2>3. Len(behind) = Len(buffer) - (i + PairLen + 1) + 1 /\ behind \in Seq(Placed)
      BY <1>1, <2>1, <2>2, SubSeqProperties
    <2> QED BY <1>1, <2>3
  <1>4. Without(i) = before \o behind
    BY DEF Without
  <1> HIDE DEF before, behind
  <1>5. Without(i) \in Seq(Placed) /\ Len(Without(i)) = Len(before) + Len(behind)
    BY <1>2, <1>3, <1>4, ConcatProperties
  <1>6. Len(before) + Len(behind) = Len(buffer) - PairLen
    BY <1>1, <1>2, <1>3
  <1> QED BY <1>5, <1>6

\* One iteration of rtc_optimise: the program counter goes back by the bytes of
\* the pair that leaves the buffer.
LEMMA OptimiseInv ==
  ASSUME EmitterInv, OptimiseStep
  PROVE  EmitterInv'
  <1>1. /\ buffer \in Seq(Placed) /\ scan \in Nat /\ scan < Len(buffer) - PairLen
        /\ out \in Seq(Placed) /\ block_pc \in [Label -> Nat]
        /\ Len(buffer) <= BufferSize /\ phase = "optimise"
        /\ ts_pc = 2 * (Len(out) + Len(buffer))
    BY DEF OptimiseStep, EmitterInv, TypeOK, PcTracksFlash
  <1>2. PairLen \in Nat /\ Len(buffer) \in Nat /\ Len(out) \in Nat
    BY <1>1, EmitterAssumption DEF PairLen
  <1>3. CASE PairAt(scan)
    <2>1. buffer' = Without(scan) /\ ts_pc' = ts_pc - 2 * PairLen /\ block_pc' = Moved(scan)
      BY <1>3 DEF OptimiseStep
    <2>2. buffer' \in Seq(Placed) /\ Len(buffer') = Len(buffer) - PairLen
      BY <1>1, <2>1, WithoutPair
    <2>3. block_pc' \in [Label -> Nat]
      <3>1. \A j \in Label : (block_pc[j] - 2 * PairLen) % U16 \in Nat
        BY <1>1, <1>2 DEF U16
      <3> QED BY <1>1, <2>1, <3>1 DEF Moved
    <2>4. PcTracksFlash' /\ ts_pc' \in Nat
      BY <1>1, <1>2, <2>1, <2>2 DEF OptimiseStep, PcTracksFlash
    <2>5. Len(buffer') <= BufferSize
      BY <1>1, <1>2, <2>2, EmitterAssumption
    <2> QED
      BY <1>1, <2>2, <2>3, <2>4, <2>5, SMTT(30) DEF OptimiseStep, EmitterInv, TypeOK
  <1>4. CASE ~PairAt(scan)
    BY <1>1, <1>4 DEF OptimiseStep, EmitterInv, TypeOK, PcTracksFlash
  <1> QED BY <1>3, <1>4

\* The buffer goes to the flash writer, and the counter stays.
LEMMA WriteOutInv ==
  ASSUME EmitterInv, WriteOut
  PROVE  EmitterInv'
  <1>1. buffer \in Seq(Placed) /\ out \in Seq(Placed)
    BY DEF EmitterInv, TypeOK
  <1>2. out' \in Seq(Placed) /\ Len(out') = Len(out) + Len(buffer)
    BY <1>1 DEF WriteOut
  <1>3. buffer' \in Seq(Placed) /\ Len(buffer') = 0
    BY DEF WriteOut
  <1>4. Len(out) \in Nat /\ Len(buffer) \in Nat
    BY <1>1
  <1> QED
    BY <1>2, <1>3, <1>4, EmitterAssumption
       DEF WriteOut, EmitterInv, TypeOK, PcTracksFlash

\* Every step of the emitter preserves the invariant.
LEMMA EmitterNext == EmitterInv /\ [Next]_vars => EmitterInv'
  <1> SUFFICES ASSUME EmitterInv, [Next]_vars PROVE EmitterInv'
    OBVIOUS
  <1>1. ASSUME NEW ws \in {PushGroup, PopGroup, <<Op>>}, Translate(ws) PROVE EmitterInv'
    BY <1>1, GroupWords, TranslateInv
  <1>2. CASE TranslateJump
    <2>1. PICK n \in 1 .. Len(open) : Translate(<<Jmp, To(open[n])>>)
      BY <1>2 DEF TranslateJump
    <2>2. open[n] \in Label
      BY <2>1 DEF EmitterInv, TypeOK
    <2> QED BY <2>1, <2>2, GroupWords, TranslateInv
  <1>3. CASE UNCHANGED vars
    BY <1>3 DEF vars, EmitterInv, TypeOK, PcTracksFlash
  <1> QED
    BY <1>1, <1>2, <1>3, StartInv, EndBlockInv, EmitInv, EndFunctionInv, OptimiseInv,
       WriteOutInv DEF Next, TranslatePop

\* ts.pc of rtc_emit.c is the offset at which the next word will lie, through
\* every flush and every deletion of a pair, for buffers of any size.
THEOREM PcIsExact == Spec => []PcTracksFlash
  <1>1. EmitterInv => PcTracksFlash
    BY DEF EmitterInv
  <1> QED BY <1>1, EmitterInit, EmitterNext, PTL DEF Spec

\* The buffer is never overrun: its length stays within RTC_CODEBUFFER_SIZE,
\* and the state keeps its shape.
THEOREM EmitterTypes == Spec => []TypeOK
  <1>1. EmitterInv => TypeOK
    BY DEF EmitterInv
  <1> QED BY <1>1, EmitterInit, EmitterNext, PTL DEF Spec

-----------------------------------------------------------------------------
(* The deletions.  What follows is about any sequence c of words with their *)
(* places in a sequence s of all the words that were emitted.               *)

\* The place of the word n of the code, and 0 in front of it.
At(c, n) == IF n = 0 THEN 0 ELSE c[n].at

\* Between the word n of the code and the one in front of it nothing or one pair
\* was deleted: the scan goes on behind the word that closes the gap.
Gap(c, s, n) ==
    \/ c[n].at = At(c, n - 1) + 1
    \/ /\ c[n].at = At(c, n - 1) + PairLen + 1
       /\ \A k \in 1 .. PairLen : s[At(c, n - 1) + k] = Pair[k]

\* The code is the words emitted less some pairs, and from the word m on, up to
\* which rtc_optimise has looked, nothing is deleted yet.
Ordered(c, s, m) ==
    /\ m <= Len(c) /\ Len(c) <= Len(s)
    /\ \A n \in m .. Len(c) : At(c, n) = Len(s) - Len(c) + n
    /\ \A n \in 1 .. Len(c) :
         c[n].at \in 1 .. Len(s) /\ c[n].word = s[c[n].at] /\ Gap(c, s, n)

\* The invariant of the peephole pass.
OrderInv ==
    /\ EmitterInv
    /\ scan <= Len(buffer) /\ (phase = "emit" => scan = 0)
    /\ Ordered(Code, sent, Len(out) + scan)

\* A pair is PUSHes and then POPs.
LEMMA PairFacts ==
  /\ PairLen \in Nat /\ PairLen >= 2 /\ Half \in Nat /\ Half >= 1 /\ PairLen = 2 * Half
  /\ \A k \in 1 .. Half : Pair[k] = Push(Half + 1 - k)
  /\ \A k \in Half + 1 .. PairLen : Pair[k] = Pop(k - Half)
  BY EmitterAssumption DEF PairLen, Pair

\* A word that is emitted is appended to the code and to what was emitted.
LEMMA OrderedAppend ==
  ASSUME NEW c \in Seq(Placed), NEW s \in Seq(Word), NEW m \in Nat, NEW w \in Word, Ordered(c, s, m)
  PROVE  Ordered(Append(c, [word |-> w, at |-> Len(s) + 1]), Append(s, w), m)
  <1> DEFINE e == [word |-> w, at |-> Len(s) + 1]
             d == Append(c, e)
             t == Append(s, w)
  <1>1. Len(c) \in Nat /\ Len(s) \in Nat
    OBVIOUS
  <1>2. /\ Len(d) = Len(c) + 1 /\ d[Len(c) + 1] = e
        /\ \A n \in 1 .. Len(c) : d[n] = c[n]
    BY <1>1
  <1>3. /\ Len(t) = Len(s) + 1 /\ t[Len(s) + 1] = w
        /\ \A n \in 1 .. Len(s) : t[n] = s[n]
    BY <1>1
  <1>4. e.at = Len(s) + 1 /\ e.word = w
    OBVIOUS
  <1> HIDE DEF e, d, t
  <1>5. \A n \in 0 .. Len(c) : At(d, n) = At(c, n)
    BY <1>1, <1>2 DEF At
  <1>6. m <= Len(c) /\ Len(c) <= Len(s) /\ At(c, Len(c)) = Len(s)
    BY <1>1 DEF Ordered
  <1>7. \A n \in m .. Len(d) : At(d, n) = Len(t) - Len(d) + n
    <2> SUFFICES ASSUME NEW n \in m .. Len(d) PROVE At(d, n) = Len(t) - Len(d) + n
      OBVIOUS
    <2>1. CASE n = Len(c) + 1
      <3>1. At(d, n) = Len(s) + 1
        BY <2>1, <1>1, <1>2, <1>4 DEF At
      <3> QED BY <3>1, <2>1, <1>1, <1>2, <1>3
    <2>2. CASE n # Len(c) + 1
      <3>1. n \in m .. Len(c) /\ n \in 0 .. Len(c)
        BY <2>2, <1>1, <1>2
      <3>2. At(c, n) = Len(s) - Len(c) + n
        BY <3>1 DEF Ordered
      <3> QED BY <3>1, <3>2, <1>1, <1>2, <1>3, <1>5
    <2> QED BY <2>1, <2>2
  <1>8. ASSUME NEW n \in 1 .. Len(d)
        PROVE  d[n].at \in 1 .. Len(t) /\ d[n].word = t[d[n].at] /\ Gap(d, t, n)
    <2>1. CASE n = Len(c) + 1
      <3>1. d[n].at = Len(s) + 1 /\ d[n].word = w
        BY <2>1, <1>2, <1>4
      <3>2. At(d, n - 1) = Len(s)
        BY <2>1, <1>1, <1>5, <1>6
      <3> QED BY <3>1, <3>2, <1>1, <1>3 DEF Gap
    <2>2. CASE n # Len(c) + 1
      <3>1. n \in 1 .. Len(c) /\ n - 1 \in 0 .. Len(c)
        BY <2>2, <1>1, <1>2
      <3>2. d[n] = c[n] /\ At(d, n - 1) = At(c, n - 1)
        BY <3>1, <1>2, <1>5
      <3>3. c[n].at \in 1 .. Len(s) /\ c[n].word = s[c[n].at] /\ Gap(c, s, n)
        BY <3>1 DEF Ordered
      <3>4. d[n].at \in 1 .. Len(t) /\ d[n].word = t[d[n].at]
        BY <3>2, <3>3, <1>1, <1>3
      <3>5. CASE c[n].at = At(c, n - 1) + 1
        BY <3>2, <3>4, <3>5 DEF Gap
      <3>6. CASE c[n].at = At(c, n - 1) + PairLen + 1 /\ \A k \in 1 .. PairLen : s[At(c, n - 1) + k] = Pair[k]
        <4>1. At(c, n - 1) \in Nat
          <5>1. CASE n = 1
            BY <5>1 DEF At
          <5>2. CASE n # 1
            <6>1. n - 1 \in 1 .. Len(c)
              BY <3>1, <5>2, <1>1
            <6>2. c[n - 1].at \in 1 .. Len(s)
              BY <6>1 DEF Ordered
            <6> QED BY <6>1, <6>2, <1>1 DEF At
          <5> QED BY <5>1, <5>2
        <4>2. \A k \in 1 .. PairLen : At(c, n - 1) + k \in 1 .. Len(s)
          <5> DEFINE p == At(c, n - 1)
          <5>1. p \in Nat /\ p + PairLen + 1 \in 1 .. Len(s) /\ PairLen \in Nat
            BY <4>1, <3>3, <3>6, PairFacts
          <5> HIDE DEF p
          <5>2. \A k \in 1 .. PairLen : p + k \in 1 .. Len(s)
            BY <5>1, <1>1
          <5> QED BY <5>2 DEF p
        <4>3. \A k \in 1 .. PairLen : t[At(d, n - 1) + k] = Pair[k]
          BY <4>2, <3>2, <3>6, <1>3
        <4> QED BY <4>3, <3>2, <3>4, <3>6 DEF Gap
      <3> QED BY <3>3, <3>5, <3>6 DEF Gap
    <2> QED BY <2>1, <2>2
  <1>9. Ordered(d, t, m)
    BY <1>1, <1>2, <1>3, <1>6, <1>7, <1>8 DEF Ordered
  <1> QED BY <1>9 DEF d, t, e

\* A pair that is deleted behind the word m closes on one word.
LEMMA OrderedDelete ==
  ASSUME NEW c \in Seq(Placed), NEW d \in Seq(Placed), NEW s \in Seq(Word), NEW m \in Nat,
         Ordered(c, s, m), m + PairLen < Len(c),
         \A k \in 1 .. PairLen : c[m + k].word = Pair[k],
         Len(d) = Len(c) - PairLen,
         \A n \in 1 .. Len(d) : d[n] = IF n <= m THEN c[n] ELSE c[n + PairLen]
  PROVE  Ordered(d, s, m + 1)
  <1>1. /\ Len(c) \in Nat /\ Len(s) \in Nat /\ Len(d) \in Nat /\ m < Len(d)
        /\ Len(c) <= Len(s) /\ Len(d) <= Len(s)
    BY PairFacts, SMTT(30) DEF Ordered
  <1>2. \A n \in m .. Len(c) : At(c, n) = Len(s) - Len(c) + n
    BY DEF Ordered
  <1>3. \A n \in 0 .. m : At(d, n) = At(c, n)
    <2>1. \A n \in 1 .. m : d[n] = c[n]
      BY <1>1
    <2> QED BY <2>1 DEF At
  <1>4. \A n \in m + 1 .. Len(d) : d[n] = c[n + PairLen] /\ At(d, n) = At(c, n + PairLen)
    <2>1. \A n \in m + 1 .. Len(d) : d[n] = c[n + PairLen]
      BY <1>1
    <2> QED BY <2>1, <1>1, PairFacts DEF At
  <1>5. \A n \in m + 1 .. Len(d) : At(d, n) = Len(s) - Len(d) + n
    <2> SUFFICES ASSUME NEW n \in m + 1 .. Len(d) PROVE At(d, n) = Len(s) - Len(d) + n
      OBVIOUS
    <2>1. n + PairLen \in m .. Len(c)
      BY <1>1, PairFacts
    <2>2. At(c, n + PairLen) = Len(s) - Len(c) + (n + PairLen)
      BY <2>1, <1>2
    <2> QED BY <2>2, <1>1, <1>4, PairFacts, SMTT(30)
  <1>6. \A n \in 1 .. Len(c) : c[n].at \in 1 .. Len(s) /\ c[n].word = s[c[n].at] /\ Gap(c, s, n)
    BY DEF Ordered
  <1>7. ASSUME NEW n \in 1 .. Len(d)
        PROVE  d[n].at \in 1 .. Len(s) /\ d[n].word = s[d[n].at] /\ Gap(d, s, n)
    <2>1. CASE n <= m
      <3>1. d[n] = c[n] /\ At(d, n - 1) = At(c, n - 1) /\ n \in 1 .. Len(c)
        BY <2>1, <1>1, <1>3, PairFacts
      <3> QED BY <3>1, <1>6 DEF Gap
    <2>2. CASE n > m
      <3>1. n \in m + 1 .. Len(d) /\ n + PairLen \in 1 .. Len(c)
        BY <2>2, <1>1, PairFacts
      <3>2. d[n] = c[n + PairLen]
        BY <3>1, <1>4
      <3>3. d[n].at \in 1 .. Len(s) /\ d[n].word = s[d[n].at]
        BY <3>1, <3>2, <1>6
      <3>4. d[n].at = Len(s) - Len(d) + n
        <4>1. At(d, n) = Len(s) - Len(d) + n
          BY <3>1, <1>5
        <4>2. n # 0
          OBVIOUS
        <4> QED BY <4>1, <4>2 DEF At
      <3>5. CASE n = m + 1
        <4>1. At(d, n - 1) = Len(s) - Len(c) + m
          <5>1. n - 1 = m /\ m \in 0 .. m /\ m \in m .. Len(c)
            BY <3>5, <1>1, PairFacts
          <5> QED BY <5>1, <1>2, <1>3
        <4>2. d[n].at = At(d, n - 1) + PairLen + 1
          BY <4>1, <3>4, <3>5, <1>1, PairFacts
        <4>3. ASSUME NEW k \in 1 .. PairLen
              PROVE  s[At(d, n - 1) + k] = Pair[k]
          <5>1. m + k \in 1 .. Len(c) /\ m + k \in m .. Len(c) /\ m + k # 0
            BY <1>1, PairFacts
          <5>2. At(c, m + k) = Len(s) - Len(c) + (m + k)
            BY <5>1, <1>2
          <5>3. c[m + k].at = Len(s) - Len(c) + (m + k)
            BY <5>1, <5>2 DEF At
          <5>4. c[m + k].at = At(d, n - 1) + k
            BY <5>3, <4>1, <1>1, PairFacts
          <5>5. c[m + k].word = s[c[m + k].at]
            BY <5>1, <1>6
          <5> QED BY <5>4, <5>5
        <4> QED BY <4>2, <4>3, <3>3 DEF Gap
      <3>6. CASE n # m + 1
        <4>1. n - 1 \in m + 1 .. Len(d)
          BY <3>1, <3>6, <1>1
        <4>2. At(d, n - 1) = Len(s) - Len(d) + (n - 1)
          BY <4>1, <1>5
        <4> QED BY <4>2, <3>3, <3>4, <1>1 DEF Gap
      <3> QED BY <3>5, <3>6
    <2> QED BY <2>1, <2>2
  <1> QED BY <1>1, <1>5, <1>7 DEF Ordered

\* What the code is: out, then the buffer.
LEMMA CodeWords ==
  ASSUME EmitterInv
  PROVE  /\ Code \in Seq(Placed) /\ Len(Code) = Len(out) + Len(buffer)
         /\ Len(out) \in Nat /\ Len(buffer) \in Nat
         /\ \A n \in 1 .. Len(Code) : Code[n] = IF n <= Len(out) THEN out[n] ELSE buffer[n - Len(out)]
  <1>1. out \in Seq(Placed) /\ buffer \in Seq(Placed)
    BY DEF EmitterInv, TypeOK
  <1> QED BY <1>1, ConcatProperties, LenProperties DEF Code

\* emit_raw_word appends to the code.
LEMMA CodeEmitted ==
  ASSUME EmitterInv, EmitRawWord
  PROVE  Code' = Append(Code, [word |-> Head(todo), at |-> Len(sent) + 1])
  <1> DEFINE e == [word |-> Head(todo), at |-> Len(sent) + 1]
  <1>1. /\ todo \in Seq(Word) /\ todo # <<>> /\ sent \in Seq(Word)
        /\ out \in Seq(Placed) /\ buffer \in Seq(Placed)
    BY DEF EmitterInv, TypeOK, EmitRawWord
  <1>2. e \in Placed
    BY <1>1 DEF Placed
  <1>3. buffer' = Append(buffer, e) /\ out' = out
    BY DEF EmitRawWord
  <1> HIDE DEF e
  <1>4. Append(buffer, e) = buffer \o <<e>> /\ <<e>> \in Seq(Placed)
    BY <1>1, <1>2, AppendIsConcat
  <1>5. out \o (buffer \o <<e>>) = (out \o buffer) \o <<e>>
    BY <1>1, <1>4, ConcatAssociative
  <1>6. (out \o buffer) \o <<e>> = Append(out \o buffer, e)
    BY <1>1, <1>2, AppendIsConcat, ConcatProperties
  <1> QED BY <1>3, <1>4, <1>5, <1>6 DEF Code, e

\* What is left of the buffer, word by word.
LEMMA WithoutWords ==
  ASSUME NEW i \in Nat, buffer \in Seq(Placed), i < Len(buffer) - PairLen
  PROVE  \A n \in 1 .. Len(buffer) - PairLen :
            Without(i)[n] = IF n <= i THEN buffer[n] ELSE buffer[n + PairLen]
  <1>1. PairLen \in Nat /\ PairLen > 0 /\ Len(buffer) \in Nat
    BY PairFacts
  <1> DEFINE before == SubSeq(buffer, 1, i)
             behind == SubSeq(buffer, i + PairLen + 1, Len(buffer))
  <1>2. before \in Seq(Placed) /\ Len(before) = i /\ \A n \in 1 .. i : before[n] = buffer[n]
    <2>1. \A k \in 1 .. i : buffer[k] \in Placed
      BY <1>1
    <2>2. /\ before \in Seq(Placed) /\ Len(before) = IF 1 <= i THEN i - 1 + 1 ELSE 0
          /\ \A n \in 1 .. i - 1 + 1 : before[n] = buffer[1 + n - 1]
      BY <2>1, <1>1, SubSeqProperties
    <2> HIDE DEF before
    <2> QED BY <2>2
  <1>3. /\ behind \in Seq(Placed) /\ Len(behind) = Len(buffer) - i - PairLen
        /\ \A n \in 1 .. Len(buffer) - i - PairLen : behind[n] = buffer[i + PairLen + n]
    <2>1. i + PairLen + 1 \in Int /\ i + PairLen + 1 <= Len(buffer)
      BY <1>1
    <2>2. \A k \in i + PairLen + 1 .. Len(buffer) : buffer[k] \in Placed
      BY <1>1
    <2>3. /\ Len(behind) = Len(buffer) - (i + PairLen + 1) + 1 /\ behind \in Seq(Placed)
          /\ \A n \in 1 .. Len(buffer) - (i + PairLen + 1) + 1 : behind[n] = buffer[(i + PairLen + 1) + n - 1]
      BY <1>1, <2>1, <2>2, SubSeqProperties
    <2> HIDE DEF behind
    <2>4. \A n \in 1 .. Len(buffer) - i - PairLen : (i + PairLen + 1) + n - 1 = i + PairLen + n
      BY <1>1
    <2> QED BY <1>1, <2>3, <2>4
  <1>4. Without(i) = before \o behind
    BY DEF Without
  <1> HIDE DEF before, behind
  <1>5. \A n \in 1 .. Len(before) + Len(behind) :
          Without(i)[n] = IF n <= Len(before) THEN before[n] ELSE behind[n - Len(before)]
    BY <1>2, <1>3, <1>4, ConcatProperties
  <1> SUFFICES ASSUME NEW n \in 1 .. Len(buffer) - PairLen
               PROVE  Without(i)[n] = IF n <= i THEN buffer[n] ELSE buffer[n + PairLen]
    OBVIOUS
  <1>6. Without(i)[n] = IF n <= i THEN before[n] ELSE behind[n - i]
    BY <1>1, <1>2, <1>3, <1>5
  <1>7. CASE n <= i
    BY <1>2, <1>6, <1>7
  <1>8. CASE ~(n <= i)
    <2>1. n - i \in 1 .. Len(buffer) - i - PairLen /\ i + PairLen + (n - i) = n + PairLen
      BY <1>1, <1>8
    <2> QED BY <2>1, <1>3, <1>6, <1>8
  <1> QED BY <1>7, <1>8

\* A deletion takes the pair out of the code, behind the words already looked at.
LEMMA CodeDeleted ==
  ASSUME EmitterInv, OptimiseStep, PairAt(scan)
  PROVE  /\ Len(out) + scan \in Nat /\ (Len(out) + scan) + PairLen < Len(Code)
         /\ \A k \in 1 .. PairLen : Code[(Len(out) + scan) + k].word = Pair[k]
         /\ Code' \in Seq(Placed) /\ Len(Code') = Len(Code) - PairLen
         /\ \A n \in 1 .. Len(Code') :
              Code'[n] = IF n <= Len(out) + scan THEN Code[n] ELSE Code[n + PairLen]
  <1>1. /\ buffer \in Seq(Placed) /\ out \in Seq(Placed) /\ scan \in Nat
        /\ scan < Len(buffer) - PairLen /\ buffer' = Without(scan) /\ out' = out
    BY DEF OptimiseStep, EmitterInv, TypeOK
  <1>2. PairLen \in Nat /\ PairLen > 0 /\ Len(buffer) \in Nat /\ Len(out) \in Nat
    BY <1>1, PairFacts
  <1>3. /\ Len(Code) = Len(out) + Len(buffer)
        /\ \A n \in 1 .. Len(Code) : Code[n] = IF n <= Len(out) THEN out[n] ELSE buffer[n - Len(out)]
    BY CodeWords
  <1> DEFINE b == Without(scan)
  <1>4. /\ b \in Seq(Placed) /\ Len(b) = Len(buffer) - PairLen
        /\ \A n \in 1 .. Len(buffer) - PairLen : b[n] = IF n <= scan THEN buffer[n] ELSE buffer[n + PairLen]
    BY <1>1, WithoutPair, WithoutWords
  <1> HIDE DEF b
  <1>5. Code' = out \o b
    BY <1>1 DEF Code, b
  <1>6. /\ Code' \in Seq(Placed) /\ Len(Code') = Len(out) + Len(b)
        /\ \A n \in 1 .. Len(out) + Len(b) : Code'[n] = IF n <= Len(out) THEN out[n] ELSE b[n - Len(out)]
    BY <1>1, <1>4, <1>5, ConcatProperties
  <1>7. ASSUME NEW k \in 1 .. PairLen
        PROVE  Code[(Len(out) + scan) + k].word = Pair[k]
    <2>1. /\ (Len(out) + scan) + k \in 1 .. Len(Code) /\ ~((Len(out) + scan) + k <= Len(out))
          /\ ((Len(out) + scan) + k) - Len(out) = scan + k
      BY <1>1, <1>2, <1>3
    <2>2. Code[(Len(out) + scan) + k] = buffer[scan + k]
      BY <2>1, <1>3
    <2> QED BY <2>2 DEF PairAt
  <1>8. ASSUME NEW n \in 1 .. Len(Code')
        PROVE  Code'[n] = IF n <= Len(out) + scan THEN Code[n] ELSE Code[n + PairLen]
    <2>1. CASE n <= Len(out)
      <3>1. Code'[n] = out[n] /\ Code[n] = out[n] /\ n <= Len(out) + scan
        <4>1. n \in 1 .. Len(Code) /\ n \in 1 .. Len(out) + Len(b) /\ n <= Len(out) + scan
          BY <2>1, <1>1, <1>2, <1>3, <1>6
        <4>2. Code[n] = out[n]
          BY <4>1, <2>1, <1>3
        <4>3. Code'[n] = out[n]
          BY <4>1, <2>1, <1>6
        <4> QED BY <4>1, <4>2, <4>3
      <3> QED BY <3>1
    <2>2. CASE n > Len(out)
      <3>1. n - Len(out) \in 1 .. Len(buffer) - PairLen
        BY <2>2, <1>2, <1>4, <1>6
      <3>2. Code'[n] = b[n - Len(out)]
        BY <2>2, <1>2, <1>6
      <3>3. CASE n <= Len(out) + scan
        <4>1. n - Len(out) <= scan /\ n \in 1 .. Len(Code) /\ ~(n <= Len(out))
          BY <2>2, <3>1, <3>3, <1>1, <1>2, <1>3
        <4> QED BY <4>1, <3>1, <3>2, <3>3, <1>3, <1>4
      <3>4. CASE n > Len(out) + scan
        <4>1. /\ ~(n - Len(out) <= scan) /\ n + PairLen \in 1 .. Len(Code) /\ ~(n + PairLen <= Len(out))
              /\ (n + PairLen) - Len(out) = (n - Len(out)) + PairLen /\ ~(n <= Len(out) + scan)
          BY <2>2, <3>1, <3>4, <1>1, <1>2, <1>3, SMTT(30)
        <4> QED BY <4>1, <3>1, <3>2, <1>3, <1>4
      <3> QED BY <3>3, <3>4, <1>1, <1>2
    <2> QED BY <2>1, <2>2, <1>2
  <1> QED BY <1>1, <1>2, <1>3, <1>4, <1>6, <1>7, <1>8

\* At the start nothing is emitted.
LEMMA OrderInit == Init => OrderInv
  <1> SUFFICES ASSUME Init PROVE OrderInv
    OBVIOUS
  <1>1. EmitterInv
    BY EmitterInit
  <1>2. out = <<>> /\ buffer = <<>> /\ sent = <<>> /\ scan = 0
    BY DEF Init
  <1>3. Len(Code) = 0
    BY <1>1, <1>2, CodeWords
  <1>4. Ordered(Code, sent, 0)
    BY <1>2, <1>3 DEF Ordered, At
  <1>5. Len(out) + scan = 0 /\ scan <= Len(buffer)
    BY <1>2
  <1> QED BY <1>1, <1>2, <1>4, <1>5 DEF OrderInv

\* A step that leaves the code, what was emitted and the scan alone.
LEMMA OrderSame ==
  ASSUME OrderInv, EmitterInv', UNCHANGED <<out, buffer, sent, scan>>, phase' = "emit" => phase = "emit"
  PROVE  OrderInv' /\ Code' = Code
  BY DEF OrderInv, Code

\* Every step keeps the order of the code.
LEMMA OrderNext == OrderInv /\ [Next]_vars => OrderInv'
  <1> SUFFICES ASSUME OrderInv, [Next]_vars PROVE OrderInv'
    OBVIOUS
  <1>1. EmitterInv /\ EmitterInv' /\ Ordered(Code, sent, Len(out) + scan)
    BY EmitterNext DEF OrderInv
  <1>2. /\ Code \in Seq(Placed) /\ Len(Code) = Len(out) + Len(buffer)
        /\ Len(out) \in Nat /\ Len(buffer) \in Nat
    BY <1>1, CodeWords
  <1>3. scan \in Nat /\ sent \in Seq(Word) /\ todo \in Seq(Word)
    BY <1>1 DEF EmitterInv, TypeOK
  <1>4. CASE EmitRawWord
    <2>1. scan = 0 /\ scan' = 0 /\ out' = out /\ Len(buffer') = Len(buffer) + 1
      <3>1. buffer \in Seq(Placed) /\ Head(todo) \in Word
        BY <1>1, <1>3, <1>4 DEF EmitRawWord, EmitterInv, TypeOK
      <3>2. [word |-> Head(todo), at |-> Len(sent) + 1] \in Placed
        BY <3>1, <1>3 DEF Placed
      <3> QED BY <3>1, <3>2, <1>4, AppendProperties DEF EmitRawWord, OrderInv
    <2>2. Head(todo) \in Word /\ sent' = Append(sent, Head(todo))
      BY <1>3, <1>4 DEF EmitRawWord
    <2>3. Ordered(Code', sent', Len(out) + scan)
      <3>1. Len(out) + scan \in Nat /\ Head(todo) \in Word
        BY <1>2, <1>3, <2>2
      <3>2. Ordered(Append(Code, [word |-> Head(todo), at |-> Len(sent) + 1]),
                    Append(sent, Head(todo)), Len(out) + scan)
        BY <3>1, <1>1, <1>2, <1>3, OrderedAppend
      <3> QED BY <3>2, <2>2, <1>1, <1>4, CodeEmitted
    <2> QED BY <1>1, <1>2, <2>1, <2>3 DEF OrderInv
  <1>5. CASE OptimiseStep
    <2>1. /\ scan' = scan + 1 /\ out' = out /\ sent' = sent /\ phase' = "optimise"
          /\ scan < Len(buffer) - PairLen
      BY <1>5 DEF OptimiseStep
    <2>2. CASE PairAt(scan)
      <3>1. Ordered(Code', sent, (Len(out) + scan) + 1)
        BY <1>1, <1>2, <1>3, <1>5, <2>2, CodeDeleted, OrderedDelete
      <3>2. Len(buffer') = Len(buffer) - PairLen
        BY <1>1, <1>3, <1>5, <2>1, <2>2, WithoutPair DEF OptimiseStep, EmitterInv, TypeOK
      <3>3. (Len(out) + scan) + 1 = Len(out') + scan'
        BY <2>1, <1>2, <1>3
      <3>4. scan' <= Len(buffer')
        BY <2>1, <3>2, <1>2, <1>3, PairFacts
      <3> QED BY <1>1, <2>1, <3>1, <3>3, <3>4 DEF OrderInv
    <2>3. CASE ~PairAt(scan)
      <3>1. Code' = Code /\ buffer' = buffer
        BY <1>5, <2>3 DEF OptimiseStep, Code
      <3>2. Len(out') + scan' <= Len(Code) /\ scan' <= Len(buffer)
        BY <2>1, <1>2, <1>3, PairFacts
      <3>3. Ordered(Code, sent, Len(out') + scan')
        BY <3>2, <2>1, <1>1, <1>2, <1>3 DEF Ordered
      <3> QED BY <1>1, <2>1, <3>1, <3>2, <3>3 DEF OrderInv
    <2> QED BY <2>2, <2>3
  <1>6. CASE WriteOut
    <2>1. /\ out' = Code /\ buffer' = <<>> /\ scan' = 0 /\ sent' = sent /\ phase' = "emit"
      BY <1>6 DEF WriteOut, Code
    <2>2. Code' = Code
      BY <2>1, <1>2, ConcatEmptySeq DEF Code
    <2>3. Len(out) + scan <= Len(Code) /\ Len(out') + scan' = Len(Code)
      BY <1>1, <1>2, <2>1 DEF Ordered
    <2>4. Ordered(Code, sent, Len(Code))
      BY <2>3, <1>1, <1>2, <1>3 DEF Ordered
    <2> QED BY <1>1, <2>1, <2>2, <2>3, <2>4 DEF OrderInv
  <1>7. CASE UNCHANGED <<out, buffer, sent, scan>> /\ (phase' = "emit" => phase = "emit")
    BY <1>1, <1>7, OrderSame
  <1>8. CASE UNCHANGED vars
    BY <1>7, <1>8 DEF vars
  <1> QED
    BY <1>4, <1>5, <1>6, <1>7, <1>8 DEF Next, Translate, TranslatePop, TranslateJump, StartBlock,
       StartLoop, EndBlock, EndFunction

\* A gap of one pair is what OnlyPairsDeleted allows.
LEMMA GapsArePairs == OrderInv => OnlyPairsDeleted
  <1> SUFFICES ASSUME OrderInv, NEW n \in 1 .. Len(Code)
               PROVE  LET prev == IF n = 1 THEN 0 ELSE Code[n - 1].at
                          gap  == Code[n].at - prev - 1
                      IN  /\ Code[n].word = sent[Code[n].at]
                          /\ gap >= 0 /\ gap % PairLen = 0
                          /\ \A k \in 1 .. gap : sent[prev + k] = Pair[((k - 1) % PairLen) + 1]
    BY DEF OnlyPairsDeleted
  <1> DEFINE prev == IF n = 1 THEN 0 ELSE Code[n - 1].at
             gap  == Code[n].at - prev - 1
  <1>1. /\ Code[n].at \in 1 .. Len(sent) /\ Code[n].word = sent[Code[n].at] /\ Gap(Code, sent, n)
        /\ Len(Code) \in Nat /\ Len(sent) \in Nat
    BY CodeWords DEF OrderInv, Ordered, EmitterInv, TypeOK
  <1>2. prev = At(Code, n - 1) /\ prev \in Nat
    <2>1. n # 1 => n - 1 \in 1 .. Len(Code) /\ n - 1 # 0
      BY <1>1
    <2>2. n # 1 => Code[n - 1].at \in 1 .. Len(sent)
      BY <2>1 DEF OrderInv, Ordered
    <2> QED BY <2>1, <2>2, <1>1 DEF At
  <1>3. PairLen \in Nat /\ PairLen > 0
    BY PairFacts
  <1> HIDE DEF prev
  <1>4. CASE Code[n].at = prev + 1
    <2>1. gap = 0
      BY <1>2, <1>4
    <2>2. 0 % PairLen = 0
      BY <1>3
    <2> QED BY <2>1, <2>2, <1>1 DEF prev
  <1>5. CASE Code[n].at = prev + PairLen + 1 /\ \A k \in 1 .. PairLen : sent[prev + k] = Pair[k]
    <2>1. gap = PairLen
      BY <1>2, <1>3, <1>5
    <2>2. PairLen % PairLen = 0 /\ \A k \in 1 .. PairLen : ((k - 1) % PairLen) + 1 = k
      BY <1>3
    <2> QED BY <2>1, <2>2, <1>1, <1>3, <1>5 DEF prev
  <1> QED BY <1>1, <1>2, <1>4, <1>5 DEF Gap

\* OnlyPairsDeleted: the code is the words emitted, in order, less complete pairs,
\* for buffers and pairs of any size.
THEOREM PeepholeDeletesPairs == Spec => []OnlyPairsDeleted
  BY OrderInit, OrderNext, GapsArePairs, PTL DEF Spec

-----------------------------------------------------------------------------
(* The jumps.                                                               *)

\* The second words of the jumps.
Tos == {To(j) : j \in Label}

\* What was emitted and what the instruction at hand still has to emit.
Stream == sent \o todo

\* In a sequence of words every OPCODE_JMP is followed by a label, which stands
\* nowhere else.
JumpsPaired(t) ==
    /\ \A n \in 1 .. Len(t) - 1 : t[n] = Jmp <=> t[n + 1] \in Tos
    /\ t # <<>> => t[Len(t)] # Jmp /\ t[1] \notin Tos

\* The words of a stream by their kind.
LEMMA WordKinds ==
  /\ \A r \in Nat : Push(r) # Jmp /\ Pop(r) # Jmp /\ Push(r) \notin Tos /\ Pop(r) \notin Tos
                    /\ Push(r) # Op
  /\ Op # Jmp /\ Op \notin Tos /\ Jmp \notin Tos
  /\ \A q, r \in Nat : Push(q) # Pop(r) /\ (Push(q) = Push(r) => q = r) /\ (Pop(q) = Pop(r) => q = r)
  /\ \A q, r \in Nat : Op # Pop(q)
  BY DEF Push, Pop, Op, Jmp, To, Tos

\* Two such sequences one behind the other.
LEMMA PairedConcat ==
  ASSUME NEW t \in Seq(Word), NEW u \in Seq(Word), JumpsPaired(t), JumpsPaired(u)
  PROVE  JumpsPaired(t \o u)
  <1> DEFINE v == t \o u
  <1>1. Len(t) \in Nat /\ Len(u) \in Nat
    OBVIOUS
  <1>2. /\ v \in Seq(Word) /\ Len(v) = Len(t) + Len(u)
        /\ \A n \in 1 .. Len(t) + Len(u) : v[n] = IF n <= Len(t) THEN t[n] ELSE u[n - Len(t)]
    BY ConcatProperties
  <1> HIDE DEF v
  <1>3. (t = <<>> => Len(t) = 0) /\ (u = <<>> => Len(u) = 0)
        /\ (t # <<>> => Len(t) > 0) /\ (u # <<>> => Len(u) > 0)
    BY EmptySeq
  <1>4. ASSUME NEW n \in 1 .. Len(v) - 1
        PROVE  v[n] = Jmp <=> v[n + 1] \in Tos
    <2>1. CASE n < Len(t)
      <3>1. n \in 1 .. Len(t) - 1 /\ n \in 1 .. Len(t) + Len(u) /\ n + 1 \in 1 .. Len(t) + Len(u)
            /\ n <= Len(t) /\ n + 1 <= Len(t)
        BY <2>1, <1>1, <1>2
      <3>2. v[n] = t[n] /\ v[n + 1] = t[n + 1]
        BY <3>1, <1>2
      <3> QED BY <3>1, <3>2 DEF JumpsPaired
    <2>2. CASE n = Len(t)
      <3>1. n \in 1 .. Len(t) + Len(u) /\ n + 1 \in 1 .. Len(t) + Len(u)
            /\ ~(n + 1 <= Len(t)) /\ (n + 1) - Len(t) = 1 /\ t # <<>> /\ u # <<>>
        BY <2>2, <1>1, <1>2, <1>3
      <3>2. v[n] = t[Len(t)] /\ v[n + 1] = u[1]
        BY <3>1, <2>2, <1>2
      <3> QED BY <3>1, <3>2 DEF JumpsPaired
    <2>3. CASE n > Len(t)
      <3>1. n \in 1 .. Len(t) + Len(u) /\ n + 1 \in 1 .. Len(t) + Len(u)
            /\ ~(n <= Len(t)) /\ ~(n + 1 <= Len(t)) /\ n - Len(t) \in 1 .. Len(u) - 1
            /\ (n + 1) - Len(t) = (n - Len(t)) + 1
        BY <2>3, <1>1, <1>2
      <3>2. v[n] = u[n - Len(t)] /\ v[n + 1] = u[(n - Len(t)) + 1]
        BY <3>1, <1>2
      <3> QED BY <3>1, <3>2 DEF JumpsPaired
    <2> QED BY <2>1, <2>2, <2>3, <1>1
  <1>5. ASSUME v # <<>>
        PROVE  v[Len(v)] # Jmp /\ v[1] \notin Tos
    <2>1. Len(v) > 0
      BY <1>2, <1>5, EmptySeq
    <2>2. v[Len(v)] # Jmp
      <3>1. CASE u = <<>>
        <4>1. Len(v) = Len(t) /\ v[Len(v)] = t[Len(t)] /\ t # <<>>
          BY <3>1, <2>1, <1>1, <1>2, <1>3
        <4> QED BY <4>1 DEF JumpsPaired
      <3>2. CASE u # <<>>
        <4>1. Len(v) \in 1 .. Len(t) + Len(u) /\ ~(Len(v) <= Len(t)) /\ Len(v) - Len(t) = Len(u)
          BY <3>2, <1>1, <1>2, <1>3
        <4>2. v[Len(v)] = u[Len(u)]
          BY <4>1, <1>2
        <4> QED BY <4>2, <3>2 DEF JumpsPaired
      <3> QED BY <3>1, <3>2
    <2>3. v[1] \notin Tos
      <3>1. CASE t = <<>>
        <4>1. 1 \in 1 .. Len(t) + Len(u) /\ ~(1 <= Len(t)) /\ 1 - Len(t) = 1 /\ u # <<>>
          BY <3>1, <2>1, <1>1, <1>2, <1>3
        <4>2. v[1] = u[1]
          BY <4>1, <1>2
        <4> QED BY <4>1, <4>2 DEF JumpsPaired
      <3>2. CASE t # <<>>
        <4>1. 1 \in 1 .. Len(t) + Len(u) /\ 1 <= Len(t)
          BY <3>2, <1>1, <1>3
        <4>2. v[1] = t[1]
          BY <4>1, <1>2
        <4> QED BY <4>2, <3>2 DEF JumpsPaired
      <3> QED BY <3>1, <3>2
    <2> QED BY <2>2, <2>3
  <1> QED BY <1>4, <1>5 DEF JumpsPaired, v

\* What an instruction may be translated to.
Instructions == {PushGroup, PopGroup, <<Op>>} \cup {<<Jmp, To(j)>> : j \in Label}

\* An instruction is words, and a jump comes with its label.
LEMMA InstructionWords ==
  ASSUME NEW ws \in Instructions
  PROVE  ws \in Seq(Word) /\ JumpsPaired(ws) /\ Len(ws) >= 1
  <1>1. CASE ws = PushGroup
    <2>1. Len(PushGroup) = Half /\ \A n \in 1 .. Half : PushGroup[n] = Push(Half + 1 - n) /\ Half + 1 - n \in Nat
      BY PairFacts DEF PushGroup
    <2> QED BY <1>1, <2>1, PairFacts, GroupWords, WordKinds DEF JumpsPaired
  <1>2. CASE ws = PopGroup
    <2>1. Len(PopGroup) = Half /\ \A n \in 1 .. Half : PopGroup[n] = Pop(n) /\ n \in Nat
      BY PairFacts DEF PopGroup
    <2> QED BY <1>2, <2>1, PairFacts, GroupWords, WordKinds DEF JumpsPaired
  <1>3. CASE ws = <<Op>>
    BY <1>3, GroupWords, WordKinds DEF JumpsPaired
  <1>4. ASSUME NEW j \in Label, ws = <<Jmp, To(j)>>
        PROVE  ws \in Seq(Word) /\ JumpsPaired(ws) /\ Len(ws) >= 1
    <2>1. To(j) \in Tos /\ To(j) # Jmp
      BY WordKinds DEF Tos
    <2>2. Len(ws) = 2 /\ ws[1] = Jmp /\ ws[2] = To(j)
      BY <1>4
    <2>3. \A n \in 1 .. Len(ws) - 1 : n = 1 /\ n + 1 = 2
      BY <2>2
    <2>4. JumpsPaired(ws)
      BY <2>1, <2>2, <2>3, WordKinds DEF JumpsPaired
    <2> QED BY <1>4, <2>2, <2>4, GroupWords
  <1> QED BY <1>1, <1>2, <1>3, <1>4 DEF Instructions

\* Each step either leaves the stream or is idle and appends an instruction.
LEMMA StreamSteps ==
  ASSUME EmitterInv, [Next]_vars
  PROVE  \/ Stream' = Stream
         \/ todo = <<>> /\ sent' = sent /\ \E ws \in Instructions : Translate(ws) /\ Stream' = Stream \o ws
  <1>1. sent \in Seq(Word) /\ todo \in Seq(Word)
    BY DEF EmitterInv, TypeOK
  <1>2. ASSUME NEW ws \in Instructions, Translate(ws)
        PROVE  todo = <<>> /\ sent' = sent /\ Stream' = Stream \o ws
    <2>1. todo = <<>> /\ sent' = sent /\ todo' = ws
      BY <1>2 DEF Translate, Idle
    <2>2. Stream = sent /\ Stream' = sent \o ws
      BY <1>1, <2>1, ConcatEmptySeq DEF Stream
    <2> QED BY <2>1, <2>2
  <1>3. CASE EmitRawWord
    <2> DEFINE h == Head(todo)
               l == Tail(todo)
    <2>1. sent' = Append(sent, h) /\ todo' = l /\ todo # <<>>
      BY <1>3 DEF EmitRawWord
    <2>2. h \in Word /\ l \in Seq(Word) /\ todo = <<h>> \o l
      <3>1. h \in Word /\ l \in Seq(Word) /\ Len(l) = Len(todo) - 1 /\ \A i \in 1 .. Len(l) : l[i] = todo[i + 1]
        BY <1>1, <2>1, HeadTailProperties
      <3>2. h = todo[1] /\ Len(todo) \in Nat
        BY <1>1, <2>1
      <3> HIDE DEF h, l
      <3>3. <<h>> \in Seq(Word) /\ Len(<<h>>) = 1 /\ <<h>>[1] = h
        BY <3>1
      <3> DEFINE g == <<h>>
      <3> HIDE DEF g
      <3>4. g \in Seq(Word) /\ Len(g) = 1 /\ g[1] = h
        BY <3>3 DEF g
      <3>5. /\ g \o l \in Seq(Word) /\ Len(g \o l) = Len(todo)
            /\ \A i \in 1 .. Len(todo) : (g \o l)[i] = IF i <= 1 THEN g[i] ELSE l[i - 1]
        <4>1. /\ g \o l \in Seq(Word) /\ Len(g \o l) = Len(g) + Len(l)
              /\ \A i \in 1 .. Len(g) + Len(l) : (g \o l)[i] = IF i <= Len(g) THEN g[i] ELSE l[i - Len(g)]
          <5>1. g \in Seq(Word) /\ l \in Seq(Word)
            BY <3>1, <3>4
          <5> QED BY <5>1, ConcatProperties
        <4>2. Len(g) = 1 /\ Len(g) + Len(l) = Len(todo)
          BY <3>1, <3>2, <3>4
        <4> QED BY <4>1, <4>2
      <3>6. \A i \in 1 .. Len(todo) : (g \o l)[i] = todo[i]
        <4> SUFFICES ASSUME NEW i \in 1 .. Len(todo) PROVE (g \o l)[i] = todo[i]
          OBVIOUS
        <4>1. CASE i = 1
          BY <4>1, <3>2, <3>4, <3>5
        <4>2. CASE i # 1
          <5>1. i - 1 \in 1 .. Len(l) /\ (i - 1) + 1 = i /\ ~(i <= 1)
            BY <4>2, <3>1, <3>2
          <5> QED BY <5>1, <3>1, <3>5
        <4> QED BY <4>1, <4>2
      <3>7. g \o l = todo
        BY <3>5, <3>6, <1>1, SeqEqual
      <3> QED BY <3>1, <3>7 DEF g
    <2> HIDE DEF h, l
    <2>3. <<h>> \in Seq(Word) /\ Append(sent, h) = sent \o <<h>>
      BY <2>2, <1>1, AppendIsConcat
    <2>4. (sent \o <<h>>) \o l = sent \o (<<h>> \o l)
      BY <2>2, <2>3, <1>1, ConcatAssociative
    <2> QED BY <2>1, <2>2, <2>3, <2>4 DEF Stream
  <1>4. CASE UNCHANGED <<sent, todo>>
    BY <1>4 DEF Stream
  <1>5. CASE TranslateJump
    <2>1. PICK n \in 1 .. Len(open) : Translate(<<Jmp, To(open[n])>>)
      BY <1>5 DEF TranslateJump
    <2>2. open[n] \in Label
      BY <2>1 DEF EmitterInv, TypeOK
    <2>3. <<Jmp, To(open[n])>> \in Instructions
      BY <2>2 DEF Instructions
    <2> QED BY <2>1, <2>3, <1>2
  <1>6. CASE Translate(PushGroup) \/ TranslatePop \/ Translate(<<Op>>)
    BY <1>2, <1>6 DEF TranslatePop, Instructions
  <1> QED
    BY <1>3, <1>4, <1>5, <1>6 DEF Next, vars, StartBlock, StartLoop, EndBlock, EndFunction,
       OptimiseStep, WriteOut

\* The invariant of the jumps.
JumpInv == OrderInv /\ JumpsPaired(Stream)

\* The stream begins with nothing or with the prologue.
LEMMA JumpInit == Init => JumpInv
  <1> SUFFICES ASSUME Init PROVE JumpInv
    OBVIOUS
  <1>1. todo \in Seq(Word) /\ JumpsPaired(todo)
    <2>1. CASE todo = <<>>
      BY <2>1 DEF JumpsPaired
    <2>2. CASE todo = <<Op>>
      BY <2>2, InstructionWords DEF Instructions
    <2> QED BY <2>1, <2>2 DEF Init
  <1>2. Stream = todo
    BY <1>1, ConcatEmptySeq DEF Stream, Init
  <1> QED BY <1>1, <1>2, OrderInit DEF JumpInv

\* And grows by whole instructions.
LEMMA JumpNext == JumpInv /\ [Next]_vars => JumpInv'
  <1> SUFFICES ASSUME JumpInv, [Next]_vars PROVE JumpInv'
    OBVIOUS
  <1>1. OrderInv' /\ EmitterInv /\ JumpsPaired(Stream)
    BY OrderNext DEF JumpInv, OrderInv
  <1>2. Stream \in Seq(Word)
    BY <1>1, ConcatProperties DEF Stream, EmitterInv, TypeOK
  <1>3. CASE Stream' = Stream
    BY <1>1, <1>3 DEF JumpInv
  <1>4. ASSUME NEW ws \in Instructions, Stream' = Stream \o ws
        PROVE  JumpInv'
    <2>1. JumpsPaired(Stream \o ws)
      BY <1>1, <1>2, InstructionWords, PairedConcat
    <2> QED BY <1>1, <1>4, <2>1 DEF JumpInv
  <1> QED BY <1>1, <1>3, <1>4, StreamSteps

\* Of two neighbours in the code the first is a JMP if and only if the second is a
\* label: there is nothing between them, or a pair, which is neither.
LEMMA JumpsFollow == JumpInv => JumpsIntact
  <1> SUFFICES ASSUME JumpInv, NEW n \in 1 .. Len(Code) - 1
               PROVE  Code[n].word = Jmp <=> Code[n + 1].word \in Tos
    BY DEF JumpsIntact, Tos
  <1>1. EmitterInv /\ Ordered(Code, sent, Len(out) + scan) /\ JumpsPaired(Stream)
    BY DEF JumpInv, OrderInv
  <1>2. sent \in Seq(Word) /\ todo \in Seq(Word) /\ Len(sent) \in Nat /\ Len(Code) \in Nat /\ Len(todo) \in Nat
    BY <1>1, CodeWords DEF EmitterInv, TypeOK
  <1> DEFINE p == Code[n].at
             q == Code[n + 1].at
  <1>3. n \in 1 .. Len(Code) /\ n + 1 \in 1 .. Len(Code) /\ (n + 1) - 1 = n /\ n # 0
    BY <1>2
  <1>4. /\ p \in 1 .. Len(sent) /\ Code[n].word = sent[p]
        /\ q \in 1 .. Len(sent) /\ Code[n + 1].word = sent[q] /\ Gap(Code, sent, n + 1)
    BY <1>1, <1>3 DEF Ordered
  <1>5. At(Code, (n + 1) - 1) = p
    BY <1>3 DEF At
  <1> HIDE DEF p, q
  <1>6. q = p + 1 \/ (q = p + PairLen + 1 /\ \A k \in 1 .. PairLen : sent[p + k] = Pair[k])
    BY <1>4, <1>5 DEF Gap, q
  <1>7. /\ Len(Stream) = Len(sent) + Len(todo)
        /\ \A i \in 1 .. Len(sent) : Stream[i] = sent[i]
    <2>1. \A i \in 1 .. Len(sent) + Len(todo) : Stream[i] = IF i <= Len(sent) THEN sent[i] ELSE todo[i - Len(sent)]
      BY <1>2, ConcatProperties DEF Stream
    <2>2. Len(Stream) = Len(sent) + Len(todo)
      BY <1>2, ConcatProperties DEF Stream
    <2>3. \A i \in 1 .. Len(sent) : i \in 1 .. Len(sent) + Len(todo) /\ i <= Len(sent)
      BY <1>2
    <2> QED BY <2>1, <2>2, <2>3
  <1>8. ASSUME NEW i \in 1 .. Len(sent) - 1
        PROVE  sent[i] = Jmp <=> sent[i + 1] \in Tos
    <2>1. i \in 1 .. Len(Stream) - 1 /\ i \in 1 .. Len(sent) /\ i + 1 \in 1 .. Len(sent)
      BY <1>2, <1>7
    <2>2. Stream[i] = Jmp <=> Stream[i + 1] \in Tos
      BY <2>1, <1>1 DEF JumpsPaired
    <2> QED BY <2>1, <2>2, <1>7
  <1>9. CASE q = p + 1
    <2>1. p \in 1 .. Len(sent) - 1
      BY <1>2, <1>4, <1>9
    <2> QED BY <2>1, <1>4, <1>8, <1>9
  <1>10. CASE q = p + PairLen + 1 /\ \A k \in 1 .. PairLen : sent[p + k] = Pair[k]
    <2>1. sent[p + 1] = Push(Half) /\ sent[p + PairLen] = Pop(Half)
      <3>1. /\ 1 \in 1 .. Half /\ 1 \in 1 .. PairLen /\ PairLen \in 1 .. PairLen /\ PairLen \in Half + 1 .. PairLen
            /\ Half + 1 - 1 = Half /\ PairLen - Half = Half
        BY PairFacts
      <3>2. Pair[1] = Push(Half) /\ Pair[PairLen] = Pop(Half)
        BY <3>1, PairFacts
      <3> QED BY <3>1, <3>2, <1>10
    <2>2. /\ p \in 1 .. Len(sent) - 1 /\ p + PairLen \in 1 .. Len(sent) - 1
          /\ (p + PairLen) + 1 = q
      <3>1. q = p + PairLen + 1 /\ PairLen \in Nat /\ PairLen >= 2
        BY <1>10, PairFacts
      <3>2. p \in 1 .. Len(sent) /\ q \in 1 .. Len(sent)
        BY <1>4
      <3> QED BY <3>1, <3>2, <1>2
    <2>3. sent[p] # Jmp
      BY <2>1, <2>2, <1>8, WordKinds, PairFacts
    <2>4. sent[q] \notin Tos
      BY <2>1, <2>2, <1>8, WordKinds, PairFacts
    <2> QED BY <2>3, <2>4, <1>4
  <1> QED BY <1>6, <1>9, <1>10

\* JumpsIntact: branch_pc_refill finds the label of a JMP in the next word, for any
\* size of the buffer, though a flush may fall between the two.
THEOREM JumpsKeepTheirLabels == Spec => []JumpsIntact
  BY JumpInit, JumpNext, JumpsFollow, PTL DEF Spec

-----------------------------------------------------------------------------
(* The labels.                                                              *)

\* The byte offset pc is where the word at the place a is put, or will be: it
\* separates the words of the code from before that place from the others.
LabelAt(c, pc, a) ==
    \E p \in 0 .. Len(c) :
        pc = 2 * p /\ \A n \in 1 .. Len(c) : n <= p <=> c[n].at < a

\* The place a lies between two PUSHes, or two POPs, of one value.
InGroup(t, a) ==
    /\ a \in 2 .. Len(t)
    /\ \E r \in 1 .. Half - 1 :
         \/ t[a - 1] = Push(r + 1) /\ t[a] = Push(r)
         \/ t[a - 1] = Pop(r) /\ t[a] = Pop(r + 1)

\* With a prologue the code begins with a word that is never deleted, so that no
\* label is at offset 0, which block_pc uses for a label that is not known.
Prologue ==
    /\ Len(Stream) >= 1 /\ Stream[1] = Op /\ Len(Stream) <= MaxWords + 1
    /\ Len(sent) >= 1 => Len(Code) >= 1 /\ Code[1].at = 1

\* What holds of the label j.
LabelInv(j) ==
    /\ j >= next_id => anchor[j] = 0
    /\ anchor[j] = 0 => block_pc[j] = 0
    /\ anchor[j] # 0 => anchor[j] \in 2 .. Len(sent) + 1 /\ ~InGroup(Stream, anchor[j])
    /\ anchor[j] # 0 /\ ~Split(j) => LabelAt(Code, block_pc[j], anchor[j])

\* The invariant of the labels.
LabelsInv ==
    /\ JumpInv /\ Prologue
    /\ \A n \in 1 .. Len(open) : open[n] < next_id
    /\ \A j \in Label : LabelInv(j)

\* A word that is appended behind a label leaves it where it is.
LEMMA LabelAppend ==
  ASSUME NEW c \in Seq(Placed), NEW e \in Placed, NEW pc, NEW a \in Nat,
         LabelAt(c, pc, a), a <= e.at
  PROVE  LabelAt(Append(c, e), pc, a)
  <1> DEFINE d == Append(c, e)
  <1>1. /\ Len(c) \in Nat /\ Len(d) = Len(c) + 1 /\ d[Len(c) + 1] = e
        /\ \A n \in 1 .. Len(c) : d[n] = c[n]
    OBVIOUS
  <1>2. e.at \in Nat
    BY DEF Placed
  <1> HIDE DEF d
  <1>3. PICK p \in 0 .. Len(c) : pc = 2 * p /\ \A n \in 1 .. Len(c) : n <= p <=> c[n].at < a
    BY DEF LabelAt
  <1>4. p \in 0 .. Len(d)
    BY <1>1
  <1>5. ASSUME NEW n \in 1 .. Len(d) PROVE n <= p <=> d[n].at < a
    <2>1. CASE n = Len(c) + 1
      BY <2>1, <1>1, <1>2
    <2>2. CASE n # Len(c) + 1
      <3>1. n \in 1 .. Len(c)
        BY <2>2, <1>1
      <3> QED BY <3>1, <1>1, <1>3
    <2> QED BY <2>1, <2>2
  <1>6. LabelAt(d, pc, a)
    BY <1>3, <1>4, <1>5 DEF LabelAt
  <1> QED BY <1>6 DEF d

\* A number of 16 bits is its own remainder.
LEMMA SmallMod == \A x \in Nat : x < 65536 => x % 65536 = x
  BY SMT

\* A pair that is deleted moves the labels behind it, if none is inside it; the
\* offset of a label is a u16.
LEMMA LabelDelete ==
  ASSUME NEW c \in Seq(Placed), NEW d \in Seq(Placed), NEW s \in Seq(Word), NEW m \in Nat,
         Ordered(c, s, m), m + PairLen < Len(c), 2 * Len(c) < U16,
         Len(d) = Len(c) - PairLen,
         \A n \in 1 .. Len(d) : d[n] = IF n <= m THEN c[n] ELSE c[n + PairLen],
         NEW pc \in Nat, NEW a \in Nat, LabelAt(c, pc, a),
         \A k \in 1 .. PairLen - 1 : a # At(c, m) + k + 1
  PROVE  LabelAt(d, IF pc > 2 * m THEN (pc - 2 * PairLen) % U16 ELSE pc, a)
  <1>1. /\ Len(c) \in Nat /\ Len(s) \in Nat /\ Len(d) \in Nat /\ m < Len(d)
        /\ PairLen \in Nat /\ PairLen >= 2 /\ Len(d) + PairLen = Len(c)
    BY PairFacts
  <1>2. \A n \in m .. Len(c) : At(c, n) = Len(s) - Len(c) + n
    BY DEF Ordered
  <1>3. PICK p \in 0 .. Len(c) : pc = 2 * p /\ \A n \in 1 .. Len(c) : n <= p <=> c[n].at < a
    BY DEF LabelAt
  <1>4. p <= m \/ p >= m + PairLen
    <2> SUFFICES ASSUME p > m, p < m + PairLen PROVE FALSE
      BY <1>1
    <2>1. /\ p \in 1 .. Len(c) /\ p + 1 \in 1 .. Len(c) /\ p # 0 /\ p + 1 # 0
          /\ p \in m .. Len(c) /\ p + 1 \in m .. Len(c) /\ m \in m .. Len(c)
      BY <1>1
    <2>2. c[p].at = Len(s) - Len(c) + p /\ c[p + 1].at = Len(s) - Len(c) + (p + 1)
      BY <2>1, <1>2 DEF At
    <2>3. c[p].at < a /\ ~(c[p + 1].at < a)
      <3>1. p <= p /\ ~(p + 1 <= p)
        OBVIOUS
      <3> QED BY <3>1, <2>1, <1>3
    <2>4. At(c, m) = Len(s) - Len(c) + m
      BY <2>1, <1>2
    <2>5. a = At(c, m) + (p - m) + 1
      <3>1. \A x, y, z \in Int : x + y < a /\ ~(x + (y + 1) < a) => a = (x + z) + (y - z) + 1
        OBVIOUS
      <3>2. /\ Len(s) - Len(c) \in Int /\ p \in Int /\ m \in Int
            /\ Len(s) - Len(c) + p < a /\ ~(Len(s) - Len(c) + (p + 1) < a)
        BY <2>2, <2>3, <1>1
      <3>3. a = ((Len(s) - Len(c)) + m) + (p - m) + 1
        BY <3>1, <3>2
      <3> QED BY <3>3, <2>4
    <2>6. p - m \in 1 .. PairLen - 1
      BY <1>1
    <2> QED BY <2>5, <2>6
  <1>5. CASE p <= m
    <2>1. ~(pc > 2 * m) /\ p \in 0 .. Len(d)
      BY <1>1, <1>3, <1>5, SMTT(30)
    <2>2. ASSUME NEW n \in 1 .. Len(d) PROVE n <= p <=> d[n].at < a
      <3>1. CASE n <= m
        <4>1. n \in 1 .. Len(c)
          BY <1>1
        <4>2. d[n] = c[n]
          BY <3>1
        <4> QED BY <4>1, <4>2, <1>3
      <3>2. CASE n > m
        <4>1. n + PairLen \in 1 .. Len(c) /\ d[n] = c[n + PairLen] /\ ~(n + PairLen <= p) /\ ~(n <= p)
          BY <3>2, <1>1, <1>5, SMTT(30)
        <4> QED BY <4>1, <1>3
      <3> QED BY <3>1, <3>2
    <2> QED BY <2>1, <2>2, <1>3 DEF LabelAt
  <1>6. CASE p >= m + PairLen
    <2> DEFINE q == p - PairLen
    <2>1. pc > 2 * m /\ q \in 0 .. Len(d) /\ q >= m
      BY <1>1, <1>3, <1>6, SMTT(30)
    <2>2. (pc - 2 * PairLen) % U16 = 2 * q
      <3>1. pc - 2 * PairLen = 2 * q /\ 2 * q \in Nat /\ 2 * q < 65536
        BY <1>1, <1>3, <2>1 DEF U16
      <3>2. \A x \in Nat : x < 65536 => x % 65536 = x
        BY SmallMod
      <3> HIDE DEF q
      <3>3. (2 * q) % 65536 = 2 * q
        BY <3>1, <3>2, SMTT(30)
      <3> QED BY <3>1, <3>3 DEF U16
    <2>3. ASSUME NEW n \in 1 .. Len(d) PROVE n <= q <=> d[n].at < a
      <3>1. CASE n <= m
        <4>1. n \in 1 .. Len(c) /\ d[n] = c[n] /\ n <= q /\ n <= p
          BY <3>1, <2>1, <1>1, <1>6
        <4> QED BY <4>1, <1>3
      <3>2. CASE n > m
        <4>1. d[n] = c[n + PairLen]
          BY <3>2, <1>1, SMTT(30)
        <4>2. n + PairLen \in 1 .. Len(c) /\ (n + PairLen <= p <=> n <= q)
          BY <1>1
        <4>3. n + PairLen <= p <=> c[n + PairLen].at < a
          BY <4>2, <1>3
        <4> QED BY <4>1, <4>2, <4>3
      <3> QED BY <3>1, <3>2
    <2> HIDE DEF q
    <2> QED BY <2>1, <2>2, <2>3 DEF LabelAt
  <1> QED BY <1>4, <1>5, <1>6

\* A label put down now is where the next word will be.
LEMMA LabelHere ==
  ASSUME NEW c \in Seq(Placed), NEW s \in Seq(Word), NEW m \in Nat, Ordered(c, s, m)
  PROVE  LabelAt(c, 2 * Len(c), Len(s) + 1)
  <1>1. Len(c) \in Nat /\ Len(s) \in Nat
    OBVIOUS
  <1>2. \A n \in 1 .. Len(c) : n <= Len(c) /\ c[n].at < Len(s) + 1
    BY <1>1 DEF Ordered
  <1> QED BY <1>1, <1>2 DEF LabelAt

\* No place is inside a group of a stream that ends in front of it, and no
\* instruction begins in the middle of a group.
LEMMA GroupsWhole ==
  ASSUME NEW t \in Seq(Word), NEW ws \in Instructions, NEW a \in 2 .. Len(t) + 1, ~InGroup(t, a)
  PROVE  ~InGroup(t \o ws, a)
  <1> DEFINE v == t \o ws
  <1>1. ws \in Seq(Word) /\ Len(ws) >= 1 /\ Len(ws) \in Nat /\ Len(t) \in Nat
    BY InstructionWords
  <1>2. Len(v) = Len(t) + Len(ws) /\ \A n \in 1 .. Len(t) + Len(ws) : v[n] = IF n <= Len(t) THEN t[n] ELSE ws[n - Len(t)]
    BY <1>1, ConcatProperties
  <1> HIDE DEF v
  <1>3. CASE a <= Len(t)
    <2>1. a \in 2 .. Len(t) /\ a \in 1 .. Len(t) + Len(ws) /\ a - 1 \in 1 .. Len(t) + Len(ws) /\ a - 1 <= Len(t)
      BY <1>1, <1>3
    <2>2. v[a] = t[a] /\ v[a - 1] = t[a - 1]
      BY <2>1, <1>2, <1>3
    <2>3. ~InGroup(v, a)
      BY <2>1, <2>2 DEF InGroup
    <2> QED BY <2>3 DEF v
  <1>4. CASE a = Len(t) + 1
    <2>1. v[a] = ws[1]
      <3>1. a \in 1 .. Len(t) + Len(ws) /\ ~(a <= Len(t)) /\ a - Len(t) = 1
        BY <1>1, <1>4
      <3> QED BY <3>1, <1>2
    <2>2. \A r \in 1 .. Half - 1 : ws[1] # Push(r) /\ ws[1] # Pop(r + 1)
      <3>1. CASE ws = PushGroup
        <4>1. ws[1] = Push(Half) /\ Half \in Nat
          BY <3>1, PairFacts DEF PushGroup
        <4> QED BY <4>1, WordKinds
      <3>2. CASE ws = PopGroup
        <4>1. ws[1] = Pop(1) /\ Half \in Nat
          BY <3>2, PairFacts DEF PopGroup
        <4> QED BY <4>1, WordKinds
      <3>3. CASE ws[1] = Op
        BY <3>3 DEF Op, Push, Pop
      <3>4. CASE ws[1] = Jmp
        BY <3>4 DEF Jmp, Push, Pop
      <3>5. ws = PushGroup \/ ws = PopGroup \/ ws[1] = Op \/ ws[1] = Jmp
        BY DEF Instructions
      <3> QED BY <3>1, <3>2, <3>3, <3>4, <3>5
    <2>3. ~InGroup(v, a)
      BY <2>1, <2>2 DEF InGroup
    <2> QED BY <2>3 DEF v
  <1> QED BY <1>1, <1>3, <1>4

\* The stream begins with what was emitted.
LEMMA StreamWords ==
  ASSUME EmitterInv
  PROVE  /\ Stream \in Seq(Word) /\ sent \in Seq(Word) /\ todo \in Seq(Word)
         /\ Len(sent) \in Nat /\ Len(todo) \in Nat
         /\ Len(Stream) = Len(sent) + Len(todo)
         /\ \A n \in 1 .. Len(sent) : Stream[n] = sent[n]
  <1>1. sent \in Seq(Word) /\ todo \in Seq(Word) /\ Len(sent) \in Nat /\ Len(todo) \in Nat
    BY DEF EmitterInv, TypeOK
  <1>2. /\ Stream \in Seq(Word) /\ Len(Stream) = Len(sent) + Len(todo)
        /\ \A i \in 1 .. Len(sent) + Len(todo) : Stream[i] = IF i <= Len(sent) THEN sent[i] ELSE todo[i - Len(sent)]
    BY <1>1, ConcatProperties DEF Stream
  <1>3. \A i \in 1 .. Len(sent) : i \in 1 .. Len(sent) + Len(todo) /\ i <= Len(sent)
    BY <1>1
  <1> QED BY <1>1, <1>2, <1>3

\* What the labels invariant says of the code as a whole.
LEMMA LabelsFacts ==
  ASSUME LabelsInv
  PROVE  /\ EmitterInv /\ Ordered(Code, sent, Len(out) + scan)
         /\ Code \in Seq(Placed) /\ Len(Code) = Len(out) + Len(buffer)
         /\ Len(out) \in Nat /\ Len(buffer) \in Nat /\ Len(Code) \in Nat /\ scan \in Nat
         /\ Len(Code) <= Len(sent) /\ Len(sent) <= Len(Stream)
         /\ Len(sent) <= MaxWords + 1 /\ 2 * Len(Code) < 65536
         /\ ts_pc = 2 * Len(Code)
  <1>1. EmitterInv /\ Ordered(Code, sent, Len(out) + scan) /\ scan \in Nat
    BY DEF LabelsInv, JumpInv, OrderInv, EmitterInv, TypeOK
  <1>2. /\ Code \in Seq(Placed) /\ Len(Code) = Len(out) + Len(buffer)
        /\ Len(out) \in Nat /\ Len(buffer) \in Nat /\ Len(Code) \in Nat
    BY <1>1, CodeWords
  <1>3. Len(Code) <= Len(sent)
    BY <1>1 DEF Ordered
  <1>4. Len(sent) \in Nat /\ Len(todo) \in Nat /\ Len(Stream) = Len(sent) + Len(todo)
    BY <1>1, StreamWords
  <1>5. Len(Stream) <= MaxWords + 1
    BY DEF LabelsInv, Prologue
  <1>6. ts_pc = 2 * Len(Code)
    BY <1>1, <1>2 DEF EmitterInv, PcTracksFlash
  <1> QED BY <1>1, <1>2, <1>3, <1>4, <1>5, <1>6, EmitterAssumption

\* Only emit_raw_word and a deletion change the code.
LEMMA CodeSteps ==
  ASSUME LabelsInv, [Next]_vars
  PROVE  \/ EmitRawWord
         \/ OptimiseStep /\ PairAt(scan)
         \/ Code' = Code /\ sent' = sent
  <1>1. buffer \in Seq(Placed) /\ out \in Seq(Placed)
    BY LabelsFacts DEF EmitterInv, TypeOK
  <1>2. ASSUME WriteOut PROVE Code' = Code /\ sent' = sent
    <2>1. out' = out \o buffer /\ buffer' = <<>> /\ sent' = sent
      BY <1>2 DEF WriteOut
    <2>2. out \o buffer \in Seq(Placed)
      BY <1>1, ConcatProperties
    <2>3. (out \o buffer) \o <<>> = out \o buffer
      BY <2>2, ConcatEmptySeq
    <2> QED BY <2>1, <2>3 DEF Code
  <1>3. ASSUME OptimiseStep, ~PairAt(scan) PROVE Code' = Code /\ sent' = sent
    BY <1>3 DEF OptimiseStep, Code
  <1>4. ASSUME UNCHANGED <<out, buffer, sent>> PROVE Code' = Code /\ sent' = sent
    BY <1>4 DEF Code
  <1> QED BY <1>2, <1>3, <1>4 DEF Next, vars, Translate, TranslatePop, TranslateJump, StartBlock,
             StartLoop, EndBlock, EndFunction

\* A deletion never takes the first word: it is not a PUSH.
LEMMA NotTheFirst ==
  ASSUME LabelsInv, OptimiseStep, PairAt(scan)
  PROVE  Len(out) + scan >= 1 /\ Len(sent) >= 1
  <1>1. /\ Len(out) + scan \in Nat /\ (Len(out) + scan) + PairLen < Len(Code)
        /\ \A k \in 1 .. PairLen : Code[(Len(out) + scan) + k].word = Pair[k]
    BY LabelsFacts, CodeDeleted, SMTT(30)
  <1>2. Len(sent) >= 1 /\ Len(sent) \in Nat /\ Len(Code) \in Nat
    <2>1. PairLen \in Nat /\ Len(Code) \in Nat /\ Len(Code) <= Len(sent) /\ Len(sent) \in Nat
      BY LabelsFacts, StreamWords, PairFacts
    <2> QED BY <2>1, <1>1
  <1>3. Len(Code) >= 1 /\ Code[1].at = 1 /\ Stream[1] = Op
    BY <1>2 DEF LabelsInv, Prologue
  <1>4. Code[1].word = Op
    <2>1. 1 \in 1 .. Len(Code) /\ 1 \in 1 .. Len(sent)
      BY <1>2, <1>3
    <2>2. Code[1].word = sent[1]
      BY <2>1, <1>3, LabelsFacts DEF Ordered
    <2> QED BY <2>1, <2>2, <1>3, LabelsFacts, StreamWords
  <1>5. Len(out) + scan # 0
    <2> SUFFICES ASSUME Len(out) + scan = 0 PROVE FALSE
      OBVIOUS
    <2>1. 1 \in 1 .. PairLen /\ 1 \in 1 .. Half /\ Half + 1 - 1 = Half /\ Half \in Nat
      BY PairFacts
    <2>2. Code[0 + 1].word = Pair[1]
      BY <2>1, <1>1
    <2>3. Pair[1] = Push(Half)
      BY <2>1, PairFacts
    <2> QED BY <2>1, <2>2, <2>3, <1>4, WordKinds
  <1> QED BY <1>1, <1>2, <1>5

\* The code keeps its first word, and the stream its bound.
LEMMA PrologueNext ==
  ASSUME LabelsInv, [Next]_vars
  PROVE  Prologue'
  <1>1. /\ EmitterInv /\ EmitterInv'
        /\ Len(Stream) >= 1 /\ Stream[1] = Op /\ Len(Stream) <= MaxWords + 1
        /\ (Len(sent) >= 1 => Len(Code) >= 1 /\ Code[1].at = 1)
    BY EmitterNext DEF LabelsInv, JumpInv, OrderInv, Prologue
  <1>2. Len(Stream') >= 1 /\ Stream'[1] = Op /\ Len(Stream') <= MaxWords + 1
    <2>1. CASE Stream' = Stream
      BY <2>1, <1>1
    <2>2. ASSUME todo = <<>>, NEW ws \in Instructions, Translate(ws), Stream' = Stream \o ws
          PROVE  Len(Stream') >= 1 /\ Stream'[1] = Op /\ Len(Stream') <= MaxWords + 1
      <3>1. ws \in Seq(Word) /\ Len(ws) \in Nat /\ Stream \in Seq(Word) /\ Len(Stream) \in Nat
        BY <1>1, InstructionWords, StreamWords
      <3>2. Len(Stream) = Len(sent) /\ Len(sent) + Len(ws) <= MaxWords
        BY <2>2, <1>1, StreamWords DEF Translate
      <3>3. /\ Len(Stream') = Len(Stream) + Len(ws)
            /\ \A n \in 1 .. Len(Stream) + Len(ws) : Stream'[n] = IF n <= Len(Stream) THEN Stream[n] ELSE ws[n - Len(Stream)]
        BY <3>1, <2>2, ConcatProperties
      <3>4. 1 \in 1 .. Len(Stream) + Len(ws) /\ 1 <= Len(Stream)
        BY <3>1, <1>1
      <3>5. Stream'[1] = Stream[1]
        BY <3>3, <3>4
      <3>6. Len(Stream) + Len(ws) <= MaxWords + 1
        BY <3>1, <3>2, EmitterAssumption
      <3> QED BY <3>1, <3>3, <3>5, <3>6, <1>1
    <2> QED BY <1>1, <2>1, <2>2, StreamSteps
  <1>3. CASE EmitRawWord
    <2>1. Code' = Append(Code, [word |-> Head(todo), at |-> Len(sent) + 1])
      BY <1>1, <1>3, CodeEmitted
    <2> DEFINE e == [word |-> Head(todo), at |-> Len(sent) + 1]
    <2>2. e.at = Len(sent) + 1
      OBVIOUS
    <2> HIDE DEF e
    <2>3. Code \in Seq(Placed) /\ Len(Code) \in Nat /\ Len(Code) <= Len(sent) /\ Len(sent) \in Nat
      BY LabelsFacts, StreamWords
    <2>4. /\ Len(Append(Code, e)) = Len(Code) + 1 /\ Append(Code, e)[Len(Code) + 1] = e
          /\ \A n \in 1 .. Len(Code) : Append(Code, e)[n] = Code[n]
      BY <2>3
    <2>5. Code' = Append(Code, e)
      BY <2>1 DEF e
    <2>6. CASE Len(sent) = 0
      <3>1. Len(Code) = 0
        BY <2>6, <2>3
      <3>2. Code'[1] = e /\ Len(Code') = 1
        BY <3>1, <2>4, <2>5
      <3> QED BY <3>2, <2>2, <2>6, <1>2 DEF Prologue
    <2>7. CASE Len(sent) >= 1
      <3>1. 1 \in 1 .. Len(Code) /\ Code[1].at = 1
        BY <2>3, <2>7, <1>1
      <3>2. Code'[1] = Code[1] /\ Len(Code') >= 1
        BY <3>1, <2>3, <2>4, <2>5
      <3> QED BY <3>1, <3>2, <1>2 DEF Prologue
    <2> QED BY <2>3, <2>6, <2>7
  <1>4. CASE OptimiseStep /\ PairAt(scan)
    <2>1. Len(out) + scan >= 1 /\ Len(sent) >= 1
      BY <1>4, NotTheFirst
    <2>2. /\ Len(out) + scan \in Nat /\ (Len(out) + scan) + PairLen < Len(Code)
          /\ Len(Code') = Len(Code) - PairLen
          /\ \A n \in 1 .. Len(Code') :
              Code'[n] = IF n <= Len(out) + scan THEN Code[n] ELSE Code[n + PairLen]
      BY <1>1, <1>4, CodeDeleted
    <2>3. 1 \in 1 .. Len(Code')
      <3>1. PairLen \in Nat /\ Len(Code) \in Nat
        BY LabelsFacts, PairFacts
      <3> QED BY <3>1, <2>2
    <2>4. Code'[1] = Code[1]
      BY <2>1, <2>2, <2>3
    <2> QED BY <2>1, <2>3, <2>4, <1>1, <1>2 DEF Prologue
  <1>5. CASE Code' = Code /\ sent' = sent
    BY <1>1, <1>2, <1>5 DEF Prologue
  <1> QED BY <1>3, <1>4, <1>5, CodeSteps

\* Before the first word there is no label.
LEMMA LabelsInit == ASSUME ~Bare PROVE Init => LabelsInv
  <1> SUFFICES ASSUME Init PROVE LabelsInv
    OBVIOUS
  <1>1. JumpInv
    BY JumpInit
  <1>2. /\ todo = <<Op>> /\ sent = <<>> /\ open = <<>>
        /\ block_pc = [j \in Label |-> 0] /\ anchor = [j \in Label |-> 0]
    BY DEF Init
  <1>3. Stream = todo /\ Len(sent) = 0
    BY <1>2, GroupWords, ConcatEmptySeq DEF Stream
  <1>4. Prologue
    <2>1. Len(Stream) = 1 /\ Stream[1] = Op
      BY <1>2, <1>3
    <2> QED BY <2>1, <1>3, EmitterAssumption DEF Prologue
  <1>5. \A n \in 1 .. Len(open) : open[n] < next_id
    BY <1>2
  <1>6. \A j \in Label : LabelInv(j)
    BY <1>2 DEF LabelInv
  <1> QED BY <1>1, <1>4, <1>5, <1>6 DEF LabelsInv

\* A place that is not inside a group stays so when the stream grows.
LEMMA PlaceKept ==
  ASSUME LabelsInv, [Next]_vars, NEW a \in 2 .. Len(sent) + 1, ~InGroup(Stream, a)
  PROVE  ~InGroup(Stream', a)
  <1>1. EmitterInv
    BY LabelsFacts
  <1>2. CASE Stream' = Stream
    BY <1>2
  <1>3. ASSUME todo = <<>>, NEW ws \in Instructions, Stream' = Stream \o ws
        PROVE  ~InGroup(Stream', a)
    <2>1. Stream \in Seq(Word) /\ Len(Stream) = Len(sent)
      BY <1>1, <1>3, StreamWords
    <2> QED BY <2>1, <1>3, GroupsWhole
  <1> QED BY <1>1, <1>2, <1>3, StreamSteps

\* A step that leaves the code and the label alone.
LEMMA LabelKept ==
  ASSUME LabelsInv, [Next]_vars, NEW j \in Label, Code' = Code, sent' = sent,
         block_pc'[j] = block_pc[j], anchor'[j] = anchor[j], j >= next_id' => j >= next_id
  PROVE  LabelInv(j)'
  <1>1. LabelInv(j)
    BY DEF LabelsInv
  <1>2. anchor[j] # 0 => ~InGroup(Stream', anchor[j])
    BY <1>1, PlaceKept DEF LabelInv
  <1>3. Split(j)' <=> Split(j)
    BY DEF Split
  <1> QED BY <1>1, <1>2, <1>3 DEF LabelInv

\* A word that is emitted comes behind every label there is.
LEMMA LabelEmitted ==
  ASSUME LabelsInv, EmitRawWord, NEW j \in Label
  PROVE  LabelInv(j)'
  <1>1. LabelInv(j)
    BY DEF LabelsInv
  <1>2. /\ block_pc' = block_pc /\ anchor' = anchor /\ next_id' = next_id /\ todo # <<>>
        /\ sent' = Append(sent, Head(todo))
    BY DEF EmitRawWord
  <1>3. EmitterInv /\ Code \in Seq(Placed) /\ sent \in Seq(Word) /\ todo \in Seq(Word) /\ Len(sent) \in Nat
    BY LabelsFacts, StreamWords
  <1> DEFINE e == [word |-> Head(todo), at |-> Len(sent) + 1]
             h == Head(todo)
  <1>4. h \in Word
    BY <1>2, <1>3
  <1>5. e \in Placed /\ e.at = Len(sent) + 1
    BY <1>3, <1>4 DEF Placed
  <1>6. Code' = Append(Code, e)
    BY <1>3, CodeEmitted
  <1> HIDE DEF e, h
  <1>7. sent' = Append(sent, h)
    BY <1>2 DEF h
  <1>8. Len(sent') = Len(sent) + 1 /\ \A n \in 1 .. Len(sent) : sent'[n] = sent[n]
    BY <1>3, <1>4, <1>7
  <1>9. CASE anchor[j] = 0
    <2>1. anchor'[j] = 0 /\ block_pc'[j] = 0
      BY <1>1, <1>2, <1>9 DEF LabelInv
    <2> QED BY <2>1 DEF LabelInv
  <1>10. CASE anchor[j] # 0
    <2>1. anchor[j] \in 2 .. Len(sent) + 1 /\ ~InGroup(Stream, anchor[j]) /\ ~(j >= next_id)
      BY <1>1, <1>10 DEF LabelInv
    <2>2. ~InGroup(Stream', anchor[j])
      BY <2>1, PlaceKept DEF Next
    <2>3. Split(j) => Split(j)'
      <3> SUFFICES ASSUME Split(j) PROVE Split(j)'
        OBVIOUS
      <3>1. /\ anchor[j] \in 2 .. Len(sent)
            /\ sent[anchor[j] - 1] = Push(1) /\ sent[anchor[j]] = Pop(1)
        BY DEF Split
      <3>2. anchor[j] \in 1 .. Len(sent) /\ anchor[j] - 1 \in 1 .. Len(sent) /\ anchor[j] \in 2 .. Len(sent')
        BY <3>1, <1>3, <1>8
      <3> QED BY <3>1, <3>2, <1>2, <1>8 DEF Split
    <2>4. ~Split(j)' => LabelAt(Code', block_pc[j], anchor[j])
      <3> SUFFICES ASSUME ~Split(j)' PROVE LabelAt(Code', block_pc[j], anchor[j])
        OBVIOUS
      <3>1. LabelAt(Code, block_pc[j], anchor[j])
        BY <2>3, <1>1, <1>10 DEF LabelInv
      <3>2. anchor[j] \in Nat /\ anchor[j] <= e.at
        BY <2>1, <1>3, <1>5
      <3>3. LabelAt(Append(Code, e), block_pc[j], anchor[j])
        BY <3>1, <3>2, <1>3, <1>5, LabelAppend
      <3> QED BY <3>3, <1>6
    <2>5. anchor[j] \in 2 .. Len(sent') + 1
      BY <2>1, <1>3, <1>8
    <2> QED BY <2>1, <2>2, <2>4, <2>5, <1>2 DEF LabelInv
  <1> QED BY <1>9, <1>10

\* A deletion moves the labels that are in use with the words behind the pair.
LEMMA LabelMoved ==
  ASSUME LabelsInv, OptimiseStep, PairAt(scan), NEW j \in Label
  PROVE  LabelInv(j)'
  <1>1. LabelInv(j)
    BY DEF LabelsInv
  <1>2. /\ block_pc' = Moved(scan) /\ anchor' = anchor /\ next_id' = next_id
        /\ sent' = sent /\ todo' = todo /\ Stream' = Stream
    BY DEF OptimiseStep, Stream
  <1>3. /\ EmitterInv /\ Ordered(Code, sent, Len(out) + scan)
        /\ Code \in Seq(Placed) /\ Len(Code) = Len(out) + Len(buffer)
        /\ Len(out) \in Nat /\ Len(buffer) \in Nat /\ Len(Code) \in Nat /\ scan \in Nat
        /\ 2 * Len(Code) < 65536 /\ ts_pc = 2 * Len(Code)
        /\ block_pc[j] \in Nat /\ sent \in Seq(Word) /\ Len(sent) \in Nat
    BY LabelsFacts, SMTT(30) DEF EmitterInv, TypeOK
  <1> DEFINE m == Len(out) + scan
  <1>4. curr_pc(scan) = 2 * m /\ m \in Nat /\ m >= 1
    BY <1>3, NotTheFirst DEF curr_pc
  <1>5. block_pc'[j] = IF j < next_id /\ block_pc[j] > 2 * m
                       THEN (block_pc[j] - 2 * PairLen) % U16 ELSE block_pc[j]
    BY <1>2, <1>4 DEF Moved
  <1>6. /\ m + PairLen < Len(Code)
        /\ \A k \in 1 .. PairLen : Code[m + k].word = Pair[k]
        /\ Code' \in Seq(Placed) /\ Len(Code') = Len(Code) - PairLen
        /\ \A n \in 1 .. Len(Code') : Code'[n] = IF n <= m THEN Code[n] ELSE Code[n + PairLen]
    BY <1>3, CodeDeleted
  <1>7. Ordered(Code, sent, m)
    BY <1>3
  <1> HIDE DEF m
  <1>8. Split(j)' <=> Split(j)
    BY <1>2 DEF Split
  <1>9. CASE anchor[j] = 0
    <2>1. block_pc[j] = 0
      BY <1>1, <1>9 DEF LabelInv
    <2>2. block_pc'[j] = 0
      BY <2>1, <1>4, <1>5
    <2> QED BY <2>2, <1>2, <1>9 DEF LabelInv
  <1>10. CASE anchor[j] # 0
    <2>1. anchor[j] \in 2 .. Len(sent) + 1 /\ ~InGroup(Stream, anchor[j]) /\ ~(j >= next_id)
      BY <1>1, <1>10 DEF LabelInv
    <2>2. ASSUME ~Split(j) PROVE LabelAt(Code', block_pc'[j], anchor[j])
      <3>1. LabelAt(Code, block_pc[j], anchor[j])
        BY <2>2, <1>1, <1>10 DEF LabelInv
      <3>2. j < next_id
        BY <2>1 DEF LabelsInv, JumpInv, OrderInv, EmitterInv, TypeOK, Label
      <3>3. ASSUME NEW k \in 1 .. PairLen - 1, anchor[j] = At(Code, m) + k + 1
            PROVE  FALSE
        <4>1. /\ m + k \in m .. Len(Code) /\ m + (k + 1) \in m .. Len(Code) /\ m \in m .. Len(Code)
              /\ m + k # 0 /\ m + (k + 1) # 0
              /\ m + k \in 1 .. Len(Code) /\ m + (k + 1) \in 1 .. Len(Code)
              /\ k \in 1 .. PairLen /\ k + 1 \in 1 .. PairLen
          <5>1. \A l, x, y, z \in Nat :
                   /\ x >= 1 /\ x + l < z /\ y \in 1 .. l - 1
                   => /\ x + y \in x .. z /\ x + (y + 1) \in x .. z /\ x \in x .. z
                      /\ x + y # 0 /\ x + (y + 1) # 0
                      /\ x + y \in 1 .. z /\ x + (y + 1) \in 1 .. z
                      /\ y \in 1 .. l /\ y + 1 \in 1 .. l
            OBVIOUS
          <5>2. PairLen \in Nat /\ m \in Nat /\ k \in Nat /\ Len(Code) \in Nat
            BY <1>3, <1>4, PairFacts
          <5>3. m >= 1 /\ m + PairLen < Len(Code)
            BY <1>4, <1>6
          <5> QED BY <5>1, <5>2, <5>3
        <4>2. /\ At(Code, m) = Len(sent) - Len(Code) + m
              /\ At(Code, m + k) = Len(sent) - Len(Code) + (m + k)
              /\ At(Code, m + (k + 1)) = Len(sent) - Len(Code) + (m + (k + 1))
          BY <4>1, <1>7 DEF Ordered
        <4>3. Code[m + k].at = anchor[j] - 1 /\ Code[m + (k + 1)].at = anchor[j]
          <5>1. Code[m + k].at = At(Code, m + k) /\ Code[m + (k + 1)].at = At(Code, m + (k + 1))
            BY <4>1 DEF At
          <5> QED BY <5>1, <4>2, <3>3, <1>3, <1>4
        <4>4. /\ sent[anchor[j] - 1] = Pair[k] /\ sent[anchor[j]] = Pair[k + 1]
              /\ anchor[j] - 1 \in 1 .. Len(sent) /\ anchor[j] \in 1 .. Len(sent)
          <5>1. /\ Code[m + k].word = sent[Code[m + k].at] /\ Code[m + k].at \in 1 .. Len(sent)
                /\ Code[m + (k + 1)].word = sent[Code[m + (k + 1)].at] /\ Code[m + (k + 1)].at \in 1 .. Len(sent)
            BY <4>1, <1>7 DEF Ordered
          <5>2. Code[m + k].word = Pair[k] /\ Code[m + (k + 1)].word = Pair[k + 1]
            BY <4>1, <1>6
          <5> QED BY <5>1, <5>2, <4>3
        <4>5. anchor[j] \in 2 .. Len(sent) /\ anchor[j] \in 2 .. Len(Stream)
          <5>1. Len(sent) \in Nat /\ Len(Stream) \in Nat /\ Len(sent) <= Len(Stream)
            BY <1>3, StreamWords, SMTT(30)
          <5>2. \A x : x \in 1 .. Len(sent) /\ x - 1 \in 1 .. Len(sent) =>
                        x \in 2 .. Len(sent) /\ x \in 2 .. Len(Stream)
            BY <5>1
          <5> QED BY <5>2, <4>4
        <4>6. Stream[anchor[j] - 1] = Pair[k] /\ Stream[anchor[j]] = Pair[k + 1]
          <5>1. \A n \in 1 .. Len(sent) : Stream[n] = sent[n]
            BY <1>3, StreamWords
          <5> QED BY <5>1, <4>4
        <4>7. CASE k < Half
          <5>1. k \in 1 .. Half /\ k + 1 \in 1 .. Half /\ Half - k \in 1 .. Half - 1
                /\ Half + 1 - k = (Half - k) + 1 /\ Half + 1 - (k + 1) = Half - k
            BY <4>7, PairFacts
          <5>2. Pair[k] = Push((Half - k) + 1) /\ Pair[k + 1] = Push(Half - k)
            BY <5>1, PairFacts
          <5> QED BY <5>1, <5>2, <4>5, <4>6, <2>1 DEF InGroup
        <4>8. CASE k = Half
          <5>1. /\ k \in 1 .. Half /\ k + 1 \in Half + 1 .. PairLen
                /\ Half + 1 - k = 1 /\ (k + 1) - Half = 1
            BY <4>8, PairFacts
          <5>2. Pair[k] = Push(1) /\ Pair[k + 1] = Pop(1)
            BY <5>1, PairFacts
          <5> QED BY <5>2, <4>4, <4>5, <2>2 DEF Split
        <4>9. CASE k > Half
          <5>1. /\ k \in Half + 1 .. PairLen /\ k + 1 \in Half + 1 .. PairLen
                /\ k - Half \in 1 .. Half - 1 /\ (k + 1) - Half = (k - Half) + 1
            BY <4>9, PairFacts
          <5>2. Pair[k] = Pop(k - Half) /\ Pair[k + 1] = Pop((k - Half) + 1)
            BY <5>1, PairFacts
          <5> QED BY <5>1, <5>2, <4>5, <4>6, <2>1 DEF InGroup
        <4> QED BY <4>7, <4>8, <4>9, PairFacts
      <3>4. LabelAt(Code', IF block_pc[j] > 2 * m THEN (block_pc[j] - 2 * PairLen) % U16
                           ELSE block_pc[j], anchor[j])
        <4>1. 2 * Len(Code) < U16 /\ anchor[j] \in Nat
          BY <1>3, <2>1 DEF U16
        <4>2. \A k \in 1 .. PairLen - 1 : anchor[j] # At(Code, m) + k + 1
          BY <3>3
        <4>3. Code \in Seq(Placed) /\ sent \in Seq(Word) /\ m \in Nat /\ block_pc[j] \in Nat
          BY <1>3, <1>4
        <4> DEFINE d == Code'
        <4>4. /\ d \in Seq(Placed) /\ Len(d) = Len(Code) - PairLen /\ m + PairLen < Len(Code)
              /\ \A n \in 1 .. Len(d) : d[n] = IF n <= m THEN Code[n] ELSE Code[n + PairLen]
          BY <1>6
        <4> HIDE DEF d
        <4>5. LabelAt(d, IF block_pc[j] > 2 * m THEN (block_pc[j] - 2 * PairLen) % U16
                         ELSE block_pc[j], anchor[j])
          BY <4>1, <4>2, <4>3, <4>4, <3>1, <1>7, LabelDelete, ZenonT(30)
        <4> QED BY <4>5 DEF d
      <3> QED BY <3>2, <3>4, <1>5
    <2> QED BY <2>1, <2>2, <1>2, <1>8 DEF LabelInv
  <1> QED BY <1>9, <1>10

\* Where a label is put down: between instructions, behind the first word.
LEMMA LabelPut ==
  ASSUME LabelsInv, [Next]_vars, Idle, NEW j \in Label, Code' = Code, sent' = sent, todo' = todo,
         j < next_id', next_id' \in Nat, block_pc'[j] = ts_pc, anchor'[j] = Len(sent) + 1
  PROVE  LabelInv(j)'
  <1>1. /\ EmitterInv /\ Ordered(Code, sent, Len(out) + scan) /\ Code \in Seq(Placed)
        /\ Len(out) + scan \in Nat /\ ts_pc = 2 * Len(Code) /\ sent \in Seq(Word) /\ Len(sent) \in Nat
    BY LabelsFacts, StreamWords, SMTT(30)
  <1>2. Stream' = Stream /\ Len(Stream) = Len(sent) /\ Len(sent) >= 1
    <2>1. Len(Stream) = Len(sent) + Len(todo) /\ Len(todo) = 0
      BY <1>1, StreamWords DEF Idle
    <2>2. Len(Stream) >= 1
      BY DEF LabelsInv, Prologue
    <2> QED BY <1>1, <2>1, <2>2 DEF Stream
  <1>3. LabelAt(Code, 2 * Len(Code), Len(sent) + 1)
    BY <1>1, LabelHere
  <1>4. ~InGroup(Stream', Len(sent) + 1)
    BY <1>1, <1>2 DEF InGroup
  <1>5. Len(sent) + 1 \in 2 .. Len(sent) + 1 /\ Len(sent) + 1 # 0
    BY <1>1, <1>2
  <1>6. ~(j >= next_id')
    BY DEF Label
  <1> QED BY <1>1, <1>3, <1>4, <1>5, <1>6 DEF LabelInv

\* The label of the open block that End_ closes is put down unless it is known:
\* a known one is not at offset 0.
LEMMA LabelEnded ==
  ASSUME LabelsInv, EndBlock, NEW j \in Label
  PROVE  LabelInv(j)'
  <1> DEFINE i == open[Len(open)]
  <1>1. /\ Idle /\ open # <<>>
        /\ block_pc' = (IF block_pc[i] = 0 THEN [block_pc EXCEPT ![i] = ts_pc] ELSE block_pc)
        /\ anchor' = (IF anchor[i] = 0 THEN [anchor EXCEPT ![i] = Len(sent) + 1] ELSE anchor)
        /\ UNCHANGED <<buffer, out, ts_pc, next_id, todo, scan, phase, sent>>
    BY DEF EndBlock
  <1>2. /\ Code' = Code /\ sent' = sent /\ todo' = todo /\ next_id' = next_id
    BY <1>1 DEF Code
  <1>3. [Next]_vars
    BY DEF Next
  <1>4. /\ open \in Seq(Label) /\ block_pc \in [Label -> Nat] /\ anchor \in [Label -> Nat] /\ next_id \in Nat
        /\ Code \in Seq(Placed) /\ Len(Code) \in Nat
    BY LabelsFacts, SMTT(30) DEF EmitterInv, TypeOK
  <1>5. Len(open) \in 1 .. Len(open)
    BY <1>1, <1>4
  <1>6. i \in Label /\ i < next_id
    BY <1>4, <1>5 DEF LabelsInv
  <1> HIDE DEF i
  <1>7. LabelInv(j)
    BY DEF LabelsInv
  <1>8. CASE j # i
    <2>1. block_pc'[j] = block_pc[j] /\ anchor'[j] = anchor[j]
      BY <1>1, <1>4, <1>6, <1>8
    <2> QED BY <2>1, <1>2, <1>3, LabelKept
  <1>9. CASE j = i /\ anchor[j] = 0
    <2>1. block_pc[j] = 0
      BY <1>7, <1>9 DEF LabelInv
    <2>2. block_pc'[j] = ts_pc /\ anchor'[j] = Len(sent) + 1
      BY <2>1, <1>1, <1>4, <1>9
    <2> QED BY <2>2, <1>1, <1>2, <1>3, <1>4, <1>6, <1>9, LabelPut
  <1>10. CASE j = i /\ anchor[j] # 0
    <2>1. anchor' = anchor
      BY <1>1, <1>10
    <2>2. CASE block_pc[j] # 0
      <3>1. block_pc' = block_pc
        BY <2>2, <1>1, <1>10
      <3> QED BY <2>1, <3>1, <1>2, <1>3, LabelKept
    <2>3. CASE block_pc[j] = 0
      <3>1. Split(j)
        <4> SUFFICES ASSUME ~Split(j) PROVE FALSE
          OBVIOUS
        <4>1. LabelAt(Code, block_pc[j], anchor[j]) /\ anchor[j] \in 2 .. Len(sent) + 1
          BY <1>7, <1>10 DEF LabelInv
        <4>2. PICK p \in 0 .. Len(Code) : /\ block_pc[j] = 2 * p
                                          /\ \A n \in 1 .. Len(Code) : n <= p <=> Code[n].at < anchor[j]
          BY <4>1 DEF LabelAt
        <4>3. p = 0
          BY <4>2, <2>3
        <4>4. Len(sent) >= 1
          <5>1. Len(Stream) = Len(sent) + Len(todo) /\ Len(todo) = 0 /\ Len(sent) \in Nat
            BY <1>1, LabelsFacts, StreamWords DEF Idle
          <5>2. Len(Stream) >= 1
            BY DEF LabelsInv, Prologue
          <5> QED BY <5>1, <5>2
        <4>5. Len(Code) >= 1 /\ Code[1].at = 1
          BY <4>4 DEF LabelsInv, Prologue
        <4>6. 1 \in 1 .. Len(Code) /\ 1 < anchor[j]
          BY <4>1, <4>5, <1>4
        <4>7. 1 <= p
          BY <4>2, <4>5, <4>6
        <4> QED BY <4>3, <4>7
      <3>2. Split(j)'
        BY <2>1, <3>1, <1>2 DEF Split
      <3>3. ~InGroup(Stream', anchor[j]) /\ anchor[j] \in 2 .. Len(sent) + 1 /\ ~(j >= next_id)
        BY <1>2, <1>7, <1>10 DEF LabelInv, Stream
      <3> QED BY <2>1, <3>2, <3>3, <1>2, <1>10 DEF LabelInv
    <2> QED BY <2>2, <2>3
  <1> QED BY <1>8, <1>9, <1>10

\* Every step keeps the labels.
LEMMA LabelsNext == LabelsInv /\ [Next]_vars => LabelsInv'
  <1> SUFFICES ASSUME LabelsInv, [Next]_vars PROVE LabelsInv'
    OBVIOUS
  <1>1. JumpInv' /\ Prologue' /\ EmitterInv /\ EmitterInv'
    BY JumpNext, PrologueNext, EmitterNext DEF LabelsInv, JumpInv, OrderInv
  <1>2. /\ open \in Seq(Label) /\ next_id \in 0 .. MaxLabels /\ MaxLabels \in Nat
        /\ block_pc \in [Label -> Nat] /\ anchor \in [Label -> Nat]
        /\ \A n \in 1 .. Len(open) : open[n] < next_id
    BY <1>1, EmitterAssumption DEF EmitterInv, TypeOK, LabelsInv
  <1>3. CASE StartBlock \/ StartLoop
    <2>1. /\ Idle /\ next_id \in Label /\ next_id' = next_id + 1 /\ open' = Append(open, next_id)
          /\ UNCHANGED <<buffer, out, todo, sent>>
      <3>1. /\ Idle /\ next_id < MaxLabels /\ next_id' = next_id + 1 /\ open' = Append(open, next_id)
            /\ UNCHANGED <<buffer, out, todo, sent>>
        BY <1>3 DEF StartBlock, StartLoop
      <3>2. next_id \in Label
        BY <3>1, <1>2 DEF Label
      <3> QED BY <3>1, <3>2
    <2>2. Code' = Code
      BY <2>1 DEF Code
    <2>3. \A n \in 1 .. Len(open') : open'[n] < next_id'
      <3>1. /\ Len(open') = Len(open) + 1 /\ open'[Len(open) + 1] = next_id
            /\ \A n \in 1 .. Len(open) : open'[n] = open[n]
        BY <2>1, <1>2
      <3> SUFFICES ASSUME NEW n \in 1 .. Len(open') PROVE open'[n] < next_id'
        OBVIOUS
      <3>2. CASE n = Len(open) + 1
        BY <3>1, <3>2, <2>1, <1>2
      <3>3. CASE n # Len(open) + 1
        <4>1. n \in 1 .. Len(open)
          BY <3>1, <3>3, <1>2
        <4>2. open'[n] = open[n] /\ open[n] < next_id /\ open[n] \in Nat
          BY <4>1, <3>1, <1>2, SMTT(30) DEF Label
        <4> QED BY <4>2, <2>1, <1>2
      <3> QED BY <3>2, <3>3
    <2>4. ASSUME NEW j \in Label PROVE LabelInv(j)'
      <3>1. j >= next_id' => j >= next_id
        BY <2>1, <1>2 DEF Label
      <3>2. CASE j # next_id
        <4>1. block_pc'[j] = block_pc[j] /\ anchor'[j] = anchor[j]
          BY <3>2, <2>1, <1>2, <1>3 DEF StartBlock, StartLoop
        <4> QED BY <4>1, <3>1, <2>1, <2>2, LabelKept
      <3>3. CASE j = next_id
        <4>1. LabelInv(j) /\ j >= next_id
          BY <3>3, <1>2 DEF LabelsInv
        <4>2. anchor[j] = 0 /\ block_pc[j] = 0
          BY <4>1 DEF LabelInv
        <4>3. CASE StartBlock
          <5>1. block_pc'[j] = block_pc[j] /\ anchor'[j] = anchor[j]
            BY <3>3, <4>2, <4>3, <1>2 DEF StartBlock
          <5> QED BY <5>1, <3>1, <2>1, <2>2, LabelKept
        <4>4. CASE StartLoop
          <5>1. block_pc'[j] = ts_pc /\ anchor'[j] = Len(sent) + 1
            BY <3>3, <4>4, <1>2 DEF StartLoop
          <5>2. j < next_id' /\ next_id' \in Nat
            BY <3>3, <2>1, <1>2
          <5> QED BY <5>1, <5>2, <2>1, <2>2, LabelPut
        <4> QED BY <4>3, <4>4, <1>3
      <3> QED BY <3>2, <3>3
    <2> QED BY <1>1, <2>3, <2>4 DEF LabelsInv
  <1>4. CASE EndBlock
    <2>1. open' = SubSeq(open, 1, Len(open) - 1) /\ next_id' = next_id /\ open # <<>>
      BY <1>4 DEF EndBlock
    <2>2. Len(open') = Len(open) - 1 /\ \A n \in 1 .. Len(open) - 1 : open'[n] = open[n]
      <3>1. Len(open) \in Nat /\ Len(open) >= 1
        BY <2>1, <1>2
      <3>2. \A k \in 1 .. Len(open) - 1 : open[k] \in Label
        BY <3>1, <1>2
      <3> DEFINE l == Len(open) - 1
                 o == SubSeq(open, 1, l)
      <3>3. l \in Nat /\ \A k \in 1 .. l : open[k] \in Label
        BY <3>1, <3>2
      <3> HIDE DEF l
      <3>4. Len(o) = (IF 1 <= l THEN l - 1 + 1 ELSE 0) /\ \A n \in 1 .. l - 1 + 1 : o[n] = open[1 + n - 1]
        BY <3>3, SubSeqProperties
      <3> HIDE DEF o
      <3>5. Len(o) = l /\ \A n \in 1 .. l : o[n] = open[n]
        BY <3>3, <3>4
      <3> QED BY <3>5, <2>1 DEF l, o
    <2>3. \A n \in 1 .. Len(open') : open'[n] < next_id'
      BY <2>1, <2>2, <1>2
    <2> QED BY <1>1, <1>4, <2>3, LabelEnded DEF LabelsInv
  <1>5. CASE UNCHANGED <<open, next_id>> /\ \A j \in Label : LabelInv(j)'
    BY <1>1, <1>2, <1>5 DEF LabelsInv
  <1>6. CASE EmitRawWord
    <2>1. UNCHANGED <<open, next_id>>
      BY <1>6 DEF EmitRawWord
    <2> QED BY <2>1, <1>5, <1>6, LabelEmitted
  <1>7. CASE OptimiseStep /\ PairAt(scan)
    <2>1. UNCHANGED <<open, next_id>>
      BY <1>7 DEF OptimiseStep
    <2> QED BY <2>1, <1>5, <1>7, LabelMoved
  <1>8. CASE /\ Code' = Code /\ sent' = sent /\ UNCHANGED <<open, next_id, block_pc, anchor>>
    <2>1. \A j \in Label : LabelInv(j)'
      BY <1>8, LabelKept
    <2> QED BY <2>1, <1>5, <1>8
  <1>9. \/ StartBlock \/ StartLoop \/ EndBlock \/ EmitRawWord
        \/ OptimiseStep /\ PairAt(scan)
        \/ UNCHANGED <<open, next_id, block_pc, anchor>>
    <2>1. CASE UNCHANGED vars
      BY <2>1 DEF vars
    <2>2. CASE EndFunction \/ WriteOut
      BY <2>2 DEF EndFunction, WriteOut
    <2>3. CASE OptimiseStep
      BY <2>3 DEF OptimiseStep
    <2>4. CASE Translate(PushGroup) \/ TranslatePop \/ Translate(<<Op>>)
      BY <2>4 DEF Translate, TranslatePop
    <2>5. CASE TranslateJump
      BY <2>5 DEF Translate, TranslateJump
    <2> QED BY <2>1, <2>2, <2>3, <2>4, <2>5 DEF Next
  <1> QED BY <1>3, <1>4, <1>6, <1>7, <1>8, <1>9, CodeSteps

\* A label that a jump may lead to is not inside a pair, and so has its place.
LEMMA LabelsFollow == LabelsInv => LabelsFollowCode
  <1> SUFFICES ASSUME LabelsInv, NEW j \in Label, Live(j), anchor[j] # 0, NEW n \in 1 .. Len(Code)
               PROVE  2 * n <= block_pc[j] <=> Code[n].at < anchor[j]
    BY DEF LabelsFollowCode
  <1>1. LabelAt(Code, block_pc[j], anchor[j])
    BY DEF LabelsInv, LabelInv, Live
  <1>2. PICK p \in 0 .. Len(Code) : /\ block_pc[j] = 2 * p
                                    /\ \A k \in 1 .. Len(Code) : k <= p <=> Code[k].at < anchor[j]
    BY <1>1 DEF LabelAt
  <1>3. 2 * n <= 2 * p <=> n <= p
    OBVIOUS
  <1> QED BY <1>2, <1>3

\* LabelsFollowCode: where the first function has a prologue, the label of every
\* block that code may jump to lies where the translator put it, however many
\* pairs rtc_optimise deletes, for buffers and pairs of any size.
THEOREM LabelsStayAtTheirCode == ASSUME ~Bare PROVE Spec => []LabelsFollowCode
  BY LabelsInit, LabelsNext, LabelsFollow, PTL DEF Spec
=============================================================================
