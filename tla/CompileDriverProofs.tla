------------------------ MODULE CompileDriverProofs ------------------------
(***************************************************************************)
(* Proofs about the compile driver (CompileDriver), for every well-formed   *)
(* module, every page size, chip and code space, and any number of resets.  *)
(* The writer is used as the log it implements (FlashPagesProofs): a call   *)
(* changes the image at once, and the steps of the call do not change it.   *)
(***************************************************************************)
EXTENDS CompileDriver, SequenceTheorems, TLAPS

W == INSTANCE FlashPagesProofs

\* The words of the functions in front of the one with the index number.
Begun == IF number <= Len(Native) THEN 0 ELSE FunctionCut(program, number - 1 - Len(Native))

\* The end of the function with the index number.
Until == FunctionCut(program, number - Len(Native))

\* The first n words of the program are written as they were emitted, or linked.
Emitted(n)  == \A k \in 0 .. n - 1 : Writer!Image[CodeStart + k] = program.code[k + 1]
LinkedTo(n) == \A k \in 0 .. n - 1 : Writer!Image[CodeStart + k] = Linked(k)

\* The writer is open for the driver, or is closing or closed.
Writing ==
    /\ pageaddress # 0 /\ pc \notin {"release", "panic"}
    /\ pc \in {"erase", "program"} => data # <<>>
Closing ==
    /\ pc # "panic"
    /\ pageaddress # 0 => pc \in {"erase", "program", "release"} /\ data = <<>>

\* Between two functions: the code so far is written, and ends at next_method.
BindInv ==
    /\ Closing /\ Emitted(Begun)
    /\ next_method = CodeStart + Begun /\ ts_pc = Begun

\* In a function: what is not left has gone to the writer.
EmitInv ==
    /\ number \in Len(Native) + 1 .. Functions(program)
    /\ next_method = CodeStart + Begun
    /\ Len(left) <= Until - Begun
    /\ \A i \in 1 .. Len(left) : left[i] = program.code[Until - Len(left) + i]
    /\ pc # "panic" =>
         /\ Writing /\ Writer!Cursor = CodeStart + ts_pc
         /\ ts_pc = Until - Len(left) /\ Emitted(ts_pc)

\* While the addresses are filled in: linked up to the walk, as emitted behind it.
RefillInv ==
    /\ next_method = CodeStart /\ number = Functions(program) + 1
    /\ CodeStart + Size <= CodeEnd /\ prev_pc = Size
    /\ walk \in program.opcodes \cup {Size}
    /\ pc # "panic" =>
         /\ Writing /\ Writer!Cursor = CodeStart + walk
         /\ LinkedTo(walk)
         /\ \A k \in walk .. Size - 1 : Writer!Image[CodeStart + k] = program.code[k + 1]

\* When the refill is done.
RunInv ==
    /\ Closing /\ LinkedTo(Size)
    /\ CodeStart + Size <= CodeEnd /\ number = Functions(program) + 1

\* The function list has the addresses at which the functions were put.
CompiledInv == \A n \in 1 .. number - 1 : compiled[n] = FunctionAt(n - 1)

\* The invariant of the driver.
DriverInv ==
    /\ Writer!WriterInv /\ WellFormed(program) /\ TypeOK /\ CompiledInv
    /\ stage = "bind"     => BindInv
    /\ stage = "emit"     => EmitInv
    /\ stage = "refill"   => RefillInv
    /\ stage = "run"      => RunInv
    /\ stage = "notfound" => Closing
    /\ stage = "nomemory" => pc = "panic"

-----------------------------------------------------------------------------
(* The writer, as FlashPagesProofs has it.                                  *)

\* The writer of the driver is the one that is proved about.
LEMMA SameWriter ==
  /\ W!FlashAssumption
  /\ W!WriterInv = Writer!WriterInv /\ W!Image = Writer!Image /\ W!Cursor = Writer!Cursor
  /\ W!Requests = Writer!Requests /\ W!Skips = Writer!Skips /\ W!Addr = Writer!Addr
  BY DriverAssumption DEF W!FlashAssumption, Writer!FlashAssumption,
     W!WriterInv, Writer!WriterInv, W!TypeOK, Writer!TypeOK, W!CallInProgress, Writer!CallInProgress,
     W!TailIsFlash, Writer!TailIsFlash, W!ChunkInBuffer, Writer!ChunkInBuffer,
     W!BytesOnThisPage, Writer!BytesOnThisPage, W!FlashPage, Writer!FlashPage,
     W!Image, Writer!Image, W!Cursor, Writer!Cursor, W!RawPosition, Writer!RawPosition,
     W!Remaining, Writer!Remaining, W!Inflight, Writer!Inflight, W!PageCells, Writer!PageCells,
     W!Requests, Writer!Requests, W!Skips, Writer!Skips, W!Addr, Writer!Addr, W!Offset, Writer!Offset

\* Opening the writer changes no cell and sets the cursor.
LEMMA Opened ==
  ASSUME Writer!WriterInv, NEW start \in CodeStart .. CodeEnd, Writer!OpenRaw(start)
  PROVE  /\ Writer!WriterInv' /\ Writer!Image' = Writer!Image /\ Writer!Cursor' = start
         /\ pc' = "ready" /\ pageaddress' # 0 /\ pc = "ready"
  <1>1. W!WriterInv /\ W!OpenRaw(start)
    BY SameWriter DEF Writer!OpenRaw, W!OpenRaw, Writer!FlashPage, W!FlashPage, Writer!Offset, W!Offset
  <1>2. W!WriterInv' /\ W!Log!Open(start)
    BY <1>1, SameWriter, W!OpenInv, W!OpenRefines
  <1>3. (W!WriterInv = Writer!WriterInv /\ W!Image = Writer!Image /\ W!Cursor = Writer!Cursor)'
    BY SameWriter, PTL
  <1>4. W!Image' = W!Image /\ W!Cursor' = start
    BY <1>2 DEF W!Log!Open
  <1>5. pc' = "ready" /\ pc = "ready"
    BY DEF Writer!OpenRaw
  <1>6. start # 0 /\ Writer!Cursor' = start
    BY <1>3, <1>4, DriverAssumption DEF Writer!FlashAssumption
  <1>7. pageaddress' # 0
    BY <1>6 DEF Writer!Cursor
  <1> QED BY <1>2, <1>3, <1>4, <1>5, <1>6, <1>7, SameWriter

\* The image with d laid over it at the cursor.
Laid(d) ==
    [a \in Writer!Addr |->
        IF a - Writer!Cursor + 1 \in DOMAIN d /\ d[a - Writer!Cursor + 1] # Keep
        THEN d[a - Writer!Cursor + 1] ELSE Writer!Image[a]]

\* A write is laid over the image at the cursor, or stops the device.
LEMMA Written ==
  ASSUME Writer!WriterInv, NEW d \in Writer!Requests \cup Writer!Skips, Writer!WriteCall(d)
  PROVE  /\ Writer!WriterInv' /\ pc = "ready" /\ pageaddress # 0 /\ pageaddress' = pageaddress
         /\ DOMAIN d = 1 .. Len(d) /\ Len(d) \in Nat
         /\ \/ pc' = "panic" /\ Writer!Image' = Writer!Image
            \/ /\ pc' = "copy" /\ Writer!Image' = Laid(d)
               /\ Writer!Cursor' = Writer!Cursor + Len(d) /\ Writer!Cursor + Len(d) <= CodeEnd
  <1>1. W!WriterInv /\ W!WriteCall(d) /\ d \in W!Requests \cup W!Skips
    BY SameWriter DEF Writer!WriteCall, W!WriteCall
  <1>2. W!WriterInv' /\ (W!Log!Write(d) \/ W!Log!Halt)
    BY <1>1, SameWriter, W!WriteCallInv, W!WriteRefines
  <1>3. (W!WriterInv = Writer!WriterInv /\ W!Image = Writer!Image /\ W!Cursor = Writer!Cursor)'
    BY SameWriter, PTL
  <1>4. /\ pc = "ready" /\ pageaddress # 0 /\ pageaddress' = pageaddress /\ pc' \in {"panic", "copy"}
    BY DEF Writer!WriteCall
  <1>5. ASSUME W!Log!Halt PROVE pc' = "panic" /\ Writer!Image' = Writer!Image
    <2>1. pc' = "panic" /\ W!Image' = W!Image
      BY <1>5 DEF W!Log!Halt
    <2> QED BY <2>1, <1>3, SameWriter
  <1>5a. DOMAIN d = 1 .. Len(d) /\ Len(d) \in Nat
    BY <1>1, SameWriter, W!DataShape
  <1>6. ASSUME W!Log!Write(d)
        PROVE  /\ Writer!Image' = Laid(d)
               /\ Writer!Cursor' = Writer!Cursor + Len(d) /\ Writer!Cursor + Len(d) <= CodeEnd
    <2>1. /\ W!Image' = W!Log!Overlay(W!Image, W!Cursor, d)
          /\ W!Cursor' = W!Cursor + Len(d) /\ W!Cursor + Len(d) <= CodeEnd
      BY <1>6 DEF W!Log!Write
    <2>2. W!Log!Overlay(Writer!Image, Writer!Cursor, d) = Laid(d)
      BY DEF W!Log!Overlay, Laid, W!Log!Addr, Writer!Addr
    <2> QED BY <2>1, <2>2, <1>3, SameWriter
  <1>7. Writer!WriterInv'
    BY <1>2, <1>3
  <1>8. \/ pc' = "panic" /\ Writer!Image' = Writer!Image
        \/ /\ pc' = "copy" /\ Writer!Image' = Laid(d)
           /\ Writer!Cursor' = Writer!Cursor + Len(d) /\ Writer!Cursor + Len(d) <= CodeEnd
    <2>1. CASE W!Log!Halt
      BY <2>1, <1>5
    <2>2. CASE W!Log!Write(d)
      <3>1. pc' # "panic"
        BY <2>2 DEF W!Log!Write
      <3> QED BY <2>2, <3>1, <1>4, <1>6
    <2> QED BY <1>2, <2>1, <2>2
  <1> QED BY <1>4, <1>5a, <1>7, <1>8

\* What the invariant of the writer says of the cursor, and of an idle writer.
LEMMA CursorFacts ==
  ASSUME Writer!WriterInv
  PROVE  /\ pageaddress \in Nat /\ buf_len \in Nat
         /\ pc = "ready" /\ pageaddress # 0 => Writer!Cursor = Writer!RawPosition /\ Writer!RawPosition <= CodeEnd
         /\ pc # "panic" /\ pageaddress = 0 => pc = "ready"
         /\ pc \in {"copy", "advance"} => data # <<>>
         /\ pc \in {"ready", "release", "panic"} => data = <<>>
         /\ pc \in {"ready", "copy", "advance", "erase", "program", "release", "panic"}
  <1>1. pageaddress \in Nat /\ buf_len \in Nat
    BY DriverAssumption DEF Writer!WriterInv, Writer!TypeOK, Writer!Offset, Writer!FlashAssumption
  <1>2. /\ pc # "panic" /\ pageaddress = 0 => pc = "ready"
        /\ pc \in {"copy", "advance"} => data # <<>>
        /\ pc \in {"ready", "release", "panic"} => data = <<>>
        /\ data = <<>> => done = 0
        /\ pc \in {"ready", "copy", "advance", "erase", "program", "release", "panic"}
        /\ pageaddress # 0 /\ pc # "panic" => Writer!RawPosition + Writer!Remaining <= CodeEnd
    BY DEF Writer!WriterInv, Writer!CallInProgress, Writer!TypeOK
  <1>3. ASSUME pc = "ready", pageaddress # 0
        PROVE  Writer!Cursor = Writer!RawPosition /\ Writer!RawPosition <= CodeEnd
    <2>1. Writer!Remaining = 0
      <3>1. data = <<>> /\ done = 0 /\ Len(<<>>) = 0
        BY <1>2, <1>3
      <3> QED BY <3>1 DEF Writer!Remaining
    <2>2. Writer!RawPosition \in Nat
      BY <1>1 DEF Writer!RawPosition
    <2>3. Writer!RawPosition + Writer!Remaining <= CodeEnd
      BY <1>2, <1>3
    <2> QED BY <1>3, <2>1, <2>2, <2>3 DEF Writer!Cursor
  <1> QED BY <1>1, <1>2, <1>3

\* The head of a close changes nothing the driver sees; the page is being saved.
LEMMA WriterCloses ==
  ASSUME Writer!WriterInv, Writer!CloseCall
  PROVE  /\ Writer!WriterInv' /\ Writer!Image' = Writer!Image /\ Closing'
         /\ pc = "ready" /\ pageaddress # 0
  <1>1. W!WriterInv /\ W!CloseCall
    BY SameWriter DEF Writer!CloseCall, W!CloseCall, Writer!Modified, W!Modified,
                      Writer!FlashPage, W!FlashPage, Writer!Offset, W!Offset
  <1>2. W!WriterInv' /\ W!Image' = W!Image
    BY <1>1, SameWriter, W!CloseInv, W!CloseRefines
  <1>3. (W!WriterInv = Writer!WriterInv /\ W!Image = Writer!Image)'
    BY SameWriter, PTL
  <1>4. pc = "ready" /\ pageaddress # 0 /\ pc' \in {"erase", "release"} /\ data' = data
    BY DEF Writer!CloseCall
  <1>5. data = <<>>
    BY <1>4, CursorFacts
  <1> QED BY <1>2, <1>3, <1>4, <1>5, SameWriter DEF Closing

\* The steps of a call change neither the image nor, unless it is a close, the
\* cursor.
LEMMA Stepped ==
  ASSUME Writer!WriterInv, Writer!Step
  PROVE  /\ Writer!WriterInv' /\ Writer!Image' = Writer!Image
         /\ Writing => Writing' /\ Writer!Cursor' = Writer!Cursor
         /\ Closing => Closing'
  <1>1. W!WriterInv
    BY SameWriter
  <1>2. (W!WriterInv = Writer!WriterInv /\ W!Image = Writer!Image /\ W!Cursor = Writer!Cursor)'
    BY SameWriter, PTL
  <1>3. /\ Writer!CopyChunk => W!CopyChunk
        /\ Writer!Advance => W!Advance
        /\ Writer!ErasePage => W!ErasePage
        /\ Writer!ProgramPage => W!ProgramPage
        /\ Writer!Release => W!Release
    BY DEF W!CopyChunk, Writer!CopyChunk, W!Advance, Writer!Advance, W!ErasePage, Writer!ErasePage,
           W!ProgramPage, Writer!ProgramPage, W!Release, Writer!Release, W!BytesOnThisPage,
           Writer!BytesOnThisPage, W!Copied, Writer!Copied, W!Modified, Writer!Modified,
           W!FlashPage, Writer!FlashPage, W!PageCells, Writer!PageCells, W!Addr, Writer!Addr,
           W!Offset, Writer!Offset
  <1>4. CASE Writer!CopyChunk
    <2>1. W!WriterInv' /\ UNCHANGED <<W!Image, W!Cursor>>
      BY <1>1, <1>3, <1>4, SameWriter, W!CopyChunkInv, W!CopyRefines
    <2>2. pc = "copy" /\ pc' \in {"erase", "advance"} /\ data' = data /\ pageaddress' = pageaddress
      BY <1>4 DEF Writer!CopyChunk
    <2>3. data # <<>>
      BY <2>2, CursorFacts
    <2> QED BY <1>2, <2>1, <2>2, <2>3, SameWriter DEF Writing, Closing
  <1>5. CASE Writer!Advance
    <2>1. W!WriterInv' /\ UNCHANGED <<W!Image, W!Cursor>>
      BY <1>1, <1>3, <1>5, SameWriter, W!AdvanceInv, W!AdvanceRefines
    <2>2. pc = "advance" /\ pc' \in {"ready", "copy"}
      BY <1>5 DEF Writer!Advance
    <2>3. data # <<>> /\ pageaddress # 0
      BY <2>2, CursorFacts
    <2>4. pageaddress # 0 => pageaddress' # 0
      <3>1. pageaddress' = pageaddress + PageSize \/ pageaddress' = pageaddress
        BY <1>5 DEF Writer!Advance
      <3>2. pageaddress \in Nat
        BY CursorFacts
      <3>3. PageSize \in Nat /\ PageSize > 0
        BY DriverAssumption DEF Writer!FlashAssumption
      <3>4. pageaddress # 0 => pageaddress + PageSize # 0
        BY <3>2, <3>3
      <3> QED BY <3>1, <3>4
    <2> QED BY <1>2, <2>1, <2>2, <2>3, <2>4, SameWriter DEF Writing, Closing
  <1>6. CASE Writer!ErasePage
    <2>1. W!WriterInv' /\ UNCHANGED <<W!Image, W!Cursor>>
      BY <1>1, <1>3, <1>6, SameWriter, W!EraseInv, W!EraseRefines DEF W!Log!ErasePage
    <2>2. pc = "erase" /\ pc' = "program" /\ data' = data /\ pageaddress' = pageaddress
      BY <1>6 DEF Writer!ErasePage
    <2> QED BY <1>2, <2>1, <2>2, SameWriter DEF Writing, Closing
  <1>7. CASE Writer!ProgramPage
    <2>1. W!WriterInv' /\ UNCHANGED <<W!Image, W!Cursor>>
      BY <1>1, <1>3, <1>7, SameWriter, W!ProgramInv, W!ProgramRefines DEF W!Log!ProgramPage
    <2>2. /\ pc = "program" /\ pc' = (IF data = <<>> THEN "release" ELSE "advance")
          /\ data' = data /\ pageaddress' = pageaddress
      BY <1>7 DEF Writer!ProgramPage
    <2> QED BY <1>2, <2>1, <2>2, SameWriter DEF Writing, Closing
  <1>8. CASE Writer!Release
    <2>1. W!WriterInv' /\ UNCHANGED W!Image
      BY <1>1, <1>3, <1>8, SameWriter, W!ReleaseInv, W!ReleaseRefines DEF W!Log!Close
    <2>2. pc = "release" /\ pc' = "ready" /\ pageaddress' = 0
      BY <1>8 DEF Writer!Release
    <2> QED BY <1>2, <2>1, <2>2, SameWriter DEF Writing, Closing
  <1> QED BY <1>4, <1>5, <1>6, <1>7, <1>8 DEF Writer!Step

\* A reset leaves a closed writer.
LEMMA Restarted ==
  ASSUME Writer!WriterInv, Writer!Reset
  PROVE  Writer!WriterInv' /\ Closing'
  <1>1. W!WriterInv /\ W!Reset
    BY SameWriter DEF Writer!Reset, W!Reset
  <1>2. W!WriterInv'
    BY <1>1, SameWriter, W!ResetInv
  <1>3. (W!WriterInv = Writer!WriterInv)'
    BY SameWriter, PTL
  <1> QED BY <1>2, <1>3 DEF Writer!Reset, Closing

\* No memory for the page buffer stops the device.
LEMMA NoMemory ==
  ASSUME Writer!WriterInv, Writer!OpenFails
  PROVE  Writer!WriterInv' /\ pc' = "panic" /\ Writer!Image' = Writer!Image
  <1>1. W!WriterInv /\ W!OpenFails
    BY SameWriter DEF Writer!OpenFails, W!OpenFails
  <1>2. W!WriterInv' /\ W!Log!Halt
    BY <1>1, SameWriter, W!OpenFailsInv, W!OpenFailsRefines
  <1>3. (W!WriterInv = Writer!WriterInv /\ W!Image = Writer!Image)'
    BY SameWriter, PTL
  <1>4. W!Image' = W!Image
    BY <1>2 DEF W!Log!Halt
  <1> QED BY <1>2, <1>3, <1>4, SameWriter DEF Writer!OpenFails

\* A step that leaves the writer alone.
LEMMA WriterSame ==
  ASSUME Writer!WriterInv, UNCHANGED writer
  PROVE  /\ Writer!WriterInv' /\ Writer!Image' = Writer!Image /\ Writer!Cursor' = Writer!Cursor
         /\ (Writing' <=> Writing) /\ (Closing' <=> Closing)
  <1>1. W!WriterInv /\ UNCHANGED W!vars
    BY SameWriter DEF writer, W!vars
  <1>2. W!WriterInv'
    BY <1>1, SameWriter, W!StutterInv
  <1>3. (W!WriterInv = Writer!WriterInv)'
    BY SameWriter, PTL
  <1>4. Writer!Image' = Writer!Image /\ Writer!Cursor' = Writer!Cursor
    BY DEF writer, Writer!Image, Writer!Cursor, Writer!RawPosition, Writer!Remaining, Writer!Inflight
  <1> QED BY <1>2, <1>3, <1>4 DEF writer, Writing, Closing

\* Between two calls the image behind the cursor is the chip, and all of it is
\* when the writer is closed.
LEMMA ChipBehindCursor ==
  ASSUME Writer!WriterInv, pc = "ready", NEW a \in Writer!Addr,
         pageaddress = 0 \/ a >= Writer!Cursor
  PROVE  Writer!Image[a] = flash[a]
  <1>1. CASE pageaddress = 0
    BY <1>1 DEF Writer!Image
  <1>2. CASE pageaddress # 0 /\ a >= Writer!Cursor
    <2>1. data = <<>> /\ Writer!Cursor = Writer!RawPosition /\ pageaddress \in Nat /\ buf_len \in Nat
      BY <1>2, CursorFacts
    <2>2. Writer!Image[a] = W!Saved(a)
      BY <2>1, SameWriter, W!NothingWaiting
    <2>3. CASE a \in Writer!PageCells(pageaddress)
      <3>1. a - pageaddress \in buf_len .. PageSize - 1 /\ pageaddress + (a - pageaddress) = a
        BY <2>1, <2>3, <1>2, DriverAssumption
           DEF Writer!PageCells, Writer!RawPosition, Writer!Addr, Writer!FlashAssumption
      <3>2. pagebuffer[a - pageaddress] = flash[a]
        BY <3>1, <1>2 DEF Writer!WriterInv, Writer!TailIsFlash
      <3> QED BY <2>2, <2>3, <3>2, <1>2 DEF W!Saved, W!PageCells, Writer!PageCells
    <2>4. CASE a \notin Writer!PageCells(pageaddress)
      BY <2>2, <2>4 DEF W!Saved, W!PageCells, Writer!PageCells
    <2> QED BY <2>3, <2>4
  <1> QED BY <1>1, <1>2

-----------------------------------------------------------------------------
(* The module.                                                              *)

\* The constants.
LEMMA Constants ==
  /\ CodeStart \in Nat /\ CodeEnd \in Nat /\ CodeStart >= 1 /\ MaxWrite \in Nat /\ MaxWrite >= 2
  /\ Keep \notin Value /\ OPCODE_JMP \in Value /\ OPCODE_CALL \in Value /\ OPCODE_JMP # OPCODE_CALL
  /\ Len(Native) \in Nat /\ \A n \in 1 .. Len(Native) : Native[n] \in Value
  /\ \A n \in CodeStart .. CodeEnd : n \in Value
  /\ \A k \in Nat : CodeStart + k < CodeEnd => CodeStart + k \in Writer!Addr
  /\ CodeStart <= CodeEnd /\ Value \subseteq Nat
  BY DriverAssumption DEF Writer!FlashAssumption, Writer!Addr

\* The program and its functions.
LEMMA ProgramShape ==
  ASSUME WellFormed(program)
  PROVE  /\ program.code \in Seq(Value) /\ Size \in Nat
         /\ Len(program.cuts) \in Nat /\ Len(program.cuts) >= 1
         /\ Functions(program) \in Nat /\ Functions(program) = Len(Native) + Len(program.cuts)
         /\ \A f \in 0 .. Len(program.cuts) : FunctionCut(program, f) \in 0 .. Size
         /\ \A f \in 1 .. Len(program.cuts) : /\ FunctionCut(program, f) = program.cuts[f]
                                              /\ FunctionCut(program, f - 1) <= program.cuts[f]
         /\ FunctionCut(program, Len(program.cuts)) = Size
         /\ \A k \in 0 .. Size - 1 : program.code[k + 1] \in Value
  <1>1. /\ program.code \in Seq(Value) /\ program.cuts \in Seq(0 .. Size) /\ program.cuts # <<>>
        /\ program.cuts[Len(program.cuts)] = Size
        /\ \A f \in 1 .. Len(program.cuts) : FunctionCut(program, f - 1) <= program.cuts[f]
    BY DEF WellFormed, Size
  <1>2. Size \in Nat /\ Len(program.cuts) \in Nat /\ Len(program.cuts) >= 1 /\ Len(Native) \in Nat
    BY <1>1, Constants DEF Size
  <1>3. \A f \in 1 .. Len(program.cuts) : FunctionCut(program, f) = program.cuts[f] /\ program.cuts[f] \in 0 .. Size
    BY <1>1, <1>2, SMTT(30) DEF FunctionCut
  <1>4. \A f \in 0 .. Len(program.cuts) : FunctionCut(program, f) \in 0 .. Size
    <2> SUFFICES ASSUME NEW f \in 0 .. Len(program.cuts) PROVE FunctionCut(program, f) \in 0 .. Size
      OBVIOUS
    <2>1. CASE f = 0
      BY <2>1, <1>2 DEF FunctionCut
    <2>2. CASE f # 0
      BY <2>2, <1>2, <1>3
    <2> QED BY <2>1, <2>2
  <1>5. FunctionCut(program, Len(program.cuts)) = Size
    BY <1>1, <1>2, <1>3
  <1>6. \A k \in 0 .. Size - 1 : program.code[k + 1] \in Value
    <2> SUFFICES ASSUME NEW k \in 0 .. Size - 1 PROVE program.code[k + 1] \in Value
      OBVIOUS
    <2>1. k + 1 \in 1 .. Len(program.code)
      BY <1>2 DEF Size
    <2> QED BY <2>1, <1>1
  <1> QED BY <1>1, <1>2, <1>3, <1>4, <1>5, <1>6, SMTT(30) DEF Functions

\* Where a function begins and ends.
LEMMA BegunFacts ==
  ASSUME WellFormed(program), number \in 1 .. Functions(program) + 1
  PROVE  /\ Begun \in 0 .. Size
         /\ number \in Len(Native) + 1 .. Functions(program) =>
              /\ Until \in Begun .. Size /\ FunctionAt(number - 1) = CodeStart + Begun
              /\ FunctionCode(program, number - Len(Native)) = SubSeq(program.code, Begun + 1, Until)
         /\ number = Functions(program) + 1 => Begun = Size
  <1>1. /\ Size \in Nat /\ Len(Native) \in Nat /\ Len(program.cuts) \in Nat /\ number \in Nat
        /\ Functions(program) = Len(Native) + Len(program.cuts) /\ Len(program.cuts) >= 1
    BY ProgramShape, Constants
  <1>2. CASE number <= Len(Native)
    BY <1>1, <1>2 DEF Begun
  <1>3. CASE ~(number <= Len(Native))
    <2> DEFINE f == number - 1 - Len(Native)
    <2>1. f \in 0 .. Len(program.cuts) /\ Begun = FunctionCut(program, f)
      BY <1>1, <1>3 DEF Begun
    <2>2. Begun \in 0 .. Size
      BY <2>1, ProgramShape
    <2>3. number = Functions(program) + 1 => Begun = Size
      <3>1. number = Functions(program) + 1 => f = Len(program.cuts)
        BY <1>1
      <3> QED BY <3>1, <2>1, ProgramShape
    <2>4. ASSUME number \in Len(Native) + 1 .. Functions(program)
          PROVE  /\ Until \in Begun .. Size /\ FunctionAt(number - 1) = CodeStart + Begun
                 /\ FunctionCode(program, number - Len(Native)) = SubSeq(program.code, Begun + 1, Until)
      <3>1. number - Len(Native) \in 1 .. Len(program.cuts) /\ (number - Len(Native)) - 1 = f
            /\ number - Len(Native) \in 0 .. Len(program.cuts)
            /\ ~(number - 1 < Len(Native))
        BY <1>1, <2>4
      <3>2. Until \in 0 .. Size /\ Until = program.cuts[number - Len(Native)] /\ Begun <= Until
        BY <3>1, <2>1, ProgramShape DEF Until
      <3>3. Until \in Begun .. Size
        BY <3>2, <2>2, <1>1
      <3> QED BY <3>1, <3>2, <3>3, <2>1 DEF FunctionAt, FunctionCode
    <2> QED BY <2>2, <2>3, <2>4
  <1> QED BY <1>2, <1>3

\* The word where the walk stands, and the one behind it: a JMP or a CALL and its
\* number, or another word, which is linked as it is.
LEMMA WalkFacts ==
  ASSUME WellFormed(program), NEW k \in program.opcodes
  PROVE  /\ k \in 0 .. Size - 1 /\ Linked(k) = program.code[k + 1]
         /\ program.code[k + 1] \notin {OPCODE_JMP, OPCODE_CALL} => k + 1 \in program.opcodes \cup {Size}
         /\ program.code[k + 1] \in {OPCODE_JMP, OPCODE_CALL} =>
              k + 1 \in 0 .. Size - 1 /\ k + 2 \in program.opcodes \cup {Size}
         /\ program.code[k + 1] = OPCODE_JMP =>
              /\ program.code[k + 2] \in DOMAIN program.block_pc
              /\ Linked(k + 1) = CodeStart + program.block_pc[program.code[k + 2]]
              /\ program.block_pc[program.code[k + 2]] \in 0 .. Size
         /\ program.code[k + 1] = OPCODE_CALL =>
              /\ program.code[k + 2] \in Helper \cup (0 .. Functions(program) - 1)
              /\ Linked(k + 1) = IF program.code[k + 2] \in Helper THEN HelperAt[program.code[k + 2]]
                                 ELSE FunctionAt(program.code[k + 2])
  <1>1. /\ program.opcodes \subseteq 0 .. Size - 1
        /\ program.block_pc \in [DOMAIN program.block_pc -> 0 .. Size]
        /\ \A i \in program.opcodes :
             /\ program.code[i + 1] \notin {OPCODE_JMP, OPCODE_CALL} => i + 1 \in program.opcodes \cup {Size}
             /\ program.code[i + 1] \in {OPCODE_JMP, OPCODE_CALL} =>
                  i + 1 < Size /\ i + 1 \notin program.opcodes /\ i + 2 \in program.opcodes \cup {Size}
             /\ program.code[i + 1] = OPCODE_JMP => program.code[i + 2] \in DOMAIN program.block_pc
             /\ program.code[i + 1] = OPCODE_CALL => program.code[i + 2] \in Helper \cup (0 .. Functions(program) - 1)
    BY DEF WellFormed, Size
  <1>2. k \in 0 .. Size - 1 /\ Size \in Nat /\ (k + 1) + 1 = k + 2 /\ (k + 1) - 1 = k
    BY <1>1, ProgramShape, SMTT(30)
  <1>3. Linked(k) = program.code[k + 1]
    <2>1. ASSUME k - 1 \in program.opcodes, program.code[k] \in {OPCODE_JMP, OPCODE_CALL}
          PROVE  FALSE
      <3>1. (k - 1) + 1 = k
        BY <1>2
      <3>2. k \notin program.opcodes
        BY <2>1, <3>1, <1>1
      <3> QED BY <3>2
    <2> QED BY <2>1 DEF Linked
  <1>4. program.code[k + 1] \in {OPCODE_JMP, OPCODE_CALL} => k + 1 \in 0 .. Size - 1
    BY <1>1, <1>2
  <1>5. program.code[k + 1] = OPCODE_JMP => Linked(k + 1) = CodeStart + program.block_pc[program.code[k + 2]]
    BY <1>2 DEF Linked
  <1>6. program.code[k + 1] = OPCODE_CALL =>
           Linked(k + 1) = IF program.code[k + 2] \in Helper THEN HelperAt[program.code[k + 2]]
                           ELSE FunctionAt(program.code[k + 2])
    BY <1>2, Constants DEF Linked
  <1> QED BY <1>1, <1>2, <1>3, <1>4, <1>5, <1>6

\* What depends on the module alone stays.
LEMMA ProgramSame ==
  ASSUME UNCHANGED program
  PROVE  /\ Size' = Size /\ \A k : Linked(k)' = Linked(k)
         /\ \A n : FunctionAt(n)' = FunctionAt(n)
  BY DEF Size, Linked, FunctionAt

\* At the first function of the list nothing is written.
LEMMA BegunAtStart == number = 1 => Begun = 0
  BY Constants DEF Begun, FunctionCut

\* The list of the functions grows by the one that is compiled.
LEMMA Appended ==
  ASSUME WellFormed(program), TypeOK, CompiledInv, number <= Functions(program),
         NEW address \in Value, address = FunctionAt(number - 1),
         compiled' = Append(compiled, address), number' = number + 1, UNCHANGED program
  PROVE  /\ CompiledInv' /\ compiled' \in Seq(Value) /\ Len(compiled') = number' - 1
         /\ number' \in 1 .. Functions(program) + 1
  <1>1. /\ number \in Nat /\ number >= 1 /\ compiled \in Seq(Value) /\ Len(compiled) = number - 1
        /\ Functions(program) \in Nat
    BY ProgramShape DEF TypeOK
  <1>2. compiled' \in Seq(Value) /\ Len(compiled') = number
    BY <1>1
  <1>3. number' \in 1 .. Functions(program) + 1 /\ number' - 1 = number
    BY <1>1
  <1>4. ASSUME NEW n \in 1 .. number PROVE compiled'[n] = FunctionAt(n - 1)
    <2>1. CASE n = number
      BY <2>1, <1>1
    <2>2. CASE n # number
      <3>1. n \in 1 .. number - 1 /\ n \in 1 .. Len(compiled)
        BY <2>2, <1>1
      <3>2. compiled'[n] = compiled[n]
        BY <3>1, <1>1
      <3> QED BY <3>1, <3>2 DEF CompiledInv
    <2> QED BY <2>1, <2>2
  <1> QED BY <1>2, <1>3, <1>4, ProgramSame DEF CompiledInv

-----------------------------------------------------------------------------
(* The steps of the driver.                                                 *)

\* The driver starts with nothing written.
LEMMA DriverInit == Init => DriverInv
  <1> SUFFICES ASSUME Init PROVE DriverInv
    OBVIOUS
  <1>1. W!Init
    BY DEF Init, Writer!Init, W!Init, Writer!Addr, W!Addr
  <1>2. Writer!WriterInv
    BY <1>1, SameWriter, W!InitInv
  <1>3. Closing
    BY DEF Init, Writer!Init, Closing
  <1>4. /\ stage = "bind" /\ number = 1 /\ left = <<>> /\ next_method = CodeStart /\ compiled = <<>>
        /\ ts_pc = 0 /\ prev_pc = 0 /\ walk = 0 /\ resets = 0 /\ WellFormed(program)
    BY DEF Init, InitDriver
  <1>5. Begun = 0
    BY <1>4, BegunAtStart
  <1>6. TypeOK
    <2>1. Functions(program) \in Nat /\ MaxResets \in Nat
      BY <1>4, ProgramShape, DriverAssumption
    <2>2. number \in 1 .. Functions(program) + 1 /\ next_method \in CodeStart .. CodeEnd
      BY <1>4, <2>1, Constants
    <2>3. Len(compiled) = number - 1 /\ compiled \in Seq(Value) /\ left \in Seq(Value)
      BY <1>4
    <2> QED BY <1>4, <2>1, <2>2, <2>3 DEF TypeOK
  <1>7. BindInv
    BY <1>3, <1>4, <1>5, Constants DEF BindInv, Emitted
  <1>8. CompiledInv
    BY <1>4 DEF CompiledInv
  <1> QED BY <1>2, <1>4, <1>6, <1>7, <1>8 DEF DriverInv

\* A reset brings the driver back to the start.
LEMMA ResetKeeps ==
  ASSUME DriverInv, Reset
  PROVE  DriverInv'
  <1>1. Writer!WriterInv' /\ Closing'
    BY Restarted DEF DriverInv, Reset
  <1>2. /\ stage' = "bind" /\ number' = 1 /\ left' = <<>> /\ next_method' = CodeStart /\ compiled' = <<>>
        /\ ts_pc' = 0 /\ prev_pc' = 0 /\ walk' = 0 /\ program' = program
        /\ resets < MaxResets /\ resets' = resets + 1
    BY DEF Reset
  <1>3. (number = 1 => Begun = 0)'
    BY BegunAtStart, PTL
  <1>4. WellFormed(program) /\ TypeOK
    BY DEF DriverInv
  <1>5. TypeOK'
    <2>1. Functions(program) \in Nat /\ MaxResets \in Nat /\ resets \in 0 .. MaxResets
      BY <1>4, ProgramShape, DriverAssumption DEF TypeOK
    <2>2. number' \in 1 .. Functions(program) + 1 /\ next_method' \in CodeStart .. CodeEnd
      BY <1>2, <2>1, Constants
    <2>3. Len(compiled') = number' - 1 /\ compiled' \in Seq(Value) /\ left' \in Seq(Value)
      BY <1>2
    <2>4. resets' \in 0 .. MaxResets
      BY <1>2, <2>1
    <2> QED BY <1>2, <2>2, <2>3, <2>4 DEF TypeOK
  <1>6. BindInv'
    BY <1>1, <1>2, <1>3, Constants DEF BindInv, Emitted
  <1>7. CompiledInv'
    BY <1>2 DEF CompiledInv
  <1> QED BY <1>1, <1>2, <1>4, <1>5, <1>6, <1>7 DEF DriverInv

\* An import is bound while nothing is written.
LEMMA BindKeeps ==
  ASSUME DriverInv, BindImport
  PROVE  DriverInv'
  <1>1. /\ Writer!WriterInv /\ WellFormed(program) /\ TypeOK /\ CompiledInv /\ BindInv
        /\ stage = "bind" /\ number <= Len(Native) /\ number \in Nat /\ number >= 1
        /\ compiled' = Append(compiled, Native[number]) /\ number' = number + 1
        /\ UNCHANGED <<writer, stage, left, next_method, ts_pc, prev_pc, walk, program, resets>>
    BY DEF DriverInv, BindImport, TypeOK
  <1>2. /\ Writer!WriterInv' /\ (Closing' <=> Closing)
    BY <1>1, WriterSame
  <1>3. Native[number] \in Value /\ Native[number] = FunctionAt(number - 1) /\ number <= Functions(program)
    <2>1. number - 1 < Len(Native) /\ (number - 1) + 1 = number /\ number \in 1 .. Len(Native)
      BY <1>1, Constants
    <2>2. number <= Functions(program)
      BY <1>1, ProgramShape, Constants
    <2> QED BY <2>1, <2>2, Constants DEF FunctionAt
  <1>4. CompiledInv' /\ compiled' \in Seq(Value) /\ Len(compiled') = number' - 1
        /\ number' \in 1 .. Functions(program) + 1
    BY <1>1, <1>3, Appended
  <1>5. Begun = 0 /\ Begun' = 0
    <2>1. Len(Native) \in Nat
      BY Constants
    <2> QED BY <1>1, <2>1 DEF Begun, FunctionCut
  <1>6. BindInv'
    BY <1>1, <1>2, <1>5 DEF BindInv, Emitted
  <1>7. TypeOK'
    BY <1>1, <1>4 DEF TypeOK
  <1> QED BY <1>1, <1>2, <1>4, <1>6, <1>7 DEF DriverInv

\* Without an import the device has stopped, with nothing being written.
LEMMA ImportMissingKeeps ==
  ASSUME DriverInv, ImportMissing
  PROVE  DriverInv'
  <1>1. /\ Writer!WriterInv /\ WellFormed(program) /\ TypeOK /\ CompiledInv /\ BindInv
        /\ stage' = "notfound"
        /\ UNCHANGED <<writer, number, left, next_method, compiled, ts_pc, prev_pc, walk, program, resets>>
    BY DEF DriverInv, ImportMissing
  <1>2. Writer!WriterInv' /\ (Closing' <=> Closing)
    BY <1>1, WriterSame
  <1>3. TypeOK' /\ CompiledInv'
    BY <1>1, ProgramSame DEF TypeOK, CompiledInv
  <1> QED BY <1>1, <1>2, <1>3 DEF DriverInv, BindInv

\* A piece of a sequence.
LEMMA Piece ==
  ASSUME NEW s \in Seq(Value), NEW m \in Nat, NEW n \in Nat, m >= 1, m <= n + 1, n <= Len(s)
  PROVE  /\ SubSeq(s, m, n) \in Seq(Value) /\ Len(SubSeq(s, m, n)) = n - m + 1
         /\ \A i \in 1 .. n - m + 1 : SubSeq(s, m, n)[i] = s[m + i - 1]
  <1>1. Len(s) \in Nat /\ m \in Int /\ n \in Int
    OBVIOUS
  <1>2. \A i \in m .. n : s[i] \in Value
    <2> SUFFICES ASSUME NEW i \in m .. n PROVE s[i] \in Value
      OBVIOUS
    <2>1. i \in 1 .. Len(s)
      BY <1>1
    <2> QED BY <2>1
  <1>3. /\ SubSeq(s, m, n) \in Seq(Value)
        /\ Len(SubSeq(s, m, n)) = IF m <= n THEN n - m + 1 ELSE 0
        /\ \A i \in 1 .. n - m + 1 : SubSeq(s, m, n)[i] = s[m + i - 1]
    BY <1>1, <1>2, SubSeqProperties, SMTT(30)
  <1>4. (IF m <= n THEN n - m + 1 ELSE 0) = n - m + 1
    BY <1>1
  <1> QED BY <1>3, <1>4

\* A function is opened where the last one ended, with all of its code left.
LEMMA OpenKeeps ==
  ASSUME DriverInv, OpenFunction
  PROVE  DriverInv'
  <1>1. /\ Writer!WriterInv /\ WellFormed(program) /\ TypeOK /\ CompiledInv /\ BindInv
        /\ stage = "bind" /\ number \in Len(Native) + 1 .. Functions(program)
        /\ Writer!OpenRaw(next_method) /\ next_method \in CodeStart .. CodeEnd
        /\ left' = FunctionCode(program, number - Len(Native)) /\ stage' = "emit"
        /\ UNCHANGED <<number, next_method, compiled, ts_pc, prev_pc, walk, program, resets>>
    BY DEF DriverInv, OpenFunction, TypeOK
  <1>2. /\ Writer!WriterInv' /\ Writer!Image' = Writer!Image /\ Writer!Cursor' = next_method
        /\ pc' = "ready" /\ pageaddress' # 0
    BY <1>1, Opened
  <1>3. /\ Begun \in 0 .. Size /\ Until \in Begun .. Size /\ left' = SubSeq(program.code, Begun + 1, Until)
        /\ program.code \in Seq(Value) /\ Size \in Nat
    BY <1>1, BegunFacts, ProgramShape DEF TypeOK
  <1>4. /\ left' \in Seq(Value) /\ Len(left') = Until - Begun
        /\ \A i \in 1 .. Until - Begun : left'[i] = program.code[Begun + i]
    <2> DEFINE b == Begun + 1
               u == Until
    <2>1. /\ b \in Nat /\ b >= 1 /\ u \in Nat /\ b <= u + 1 /\ u <= Len(program.code)
          /\ u - b + 1 = u - Begun /\ \A i \in 1 .. u - Begun : b + i - 1 = Begun + i
          /\ left' = SubSeq(program.code, b, u)
      BY <1>3 DEF Size
    <2> HIDE DEF b, u
    <2>2. /\ left' \in Seq(Value) /\ Len(left') = u - b + 1
          /\ \A i \in 1 .. u - b + 1 : left'[i] = program.code[b + i - 1]
      BY <1>3, <2>1, Piece, SMTT(30)
    <2>3. Len(left') = u - Begun /\ \A i \in 1 .. u - Begun : left'[i] = program.code[Begun + i]
      BY <2>1, <2>2
    <2> QED BY <2>2, <2>3 DEF u
  <1>5. Begun' = Begun /\ Until' = Until
    BY <1>1 DEF Begun, Until
  <1>6. EmitInv'
    <2>1. Until - Len(left') = Begun /\ Len(left') <= Until - Begun /\ ts_pc = Begun
      BY <1>1, <1>3, <1>4, SMTT(30) DEF BindInv
    <2>2. Writing'
      BY <1>2 DEF Writing
    <2>3. Emitted(ts_pc)'
      BY <1>1, <1>2 DEF BindInv, Emitted
    <2> QED BY <1>1, <1>2, <1>4, <1>5, <2>1, <2>2, <2>3 DEF EmitInv, BindInv
  <1>7. TypeOK'
    BY <1>1, <1>4 DEF TypeOK
  <1>8. CompiledInv'
    BY <1>1, ProgramSame DEF CompiledInv
  <1> QED BY <1>1, <1>2, <1>6, <1>7, <1>8 DEF DriverInv

\* The first n words of what is left, and the rest.
LEMMA Pieces ==
  ASSUME NEW t \in Seq(Value), NEW n \in 1 .. Len(t)
  PROVE  /\ SubSeq(t, 1, n) \in [1 .. n -> Value] /\ Len(SubSeq(t, 1, n)) = n
         /\ \A i \in 1 .. n : SubSeq(t, 1, n)[i] = t[i]
         /\ SubSeq(t, n + 1, Len(t)) \in Seq(Value) /\ Len(SubSeq(t, n + 1, Len(t))) = Len(t) - n
         /\ \A i \in 1 .. Len(t) - n : SubSeq(t, n + 1, Len(t))[i] = t[n + i]
  <1>1. Len(t) \in Nat /\ n \in Nat /\ n >= 1 /\ n <= Len(t)
    OBVIOUS
  <1>3. /\ SubSeq(t, 1, n) \in Seq(Value) /\ Len(SubSeq(t, 1, n)) = n
        /\ \A i \in 1 .. n : SubSeq(t, 1, n)[i] = t[i]
    <2>1. 1 <= n + 1 /\ n - 1 + 1 = n /\ \A i \in 1 .. n : 1 + i - 1 = i
      BY <1>1
    <2> QED BY <1>1, <2>1, Piece
  <1>4. SubSeq(t, 1, n) \in [1 .. n -> Value]
    <2> DEFINE d == SubSeq(t, 1, n)
    <2>1. d \in Seq(Value) /\ Len(d) = n
      BY <1>3
    <2> HIDE DEF d
    <2>2. d \in [1 .. n -> Value]
      BY <2>1
    <2> QED BY <2>2 DEF d
  <1>5. /\ SubSeq(t, n + 1, Len(t)) \in Seq(Value) /\ Len(SubSeq(t, n + 1, Len(t))) = Len(t) - n
        /\ \A i \in 1 .. Len(t) - n : SubSeq(t, n + 1, Len(t))[i] = t[n + i]
    <2> DEFINE from == n + 1
    <2>1. /\ from \in Nat /\ from >= 1 /\ from <= Len(t) + 1 /\ Len(t) - from + 1 = Len(t) - n
          /\ \A i \in 1 .. Len(t) - n : from + i - 1 = n + i
      BY <1>1
    <2> HIDE DEF from
    <2>2. /\ SubSeq(t, from, Len(t)) \in Seq(Value) /\ Len(SubSeq(t, from, Len(t))) = Len(t) - from + 1
          /\ \A i \in 1 .. Len(t) - from + 1 : SubSeq(t, from, Len(t))[i] = t[from + i - 1]
      BY <1>1, <2>1, Piece
    <2>3. /\ SubSeq(t, from, Len(t)) \in Seq(Value) /\ Len(SubSeq(t, from, Len(t))) = Len(t) - n
          /\ \A i \in 1 .. Len(t) - n : SubSeq(t, from, Len(t))[i] = t[n + i]
      BY <2>1, <2>2
    <2> QED BY <2>3 DEF from
  <1> QED BY <1>3, <1>4, <1>5

\* A flush moves the first words of what is left behind what is written.
LEMMA FlushKeeps ==
  ASSUME DriverInv, NEW n \in 1 .. MaxWrite, FlushToFlash(n)
  PROVE  DriverInv' /\ \E d \in Writer!Requests \cup Writer!Skips : Writer!WriteCall(d)
  <1> DEFINE d == SubSeq(left, 1, n)
  <1>1. /\ Writer!WriterInv /\ WellFormed(program) /\ TypeOK /\ CompiledInv /\ EmitInv
        /\ stage = "emit" /\ pc = "ready" /\ n <= Len(left) /\ Writer!WriteCall(d)
        /\ left \in Seq(Value) /\ left' = SubSeq(left, n + 1, Len(left)) /\ ts_pc' = ts_pc + n
        /\ UNCHANGED <<stage, number, next_method, compiled, prev_pc, walk, program, resets>>
    BY DEF DriverInv, FlushToFlash, Returned, TypeOK
  <1>2. /\ Writing /\ Writer!Cursor = CodeStart + ts_pc /\ ts_pc = Until - Len(left) /\ Emitted(ts_pc)
        /\ Len(left) <= Until - Begun
        /\ \A i \in 1 .. Len(left) : left[i] = program.code[Until - Len(left) + i]
        /\ number \in Len(Native) + 1 .. Functions(program) /\ next_method = CodeStart + Begun
    BY <1>1 DEF EmitInv
  <1>3. /\ Begun \in 0 .. Size /\ Until \in Begun .. Size /\ program.code \in Seq(Value) /\ Size \in Nat
    BY <1>1, <1>2, BegunFacts, ProgramShape DEF TypeOK
  <1>4. /\ Until \in 0 .. Len(program.code) /\ Len(left) <= Until /\ n \in 1 .. Len(left)
        /\ Len(left) \in Nat /\ Begun \in Nat /\ Until \in Nat /\ n \in Nat /\ ts_pc \in Nat /\ n >= 1
    <2>1. Begun \in Nat /\ Until \in Nat /\ Until <= Size /\ Len(left) \in Nat
      BY <1>1, <1>3
    <2>2. n \in Nat /\ n >= 1 /\ Size = Len(program.code)
      BY Constants DEF Size
    <2> HIDE DEF Until, Begun
    <2> QED BY <1>1, <1>2, <1>3, <2>1, <2>2, SMTT(30)
  <1>5. /\ d \in [1 .. n -> Value] /\ Len(d) = n
        /\ \A i \in 1 .. n : d[i] = left[i]
        /\ left' \in Seq(Value) /\ Len(left') = Len(left) - n
        /\ \A i \in 1 .. Len(left) - n : left'[i] = left[n + i]
    BY <1>1, <1>4, Pieces
  <1> HIDE DEF d
  <1>6. d \in Writer!Requests
    BY <1>5 DEF Writer!Requests
  <1>7. /\ Writer!WriterInv' /\ pageaddress # 0 /\ pageaddress' = pageaddress
        /\ \/ pc' = "panic"
           \/ /\ pc' = "copy" /\ Writer!Image' = Laid(d)
              /\ Writer!Cursor' = Writer!Cursor + Len(d) /\ Writer!Cursor + Len(d) <= CodeEnd
    BY <1>1, <1>6, Written
  <1>8. Begun' = Begun /\ Until' = Until
    BY <1>1 DEF Begun, Until
  <1>9. ASSUME pc' # "panic"
        PROVE  /\ Writing' /\ Writer!Cursor' = CodeStart + ts_pc' /\ Emitted(ts_pc)'
    <2>1. pc' = "copy" /\ Writer!Image' = Laid(d) /\ Writer!Cursor' = CodeStart + ts_pc + n
          /\ CodeStart + ts_pc + n <= CodeEnd
      BY <1>2, <1>5, <1>7, <1>9
    <2>2. Writing'
      BY <1>7, <2>1 DEF Writing
    <2>3. Writer!Cursor' = CodeStart + ts_pc'
      BY <1>1, <1>4, <2>1, Constants
    <2>4. ASSUME NEW k \in 0 .. ts_pc + n - 1 PROVE Laid(d)[CodeStart + k] = program.code[k + 1]
      <3>1. k \in Nat /\ CodeStart + k \in Writer!Addr
        BY <1>4, <2>1, Constants
      <3>2. (CodeStart + k) - Writer!Cursor + 1 = k - ts_pc + 1
        BY <3>1, <1>2, <1>4, Constants
      <3>3. DOMAIN d = 1 .. n
        BY <1>5
      <3>4. CASE k < ts_pc
        <4>1. k - ts_pc + 1 \notin 1 .. n /\ k \in 0 .. ts_pc - 1
          BY <3>1, <3>4, <1>4
        <4> QED BY <3>1, <3>2, <3>3, <4>1, <1>2 DEF Laid, Emitted
      <3>5. CASE k >= ts_pc
        <4>1. /\ k - ts_pc + 1 \in 1 .. n /\ k - ts_pc + 1 \in 1 .. Len(left)
              /\ Until - Len(left) + (k - ts_pc + 1) = k + 1
          <5> HIDE DEF Until
          <5> QED BY <3>1, <3>5, <1>2, <1>4
        <4>2. d[k - ts_pc + 1] = program.code[k + 1] /\ d[k - ts_pc + 1] \in Value
          BY <4>1, <1>2, <1>5
        <4> QED BY <3>1, <3>2, <3>3, <4>1, <4>2, Constants DEF Laid
      <3> QED BY <3>1, <3>4, <3>5, <1>4
    <2>5. ASSUME NEW k \in 0 .. ts_pc' - 1
          PROVE  Writer!Image'[CodeStart + k] = program'.code[k + 1]
      <3>1. program' = program /\ ts_pc' = ts_pc + n
        BY <1>1
      <3>2. k \in 0 .. ts_pc + n - 1
        BY <3>1, <1>4
      <3>3. Laid(d)[CodeStart + k] = program.code[k + 1]
        BY <3>2, <2>4
      <3>4. Writer!Image' = Laid(d)
        BY <2>1
      <3> HIDE DEF Laid
      <3> QED BY <3>1, <3>3, <3>4
    <2>6. Emitted(ts_pc)'
      BY <2>5 DEF Emitted
    <2> QED BY <2>2, <2>3, <2>6
  <1>10. EmitInv'
    <2>1. Len(left') <= Until - Begun /\ ts_pc' = Until - Len(left')
      <3>1. \A u, b, l, i \in Nat : l <= u - b => l - i <= u - b /\ u - l + i = u - (l - i)
        OBVIOUS
      <3>2. Len(left') = Len(left) - n /\ ts_pc' = ts_pc + n /\ ts_pc = Until - Len(left)
            /\ Len(left) <= Until - Begun
        BY <1>1, <1>2, <1>5
      <3>3. Until \in Nat /\ Begun \in Nat /\ Len(left) \in Nat /\ n \in Nat
        BY <1>4
      <3> HIDE DEF Until, Begun
      <3>4. Len(left) - n <= Until - Begun /\ Until - Len(left) + n = Until - (Len(left) - n)
        BY <3>1, <3>2, <3>3
      <3> QED BY <3>2, <3>4
    <2>2. \A i \in 1 .. Len(left') : left'[i] = program.code[Until - Len(left') + i]
      <3> SUFFICES ASSUME NEW i \in 1 .. Len(left) - n
                   PROVE  left'[i] = program.code[Until - (Len(left) - n) + i]
        BY <1>5
      <3>1. n + i \in 1 .. Len(left) /\ i \in Nat
        BY <1>4
      <3>2. left[n + i] = program.code[Until - Len(left) + (n + i)]
        BY <1>2, <3>1
      <3>3. Until - Len(left) + (n + i) = Until - (Len(left) - n) + i
        <4> HIDE DEF Until
        <4> QED BY <1>4, <3>1
      <3> QED BY <1>5, <3>2, <3>3
    <2> QED BY <1>1, <1>2, <1>5, <1>8, <1>9, <2>1, <2>2 DEF EmitInv
  <1>11. TypeOK'
    BY <1>1, <1>4, <1>5 DEF TypeOK
  <1>12. CompiledInv'
    BY <1>1, ProgramSame DEF CompiledInv
  <1>13. DriverInv'
    BY <1>1, <1>7, <1>10, <1>11, <1>12 DEF DriverInv
  <1> QED BY <1>1, <1>6, <1>13

\* A function is closed at its end, and the list has its address.
LEMMA CloseKeeps ==
  ASSUME DriverInv, CloseFunction
  PROVE  DriverInv'
  <1>1. /\ Writer!WriterInv /\ WellFormed(program) /\ TypeOK /\ CompiledInv /\ EmitInv
        /\ stage = "emit" /\ pc = "ready" /\ left = <<>>
        /\ compiled' = Append(compiled, next_method) /\ next_method' = Writer!RawPosition
        /\ Writer!CloseCall /\ number' = number + 1 /\ stage' = "bind"
        /\ UNCHANGED <<left, ts_pc, prev_pc, walk, program, resets>>
        /\ next_method \in CodeStart .. CodeEnd
    BY DEF DriverInv, CloseFunction, Returned, TypeOK
  <1>2. /\ Writing /\ Writer!Cursor = CodeStart + ts_pc /\ ts_pc = Until - Len(left) /\ Emitted(ts_pc)
        /\ number \in Len(Native) + 1 .. Functions(program) /\ next_method = CodeStart + Begun
    BY <1>1 DEF EmitInv
  <1>3. /\ Begun \in 0 .. Size /\ Until \in Begun .. Size /\ Size \in Nat
        /\ FunctionAt(number - 1) = CodeStart + Begun
    BY <1>1, <1>2, BegunFacts, ProgramShape DEF TypeOK
  <1>4. ts_pc = Until /\ Until \in Nat
    <2>1. Len(left) = 0 /\ Until \in Nat
      BY <1>1, <1>3
    <2> HIDE DEF Until
    <2> QED BY <1>2, <2>1
  <1>5. Writer!WriterInv' /\ Writer!Image' = Writer!Image /\ Closing'
    BY <1>1, WriterCloses
  <1>6. next_method' = CodeStart + Until /\ next_method' <= CodeEnd
    BY <1>1, <1>2, <1>4, CursorFacts DEF Writing
  <1>7. next_method \in Value /\ number <= Functions(program) /\ number \in Nat
    BY <1>1, <1>2, Constants DEF TypeOK
  <1>8. CompiledInv' /\ compiled' \in Seq(Value) /\ Len(compiled') = number' - 1
        /\ number' \in 1 .. Functions(program) + 1
    BY <1>1, <1>2, <1>3, <1>7, Appended
  <1>9. Begun' = Until
    <2>1. Len(Native) \in Nat
      BY Constants
    <2>2. ~(number + 1 <= Len(Native)) /\ (number + 1) - 1 - Len(Native) = number - Len(Native)
      BY <1>2, <1>7, <2>1
    <2> QED BY <1>1, <2>2 DEF Begun, Until, FunctionCut
  <1>10. BindInv'
    BY <1>1, <1>2, <1>4, <1>5, <1>6, <1>9 DEF BindInv, Emitted
  <1>11. TypeOK'
    <2>1. next_method' \in CodeStart .. CodeEnd
      BY <1>4, <1>6, Constants
    <2> QED BY <1>1, <1>8, <2>1 DEF TypeOK
  <1> QED BY <1>1, <1>5, <1>8, <1>10, <1>11 DEF DriverInv

\* The refill starts in front of all of the code.
LEMMA StartKeeps ==
  ASSUME DriverInv, StartRefill
  PROVE  DriverInv'
  <1>1. /\ Writer!WriterInv /\ WellFormed(program) /\ TypeOK /\ CompiledInv /\ BindInv
        /\ stage = "bind" /\ number > Functions(program) /\ number \in 1 .. Functions(program) + 1
        /\ Writer!OpenRaw(CodeStart) /\ next_method' = CodeStart
        /\ prev_pc' = ts_pc /\ walk' = 0 /\ stage' = "refill"
        /\ UNCHANGED <<number, left, compiled, ts_pc, program, resets>>
        /\ next_method \in CodeStart .. CodeEnd /\ ts_pc \in Nat
    BY DEF DriverInv, StartRefill, TypeOK
  <1>2. /\ Writer!WriterInv' /\ Writer!Image' = Writer!Image /\ Writer!Cursor' = CodeStart
        /\ pc' = "ready" /\ pageaddress' # 0
    BY <1>1, Opened, Constants
  <1>3. number = Functions(program) + 1 /\ Begun = Size /\ Size \in Nat
    <2>1. number = Functions(program) + 1
      BY <1>1, ProgramShape
    <2> QED BY <1>1, <2>1, BegunFacts, ProgramShape
  <1>4. CodeStart + Size <= CodeEnd /\ ts_pc = Size
    BY <1>1, <1>3, Constants DEF BindInv
  <1>5. 0 \in program.opcodes \cup {Size}
    BY <1>1 DEF WellFormed, Size
  <1>6. RefillInv'
    <2>1. Size' = Size
      BY <1>1, ProgramSame
    <2>2. Writing'
      BY <1>2 DEF Writing
    <2>3. LinkedTo(0)'
      BY DEF LinkedTo
    <2>4. \A k \in 0 .. Size - 1 : Writer!Image'[CodeStart + k] = program'.code[k + 1]
      BY <1>1, <1>2, <1>3 DEF BindInv, Emitted
    <2> QED BY <1>1, <1>2, <1>3, <1>4, <1>5, <2>1, <2>2, <2>3, <2>4, Constants DEF RefillInv, LinkedTo
  <1>7. TypeOK'
    BY <1>1, Constants DEF TypeOK
  <1>8. CompiledInv'
    BY <1>1, ProgramSame DEF CompiledInv
  <1> QED BY <1>1, <1>2, <1>6, <1>7, <1>8 DEF DriverInv

\* What the walk reads from the chip is what was emitted, although the page it
\* reads is open in RAM.
LEMMA WalkReads ==
  ASSUME DriverInv, Walking
  PROVE  /\ Writer!WriterInv /\ WellFormed(program) /\ TypeOK /\ CompiledInv /\ RefillInv
         /\ stage = "refill" /\ pc = "ready" /\ walk \in program.opcodes /\ Writing
         /\ Writer!Cursor = CodeStart + walk /\ LinkedTo(walk)
         /\ \A k \in walk .. Size - 1 : /\ Writer!Image[CodeStart + k] = program.code[k + 1]
                                        /\ WordAt(k) = program.code[k + 1]
  <1>1. /\ Writer!WriterInv /\ WellFormed(program) /\ TypeOK /\ CompiledInv /\ RefillInv
        /\ stage = "refill" /\ pc = "ready" /\ walk < prev_pc
    BY DEF DriverInv, Walking, Returned
  <1>2. /\ Writing /\ Writer!Cursor = CodeStart + walk /\ LinkedTo(walk)
        /\ prev_pc = Size /\ walk \in program.opcodes \cup {Size} /\ CodeStart + Size <= CodeEnd
        /\ \A k \in walk .. Size - 1 : Writer!Image[CodeStart + k] = program.code[k + 1]
    BY <1>1 DEF RefillInv
  <1>3. Size \in Nat /\ walk \in program.opcodes
    <2>1. Size \in Nat /\ ~(Size < Size)
      BY <1>1, ProgramShape
    <2> QED BY <1>1, <1>2, <2>1
  <1>4. walk \in Nat
    BY <1>1, <1>3, WalkFacts
  <1>5. ASSUME NEW k \in walk .. Size - 1 PROVE WordAt(k) = program.code[k + 1]
    <2>1. k \in Nat /\ CodeStart + k \in Writer!Addr /\ CodeStart + k >= Writer!Cursor
      <3>1. k \in Nat /\ k >= walk /\ k < Size
        BY <1>3, <1>4
      <3>2. CodeStart + k < CodeEnd /\ CodeStart + k >= CodeStart + walk
        BY <3>1, <1>2, <1>3, <1>4, Constants
      <3>3. CodeStart + k \in Writer!Addr
        BY <3>1, <3>2, Constants
      <3> QED BY <3>1, <3>2, <3>3, <1>2
    <2>2. Writer!Image[CodeStart + k] = flash[CodeStart + k]
      BY <1>1, <2>1, ChipBehindCursor
    <2> QED BY <1>2, <2>2 DEF WordAt
  <1> QED BY <1>1, <1>2, <1>3, <1>5

\* A write at the walk that puts a word's linked form in its place, or keeps a
\* word that needs none, moves the walk and the cursor together.
LEMMA RefillWrites ==
  ASSUME DriverInv, Walking, NEW n \in Nat, NEW d \in Writer!Requests \cup Writer!Skips,
         DOMAIN d = 1 .. n, Len(d) = n, Writer!WriteCall(d),
         walk + n \in program.opcodes \cup {Size}, walk' = walk + n, ts_pc' \in Nat,
         \A i \in 1 .. n : \/ d[i] = Keep /\ program.code[walk + i] = Linked(walk + i - 1)
                           \/ d[i] # Keep /\ d[i] = Linked(walk + i - 1),
         UNCHANGED <<stage, number, left, next_method, compiled, prev_pc, program, resets>>
  PROVE  DriverInv'
  <1>1. /\ Writer!WriterInv /\ WellFormed(program) /\ TypeOK /\ CompiledInv /\ RefillInv
        /\ stage = "refill" /\ pc = "ready" /\ walk \in program.opcodes /\ Writing
        /\ Writer!Cursor = CodeStart + walk /\ LinkedTo(walk)
        /\ \A k \in walk .. Size - 1 : Writer!Image[CodeStart + k] = program.code[k + 1]
    BY WalkReads
  <1>2. /\ next_method = CodeStart /\ number = Functions(program) + 1
        /\ CodeStart + Size <= CodeEnd /\ prev_pc = Size
    BY <1>1 DEF RefillInv
  <1>3. /\ Size \in Nat /\ walk \in Nat /\ walk < Size
        /\ program.opcodes \subseteq 0 .. Size - 1 /\ walk + n <= Size
    <2>1. Size \in Nat /\ walk \in 0 .. Size - 1 /\ program.opcodes \subseteq 0 .. Size - 1
      BY <1>1, ProgramShape, WalkFacts DEF WellFormed, Size
    <2>2. walk + n <= Size
      BY <2>1
    <2> QED BY <2>1, <2>2
  <1>4. /\ Writer!WriterInv' /\ pageaddress # 0 /\ pageaddress' = pageaddress
        /\ \/ pc' = "panic"
           \/ /\ pc' = "copy" /\ Writer!Image' = Laid(d)
              /\ Writer!Cursor' = Writer!Cursor + Len(d) /\ Writer!Cursor + Len(d) <= CodeEnd
    BY <1>1, Written
  <1>5. Size' = Size /\ \A k : Linked(k)' = Linked(k)
    BY ProgramSame
  <1>6. ASSUME NEW k \in 0 .. Size - 1
        PROVE  /\ CodeStart + k \in Writer!Addr /\ k \in Nat
               /\ (CodeStart + k) - Writer!Cursor + 1 = k - walk + 1
    <2>1. k \in Nat /\ CodeStart + k < CodeEnd
      BY <1>2, <1>3, Constants
    <2>2. (CodeStart + k) - (CodeStart + walk) + 1 = k - walk + 1
      BY <2>1, <1>3, Constants
    <2> QED BY <1>1, <2>1, <2>2, Constants
  <1>7. ASSUME NEW k \in 0 .. walk + n - 1 PROVE Laid(d)[CodeStart + k] = Linked(k)
    <2>1. k \in 0 .. Size - 1 /\ k \in Nat
      BY <1>3
    <2>2. CASE k < walk
      <3>1. k - walk + 1 \notin 1 .. n /\ k \in 0 .. walk - 1
        BY <2>1, <2>2, <1>3, SMTT(30)
      <3> QED BY <3>1, <2>1, <1>1, <1>6 DEF Laid, LinkedTo
    <2>3. CASE k >= walk
      <3>1. /\ k - walk + 1 \in 1 .. n /\ walk + (k - walk + 1) - 1 = k /\ walk + (k - walk + 1) = k + 1
            /\ k \in walk .. Size - 1
        BY <2>1, <2>3, <1>3
      <3>2. \/ d[k - walk + 1] = Keep /\ program.code[k + 1] = Linked(k)
            \/ d[k - walk + 1] # Keep /\ d[k - walk + 1] = Linked(k)
        BY <3>1
      <3>3. Writer!Image[CodeStart + k] = program.code[k + 1]
        BY <3>1, <1>1
      <3> QED BY <3>1, <3>2, <3>3, <2>1, <1>6 DEF Laid
    <2> QED BY <2>1, <2>2, <2>3, <1>3
  <1>8. ASSUME NEW k \in walk + n .. Size - 1 PROVE Laid(d)[CodeStart + k] = program.code[k + 1]
    <2>1. k \in 0 .. Size - 1 /\ k \in walk .. Size - 1 /\ k - walk + 1 \notin 1 .. n
      BY <1>3
    <2> QED BY <2>1, <1>1, <1>6 DEF Laid
  <1>9. ASSUME pc' # "panic"
        PROVE  /\ Writing' /\ Writer!Cursor' = CodeStart + walk' /\ LinkedTo(walk)'
               /\ \A k \in walk' .. Size - 1 : Writer!Image'[CodeStart + k] = program'.code[k + 1]
    <2>1. pc' = "copy" /\ Writer!Image' = Laid(d) /\ Writer!Cursor' = CodeStart + walk + n
      BY <1>1, <1>4, <1>9
    <2>2. Writing'
      BY <1>4, <2>1 DEF Writing
    <2>3. Writer!Cursor' = CodeStart + walk'
      BY <2>1, <1>3, Constants
    <2>4. \A k \in 0 .. walk' - 1 : Writer!Image'[CodeStart + k] = Linked(k)
      <3> SUFFICES ASSUME NEW k \in 0 .. walk' - 1 PROVE Writer!Image'[CodeStart + k] = Linked(k)
        OBVIOUS
      <3>1. k \in 0 .. walk + n - 1
        BY <1>3
      <3> QED BY <3>1, <2>1, <1>7
    <2>5. LinkedTo(walk)'
      BY <2>4, <1>5 DEF LinkedTo
    <2>6. \A k \in walk' .. Size - 1 : Writer!Image'[CodeStart + k] = program'.code[k + 1]
      BY <2>1, <1>8
    <2> QED BY <2>2, <2>3, <2>5, <2>6
  <1>10. RefillInv'
    BY <1>1, <1>2, <1>5, <1>9 DEF RefillInv
  <1>11. TypeOK'
    <2>1. walk' \in 0 .. prev_pc'
      BY <1>2, <1>3
    <2> QED BY <1>1, <2>1 DEF TypeOK
  <1>12. CompiledInv'
    BY <1>1, ProgramSame DEF CompiledInv
  <1> QED BY <1>1, <1>4, <1>10, <1>11, <1>12 DEF DriverInv

\* Two words are a request when the code buffer holds two, and one word is a skip.
LEMMA TwoWords ==
  ASSUME NEW a \in Value, NEW b \in Value
  PROVE  /\ <<a, b>> \in Writer!Requests /\ DOMAIN <<a, b>> = 1 .. 2 /\ Len(<<a, b>>) = 2
         /\ <<Keep>> \in Writer!Skips /\ DOMAIN <<Keep>> = 1 .. 1 /\ Len(<<Keep>>) = 1
  <1>1. 2 \in 1 .. MaxWrite /\ 1 \in 1 .. MaxWrite
    BY Constants
  <1>2. <<a, b>> \in [1 .. 2 -> Value] /\ <<Keep>> = [i \in 1 .. 1 |-> Keep]
    OBVIOUS
  <1> QED BY <1>1, <1>2 DEF Writer!Requests, Writer!Skips

\* A JMP gets the address of its label.
LEMMA JumpKeeps ==
  ASSUME DriverInv, RefillJump
  PROVE  DriverInv' /\ \E d \in Writer!Requests \cup Writer!Skips : Writer!WriteCall(d)
  <1> DEFINE d == <<OPCODE_JMP, LabelAt(WordAt(walk + 1))>>
  <1>1. /\ Walking /\ WordAt(walk) = OPCODE_JMP /\ Writer!WriteCall(d)
        /\ walk' = walk + 2 /\ ts_pc' = ts_pc + 2
        /\ UNCHANGED <<stage, number, left, next_method, compiled, prev_pc, program, resets>>
    BY DEF RefillJump
  <1>2. /\ WellFormed(program) /\ TypeOK /\ walk \in program.opcodes /\ RefillInv
        /\ \A k \in walk .. Size - 1 : WordAt(k) = program.code[k + 1]
    BY <1>1, WalkReads
  <1>3. walk \in 0 .. Size - 1 /\ walk \in Nat /\ Size \in Nat /\ CodeStart + Size <= CodeEnd
    BY <1>2, WalkFacts, ProgramShape DEF RefillInv
  <1>4. program.code[walk + 1] = OPCODE_JMP
    <2>1. walk \in walk .. Size - 1
      BY <1>3
    <2> QED BY <1>1, <1>2, <2>1
  <1>5. /\ walk + 1 \in 0 .. Size - 1 /\ walk + 2 \in program.opcodes \cup {Size}
        /\ Linked(walk) = program.code[walk + 1]
        /\ Linked(walk + 1) = CodeStart + program.block_pc[program.code[walk + 2]]
        /\ program.block_pc[program.code[walk + 2]] \in 0 .. Size
    BY <1>2, <1>4, WalkFacts
  <1>6. WordAt(walk + 1) = program.code[walk + 2]
    <2>1. walk + 1 \in walk .. Size - 1 /\ (walk + 1) + 1 = walk + 2
      BY <1>3, <1>5
    <2>2. WordAt(walk + 1) = program.code[(walk + 1) + 1]
      BY <1>2, <2>1
    <2> QED BY <2>1, <2>2
  <1>7. LabelAt(WordAt(walk + 1)) = Linked(walk + 1) /\ Linked(walk + 1) \in Value
    <2>1. \A b \in 0 .. Size : CodeStart + b \in CodeStart .. CodeEnd
      BY <1>3, Constants
    <2> QED BY <1>5, <1>6, <2>1, Constants DEF LabelAt
  <1>8. /\ d \in Writer!Requests /\ DOMAIN d = 1 .. 2 /\ Len(d) = 2
        /\ d[1] = Linked(walk) /\ d[2] = Linked(walk + 1) /\ Linked(walk) # Keep /\ Linked(walk + 1) # Keep
    BY <1>4, <1>5, <1>7, TwoWords, Constants, SMTT(30)
  <1>9. ts_pc' \in Nat
    BY <1>1, <1>2 DEF TypeOK
  <1> HIDE DEF d
  <1>10. \A i \in 1 .. 2 : d[i] # Keep /\ d[i] = Linked(walk + i - 1)
    <2>1. walk + 1 - 1 = walk /\ walk + 2 - 1 = walk + 1
      BY <1>3
    <2> QED BY <1>8, <2>1
  <1>11. DriverInv'
    BY <1>1, <1>5, <1>8, <1>9, <1>10, RefillWrites
  <1> QED BY <1>1, <1>8, <1>11

\* A CALL gets the address of the helper or the function.
LEMMA CallKeeps ==
  ASSUME DriverInv, RefillCall
  PROVE  DriverInv' /\ \E d \in Writer!Requests \cup Writer!Skips : Writer!WriteCall(d)
  <1> DEFINE d == <<OPCODE_CALL, CalleeAt(WordAt(walk + 1))>>
  <1>1. /\ Walking /\ WordAt(walk) = OPCODE_CALL /\ Writer!WriteCall(d)
        /\ walk' = walk + 2 /\ ts_pc' = ts_pc + 2
        /\ UNCHANGED <<stage, number, left, next_method, compiled, prev_pc, program, resets>>
    BY DEF RefillCall
  <1>2. /\ WellFormed(program) /\ TypeOK /\ CompiledInv /\ walk \in program.opcodes /\ RefillInv
        /\ \A k \in walk .. Size - 1 : WordAt(k) = program.code[k + 1]
    BY <1>1, WalkReads
  <1>3. walk \in 0 .. Size - 1 /\ walk \in Nat /\ Size \in Nat
    BY <1>2, WalkFacts, ProgramShape
  <1>4. program.code[walk + 1] = OPCODE_CALL
    <2>1. walk \in walk .. Size - 1
      BY <1>3
    <2> QED BY <1>1, <1>2, <2>1
  <1> DEFINE callee == program.code[walk + 2]
  <1>5. /\ walk + 1 \in 0 .. Size - 1 /\ walk + 2 \in program.opcodes \cup {Size}
        /\ Linked(walk) = program.code[walk + 1]
        /\ callee \in Helper \cup (0 .. Functions(program) - 1)
        /\ Linked(walk + 1) = IF callee \in Helper THEN HelperAt[callee] ELSE FunctionAt(callee)
    BY <1>2, <1>4, WalkFacts
  <1>6. WordAt(walk + 1) = callee
    <2>1. walk + 1 \in walk .. Size - 1 /\ (walk + 1) + 1 = walk + 2
      BY <1>3, <1>5
    <2>2. WordAt(walk + 1) = program.code[(walk + 1) + 1]
      BY <1>2, <2>1
    <2> QED BY <2>1, <2>2
  <1>7. CalleeAt(callee) = Linked(walk + 1) /\ Linked(walk + 1) \in Value
    <2> HIDE DEF callee
    <2>1. CASE callee \in Helper
      BY <2>1, <1>5, DriverAssumption DEF CalleeAt
    <2>2. CASE callee \notin Helper
      <3>1. /\ number = Functions(program) + 1 /\ Functions(program) \in Nat
            /\ compiled \in Seq(Value) /\ Len(compiled) = number - 1
        BY <1>2, ProgramShape DEF RefillInv, TypeOK
      <3>2. callee \in 0 .. Functions(program) - 1
        BY <1>5, <2>2
      <3>3. callee + 1 \in 1 .. number - 1 /\ (callee + 1) - 1 = callee /\ callee + 1 \in 1 .. Len(compiled)
        BY <3>1, <3>2
      <3>4. compiled[callee + 1] = FunctionAt((callee + 1) - 1) /\ compiled[callee + 1] \in Value
        BY <1>2, <3>1, <3>3 DEF CompiledInv
      <3> QED BY <1>5, <2>2, <3>3, <3>4 DEF CalleeAt
    <2> QED BY <2>1, <2>2
  <1>7a. CalleeAt(WordAt(walk + 1)) = Linked(walk + 1)
    BY <1>6, <1>7
  <1>8. /\ d \in Writer!Requests /\ DOMAIN d = 1 .. 2 /\ Len(d) = 2
        /\ d[1] = Linked(walk) /\ d[2] = Linked(walk + 1) /\ Linked(walk) # Keep /\ Linked(walk + 1) # Keep
    BY <1>4, <1>5, <1>7, <1>7a, TwoWords, Constants, ZenonT(30)
  <1>9. ts_pc' \in Nat
    BY <1>1, <1>2 DEF TypeOK
  <1> HIDE DEF d
  <1>10. \A i \in 1 .. 2 : d[i] # Keep /\ d[i] = Linked(walk + i - 1)
    <2>1. walk + 1 - 1 = walk /\ walk + 2 - 1 = walk + 1
      BY <1>3
    <2> QED BY <1>8, <2>1
  <1>11. DriverInv'
    BY <1>1, <1>5, <1>8, <1>9, <1>10, RefillWrites
  <1> QED BY <1>1, <1>8, <1>11

\* Any other word is skipped, and is linked as it is.
LEMMA SkipKeeps ==
  ASSUME DriverInv, RefillSkip
  PROVE  DriverInv' /\ \E d \in Writer!Requests \cup Writer!Skips : Writer!WriteCall(d)
  <1> DEFINE d == <<Keep>>
  <1>1. /\ Walking /\ WordAt(walk) \notin {OPCODE_JMP, OPCODE_CALL} /\ Writer!WriteCall(d)
        /\ walk' = walk + 1
        /\ UNCHANGED <<stage, number, left, next_method, compiled, prev_pc, program, resets, ts_pc>>
    BY DEF RefillSkip
  <1>2. /\ WellFormed(program) /\ TypeOK /\ walk \in program.opcodes
        /\ \A k \in walk .. Size - 1 : WordAt(k) = program.code[k + 1]
    BY <1>1, WalkReads
  <1>3. walk \in 0 .. Size - 1 /\ walk \in Nat /\ Size \in Nat
    BY <1>2, WalkFacts, ProgramShape
  <1>4. program.code[walk + 1] \notin {OPCODE_JMP, OPCODE_CALL}
    <2>1. walk \in walk .. Size - 1
      BY <1>3
    <2> QED BY <1>1, <1>2, <2>1
  <1>5. walk + 1 \in program.opcodes \cup {Size} /\ Linked(walk) = program.code[walk + 1]
    BY <1>2, <1>4, WalkFacts
  <1>6. d \in Writer!Skips /\ DOMAIN d = 1 .. 1 /\ Len(d) = 1 /\ d[1] = Keep
    BY TwoWords, Constants
  <1>7. ts_pc' \in Nat
    BY <1>1, <1>2 DEF TypeOK
  <1> HIDE DEF d
  <1>8. \A i \in 1 .. 1 : d[i] = Keep /\ program.code[walk + i] = Linked(walk + i - 1)
    <2>1. walk + 1 - 1 = walk
      BY <1>3
    <2> QED BY <1>5, <1>6, <2>1
  <1>9. DriverInv'
    BY <1>1, <1>5, <1>6, <1>7, <1>8, RefillWrites
  <1> QED BY <1>1, <1>6, <1>9

\* The refill closes with all of the code linked.
LEMMA RefillCloseKeeps ==
  ASSUME DriverInv, RefillClose
  PROVE  DriverInv'
  <1>1. /\ Writer!WriterInv /\ WellFormed(program) /\ TypeOK /\ CompiledInv /\ RefillInv
        /\ stage = "refill" /\ pc = "ready" /\ walk >= prev_pc /\ walk \in 0 .. prev_pc
        /\ next_method' = Writer!RawPosition /\ Writer!CloseCall /\ stage' = "run"
        /\ UNCHANGED <<number, left, compiled, ts_pc, prev_pc, walk, program, resets>>
    BY DEF DriverInv, RefillClose, Returned, TypeOK
  <1>2. /\ Writing /\ Writer!Cursor = CodeStart + walk /\ LinkedTo(walk)
        /\ prev_pc = Size /\ CodeStart + Size <= CodeEnd /\ number = Functions(program) + 1
    BY <1>1 DEF RefillInv
  <1>3. walk = Size /\ Size \in Nat
    BY <1>1, <1>2, ProgramShape
  <1>4. Writer!WriterInv' /\ Writer!Image' = Writer!Image /\ Closing'
    BY <1>1, WriterCloses
  <1>5. next_method' = CodeStart + Size
    BY <1>1, <1>2, <1>3, CursorFacts DEF Writing
  <1>6. Size' = Size /\ \A k : Linked(k)' = Linked(k)
    BY <1>1, ProgramSame
  <1>7. RunInv'
    BY <1>1, <1>2, <1>3, <1>4, <1>6 DEF RunInv, LinkedTo
  <1>8. TypeOK'
    <2>1. next_method' \in CodeStart .. CodeEnd
      BY <1>2, <1>3, <1>5, Constants
    <2> QED BY <1>1, <2>1 DEF TypeOK
  <1>9. CompiledInv'
    BY <1>1, ProgramSame DEF CompiledInv
  <1> QED BY <1>1, <1>4, <1>7, <1>8, <1>9 DEF DriverInv

\* What the driver's invariant says is kept by a step that leaves the image, the
\* cursor of an open writer and the driver as they are.
LEMMA IdleKeeps ==
  ASSUME DriverInv, Writer!WriterInv', Writer!Image' = Writer!Image,
         Writing => Writing' /\ Writer!Cursor' = Writer!Cursor, Closing => Closing',
         pc = "panic" => pc' = "panic", UNCHANGED <<driver, program>>, resets' = resets
  PROVE  DriverInv'
  <1>1. /\ Writer!WriterInv /\ WellFormed(program) /\ TypeOK /\ CompiledInv
        /\ stage = "bind"     => BindInv
        /\ stage = "emit"     => EmitInv
        /\ stage = "refill"   => RefillInv
        /\ stage = "run"      => RunInv
        /\ stage = "notfound" => Closing
        /\ stage = "nomemory" => pc = "panic"
    BY DEF DriverInv
  <1>2. UNCHANGED <<stage, number, left, next_method, compiled, ts_pc, prev_pc, walk, program, resets>>
    BY DEF driver
  <1>3. Size' = Size /\ (\A k : Linked(k)' = Linked(k)) /\ Begun' = Begun /\ Until' = Until
    BY <1>2, ProgramSame DEF Begun, Until
  <1>4. WellFormed(program)' /\ TypeOK' /\ CompiledInv'
    BY <1>1, <1>2, ProgramSame DEF TypeOK, CompiledInv
  <1>5. stage = "bind" => BindInv'
    BY <1>1, <1>2, <1>3 DEF BindInv, Emitted
  <1>6. stage = "emit" => EmitInv'
    BY <1>1, <1>2, <1>3 DEF EmitInv, Emitted
  <1>7. stage = "refill" => RefillInv'
    BY <1>1, <1>2, <1>3 DEF RefillInv, LinkedTo
  <1>8. stage = "run" => RunInv'
    BY <1>1, <1>2, <1>3 DEF RunInv, LinkedTo
  <1> QED BY <1>1, <1>2, <1>4, <1>5, <1>6, <1>7, <1>8 DEF DriverInv

\* The steps of a call keep the invariant, whichever call it is.
LEMMA WriterStepKeeps ==
  ASSUME DriverInv, WriterStep
  PROVE  DriverInv'
  <1>1. Writer!WriterInv /\ Writer!Step /\ UNCHANGED <<driver, program>> /\ resets' = resets
    BY DEF DriverInv, WriterStep
  <1>2. /\ Writer!WriterInv' /\ Writer!Image' = Writer!Image
        /\ Writing => Writing' /\ Writer!Cursor' = Writer!Cursor
        /\ Closing => Closing'
    BY <1>1, Stepped
  <1>3. pc # "panic"
    BY <1>1 DEF Writer!Step, Writer!CopyChunk, Writer!Advance, Writer!ErasePage,
                Writer!ProgramPage, Writer!Release
  <1> QED BY <1>1, <1>2, <1>3, IdleKeeps

\* Without memory for the page buffer the device has stopped.
LEMMA OpenFailsKeeps ==
  ASSUME DriverInv, OpenFails
  PROVE  DriverInv'
  <1>1. /\ Writer!WriterInv /\ WellFormed(program) /\ TypeOK /\ CompiledInv
        /\ Writer!OpenFails /\ stage' = "nomemory"
        /\ UNCHANGED <<number, left, next_method, compiled, ts_pc, prev_pc, walk, program, resets>>
    BY DEF DriverInv, OpenFails
  <1>2. Writer!WriterInv' /\ pc' = "panic"
    BY <1>1, NoMemory
  <1>3. TypeOK' /\ CompiledInv'
    BY <1>1, ProgramSame DEF TypeOK, CompiledInv
  <1> QED BY <1>1, <1>2, <1>3 DEF DriverInv

\* DriverInv is preserved by every step.
LEMMA DriverNext == DriverInv /\ [Next]_vars => DriverInv'
  <1> SUFFICES ASSUME DriverInv, [Next]_vars PROVE DriverInv'
    OBVIOUS
  <1>1. CASE BindImport
    BY <1>1, BindKeeps
  <1>2. CASE OpenFunction
    BY <1>2, OpenKeeps
  <1>3. CASE \E n \in 1 .. MaxWrite : FlushToFlash(n)
    BY <1>3, FlushKeeps
  <1>4. CASE CloseFunction
    BY <1>4, CloseKeeps
  <1>5. CASE StartRefill
    BY <1>5, StartKeeps
  <1>6. CASE RefillJump
    BY <1>6, JumpKeeps
  <1>7. CASE RefillCall
    BY <1>7, CallKeeps
  <1>8. CASE RefillSkip
    BY <1>8, SkipKeeps
  <1>9. CASE RefillClose
    BY <1>9, RefillCloseKeeps
  <1>10. CASE WriterStep
    BY <1>10, WriterStepKeeps
  <1>11. CASE OpenFails
    BY <1>11, OpenFailsKeeps
  <1>12. CASE Reset
    BY <1>12, ResetKeeps
  <1>13. CASE ImportMissing
    BY <1>13, ImportMissingKeeps
  <1>14. CASE UNCHANGED vars
    <2>1. UNCHANGED writer /\ UNCHANGED <<driver, program>> /\ resets' = resets /\ pc' = pc
      BY <1>14 DEF vars, writer
    <2>2. Writer!WriterInv
      BY DEF DriverInv
    <2>3. /\ Writer!WriterInv' /\ Writer!Image' = Writer!Image /\ Writer!Cursor' = Writer!Cursor
          /\ (Writing' <=> Writing) /\ (Closing' <=> Closing)
      BY <2>1, <2>2, WriterSame
    <2> QED BY <2>1, <2>3, IdleKeeps
  <1> QED
    BY <1>1, <1>2, <1>3, <1>4, <1>5, <1>6, <1>7, <1>8, <1>9, <1>10, <1>11, <1>12, <1>13, <1>14 DEF Next, Step

\* The driver's invariant holds in every state: what has gone to the writer is
\* the program up to ts_pc, and then what is linked ends where the walk stands.
THEOREM DriverInvariant == Spec => []DriverInv
  BY DriverInit, DriverNext, PTL DEF Spec

\* The function list, the offsets and the start of the next function stay in
\* their ranges, whatever resets come (wasm_compile_module).
THEOREM DriverTypes == Spec => []TypeOK
  <1>1. DriverInv => TypeOK
    BY DEF DriverInv
  <1> QED BY <1>1, DriverInvariant, PTL

\* When the entry method is called, the chip holds the module with every label
\* and every function in its place, whatever resets came before and wherever
\* they struck, and the entry is the last function (line 451 of compile.c).
THEOREM EntryIsLinked == Spec => []LinkedAtEntry
  <1>1. DriverInv => LinkedAtEntry
    <2> SUFFICES ASSUME DriverInv, stage = "run", pc = "ready"
                 PROVE  /\ \A k \in 0 .. Size - 1 : WordAt(k) = Linked(k)
                        /\ compiled[Len(compiled)] = FunctionAt(Functions(program) - 1)
      BY DEF LinkedAtEntry, Returned
    <2>1. /\ Writer!WriterInv /\ WellFormed(program) /\ TypeOK /\ CompiledInv /\ RunInv
      BY DEF DriverInv
    <2>2. pageaddress = 0 /\ LinkedTo(Size) /\ CodeStart + Size <= CodeEnd /\ number = Functions(program) + 1
      BY <2>1 DEF RunInv, Closing
    <2>3. ASSUME NEW k \in 0 .. Size - 1 PROVE WordAt(k) = Linked(k)
      <3>1. Size \in Nat
        BY <2>1, ProgramShape
      <3>2. k \in Nat /\ CodeStart + k < CodeEnd
        BY <2>2, <3>1, Constants
      <3>3. Writer!Image[CodeStart + k] = flash[CodeStart + k]
        BY <2>1, <2>2, <3>2, Constants, ChipBehindCursor
      <3> QED BY <2>2, <3>3 DEF WordAt, LinkedTo
    <2>4. compiled[Len(compiled)] = FunctionAt(Functions(program) - 1)
      <3>1. Functions(program) \in Nat /\ Functions(program) >= 1 /\ Len(compiled) = Functions(program)
        <4>1. Len(compiled) = number - 1 /\ Len(Native) \in Nat
          BY <2>1, Constants DEF TypeOK
        <4> QED BY <4>1, <2>1, <2>2, ProgramShape
      <3>2. Functions(program) \in 1 .. number - 1
        BY <2>2, <3>1
      <3> QED BY <2>1, <3>1, <3>2 DEF CompiledInv
    <2> QED BY <2>3, <2>4
  <1> QED BY <1>1, DriverInvariant, PTL

\* Between two calls of the refill the cursor is where the walk is; what is read
\* next is what was emitted, and what lies behind has its address
\* (branch_pc_refill).
THEOREM RefillKeepsStep == Spec => []RefillInStep
  <1>1. DriverInv => RefillInStep
    <2> SUFFICES ASSUME DriverInv, stage = "refill", pc = "ready"
                 PROVE  /\ Writer!RawPosition = CodeStart + walk /\ prev_pc = Size
                        /\ walk \in program.opcodes \cup {Size}
                        /\ \A k \in walk .. Size - 1 : WordAt(k) = program.code[k + 1]
                        /\ \A k \in 0 .. walk - 1 : Writer!Image[CodeStart + k] = Linked(k)
      BY DEF RefillInStep, Returned
    <2>1. Writer!WriterInv /\ WellFormed(program) /\ TypeOK /\ RefillInv
      BY DEF DriverInv
    <2>2. /\ Writing /\ Writer!Cursor = CodeStart + walk /\ LinkedTo(walk)
          /\ prev_pc = Size /\ walk \in program.opcodes \cup {Size} /\ walk \in 0 .. prev_pc
          /\ CodeStart + Size <= CodeEnd
          /\ \A k \in walk .. Size - 1 : Writer!Image[CodeStart + k] = program.code[k + 1]
      BY <2>1 DEF RefillInv, TypeOK
    <2>3. Writer!RawPosition = CodeStart + walk
      BY <2>1, <2>2, CursorFacts DEF Writing
    <2>4. ASSUME NEW k \in walk .. Size - 1 PROVE WordAt(k) = program.code[k + 1]
      <3>1. Size \in Nat /\ walk \in Nat
        BY <2>1, <2>2, ProgramShape
      <3>2. k \in Nat /\ CodeStart + k < CodeEnd /\ CodeStart + k >= Writer!Cursor
        BY <2>2, <3>1, Constants, SMTT(30)
      <3>3. Writer!Image[CodeStart + k] = flash[CodeStart + k]
        BY <2>1, <3>2, Constants, ChipBehindCursor
      <3> QED BY <2>2, <3>3 DEF WordAt
    <2> QED BY <2>2, <2>3, <2>4 DEF LinkedTo
  <1> QED BY <1>1, DriverInvariant, PTL

-----------------------------------------------------------------------------
(* The driver as a user of the writer, and the cells beside the program.    *)

\* Whatever the driver does is a call of the writer, a step of one, or nothing.
LEMMA WriterMoves ==
  ASSUME DriverInv, [Next]_vars
  PROVE  \/ UNCHANGED writer
         \/ \E start \in CodeStart .. CodeEnd : Writer!OpenRaw(start)
         \/ Writer!OpenFails
         \/ \E d \in Writer!Requests \cup Writer!Skips : Writer!WriteCall(d)
         \/ Writer!CloseCall
         \/ Writer!Step
         \/ Reset /\ Writer!Reset
  <1>1. CASE BindImport \/ ImportMissing \/ UNCHANGED vars
    BY <1>1 DEF BindImport, ImportMissing, vars
  <1>2. CASE OpenFunction
    BY <1>2 DEF OpenFunction, DriverInv, TypeOK
  <1>3. CASE StartRefill
    BY <1>3, Constants DEF StartRefill
  <1>4. CASE \E n \in 1 .. MaxWrite : FlushToFlash(n)
    BY <1>4, FlushKeeps
  <1>5. CASE RefillJump \/ RefillCall \/ RefillSkip
    BY <1>5, JumpKeeps, CallKeeps, SkipKeeps
  <1>6. CASE CloseFunction \/ RefillClose
    BY <1>6 DEF CloseFunction, RefillClose
  <1>7. CASE WriterStep
    BY <1>7 DEF WriterStep
  <1>8. CASE OpenFails
    BY <1>8 DEF OpenFails
  <1>9. CASE Reset
    BY <1>9 DEF Reset
  <1> QED BY <1>1, <1>2, <1>3, <1>4, <1>5, <1>6, <1>7, <1>8, <1>9 DEF Next, Step

\* What the writer does under the driver it does by its own specification: no
\* word is written while it is closed, nor a longer write made than it is
\* checked for, and nothing outside the code space is opened.
THEOREM DriverUsesWriter == Spec => Writer!Spec
  <1>1. Init => Writer!Init
    BY DEF Init
  <1>2. DriverInv /\ [Next]_vars => [Writer!Next]_(Writer!vars)
    <2> SUFFICES ASSUME DriverInv, [Next]_vars PROVE Writer!Next \/ UNCHANGED Writer!vars
      OBVIOUS
    <2>1. UNCHANGED writer => UNCHANGED Writer!vars
      BY DEF writer, Writer!vars
    <2> QED BY <2>1, WriterMoves DEF Writer!Next
  <1> QED BY <1>1, <1>2, DriverInvariant, PTL DEF Spec, Writer!Spec

\* The cells that are not the program's.
Neighbours == Writer!Addr \ OwnCells

\* Where the open page holds cells that are not the program's, it is a copy of
\* the chip, except while the chip's page is erased.
NeighboursSaved ==
    pageaddress # 0 /\ pc # "program" =>
        \A a \in Writer!PageCells(pageaddress) \cap Neighbours :
            pagebuffer[a - pageaddress] = flash[a]

\* A write in progress ends inside the program.
LEMMA CursorInCode ==
  DriverInv /\ data # <<>> => pageaddress # 0 /\ Writer!Cursor <= CodeStart + Size
  <1> SUFFICES ASSUME DriverInv, data # <<>>
               PROVE  pageaddress # 0 /\ Writer!Cursor <= CodeStart + Size
    OBVIOUS
  <1>1. /\ Writer!WriterInv /\ WellFormed(program) /\ TypeOK
        /\ stage \in {"bind", "emit", "refill", "run", "notfound", "nomemory"}
        /\ stage = "bind"     => BindInv
        /\ stage = "emit"     => EmitInv
        /\ stage = "refill"   => RefillInv
        /\ stage = "run"      => RunInv
        /\ stage = "notfound" => Closing
        /\ stage = "nomemory" => pc = "panic"
    BY DEF DriverInv, TypeOK
  <1>2. pc # "panic" /\ pc # "ready" /\ pageaddress # 0
    BY <1>1, CursorFacts
  <1>3. stage = "emit" \/ stage = "refill"
    BY <1>1, <1>2 DEF BindInv, RunInv, Closing
  <1>4. Size \in Nat /\ number \in 1 .. Functions(program) + 1
    BY <1>1, ProgramShape DEF TypeOK
  <1>5. CASE stage = "emit"
    <2>1. /\ Writer!Cursor = CodeStart + ts_pc /\ ts_pc = Until - Len(left)
          /\ number \in Len(Native) + 1 .. Functions(program)
      BY <1>1, <1>2, <1>5 DEF EmitInv
    <2>2. Until \in Begun .. Size /\ Begun \in 0 .. Size
      BY <1>1, <1>4, <2>1, BegunFacts
    <2>3. Until \in Nat /\ Until <= Size /\ Len(left) \in Nat
      BY <1>1, <1>4, <2>2 DEF TypeOK
    <2> HIDE DEF Until
    <2>4. ts_pc \in Int /\ ts_pc <= Size
      BY <2>1, <2>3, <1>4
    <2> QED BY <1>2, <1>4, <2>1, <2>4, Constants
  <1>6. CASE stage = "refill"
    <2>1. Writer!Cursor = CodeStart + walk /\ walk \in program.opcodes \cup {Size}
      BY <1>1, <1>2, <1>6 DEF RefillInv
    <2>2. walk \in Nat /\ walk <= Size
      BY <1>1, <1>4, <2>1, WalkFacts
    <2> QED BY <1>2, <1>4, <2>1, <2>2, Constants
  <1> QED BY <1>3, <1>5, <1>6

\* The writer never goes in front of the code space.
LEMMA HostSaved == DriverInv /\ W!HostCellsSaved /\ [Next]_vars => W!HostCellsSaved'
  <1> SUFFICES ASSUME DriverInv, W!HostCellsSaved, [Next]_vars PROVE W!HostCellsSaved'
    OBVIOUS
  <1>1. W!WriterInv
    BY SameWriter DEF DriverInv
  <1>2. [W!Next]_(W!vars)
    <2>1. UNCHANGED writer => UNCHANGED W!vars
      BY DEF writer, W!vars
    <2>2. \A start : Writer!OpenRaw(start) => W!OpenRaw(start)
      BY DEF Writer!OpenRaw, W!OpenRaw, Writer!FlashPage, W!FlashPage, Writer!Offset, W!Offset
    <2>3. Writer!OpenFails => W!OpenFails
      BY DEF Writer!OpenFails, W!OpenFails
    <2>4. \A d : Writer!WriteCall(d) => W!WriteCall(d)
      BY DEF Writer!WriteCall, W!WriteCall
    <2>5. Writer!CloseCall => W!CloseCall
      BY DEF Writer!CloseCall, W!CloseCall, Writer!Modified, W!Modified,
             Writer!FlashPage, W!FlashPage, Writer!Offset, W!Offset
    <2>6. Writer!Step => W!Step
      BY DEF Writer!Step, W!Step, W!CopyChunk, Writer!CopyChunk, W!Advance, Writer!Advance,
             W!ErasePage, Writer!ErasePage, W!ProgramPage, Writer!ProgramPage, W!Release,
             Writer!Release, W!BytesOnThisPage, Writer!BytesOnThisPage, W!Copied, Writer!Copied,
             W!Modified, Writer!Modified, W!FlashPage, Writer!FlashPage, W!PageCells,
             Writer!PageCells, W!Addr, Writer!Addr, W!Offset, Writer!Offset
    <2>7. Writer!Reset => W!Reset
      BY DEF Writer!Reset, W!Reset
    <2> QED BY <2>1, <2>2, <2>3, <2>4, <2>5, <2>6, <2>7, SameWriter, WriterMoves DEF W!Next
  <1> QED BY <1>1, <1>2, SameWriter, W!HostInv

\* A chunk is copied inside the program, so that its neighbours in the page
\* buffer stay as they are.
LEMMA CopyKeepsNeighbours ==
  ASSUME DriverInv, W!HostCellsSaved, NeighboursSaved, Writer!CopyChunk,
         NEW a \in Writer!PageCells(pageaddress) \cap Neighbours
  PROVE  pagebuffer'[a - pageaddress] = flash[a]
  <1>1. /\ Writer!WriterInv /\ W!WriterInv /\ pc = "copy" /\ WellFormed(program)
        /\ pagebuffer' = Writer!Copied(Writer!BytesOnThisPage)
    BY SameWriter DEF DriverInv, Writer!CopyChunk
  <1>2. data # <<>> /\ pageaddress \in Nat /\ buf_len \in Nat
    BY <1>1, CursorFacts
  <1>3. /\ pageaddress # 0 /\ Writer!Cursor <= CodeStart + Size
    BY <1>2, CursorInCode
  <1> DEFINE n == Writer!BytesOnThisPage
  <1>4. n = W!BytesOnThisPage
    BY DEF Writer!BytesOnThisPage, W!BytesOnThisPage
  <1>5. n \in Nat /\ done + n <= Len(data) /\ done \in Nat /\ Len(data) \in Nat
    <2>1. n \in 1 .. PageSize - buf_len /\ done + n \in 1 .. Len(data) /\ Len(data) \in Nat
      BY <1>1, <1>2, <1>4, SameWriter, W!ChunkFits
    <2>2. done \in 0 .. Len(data)
      BY <1>1 DEF Writer!WriterInv, Writer!TypeOK
    <2> HIDE DEF n
    <2> QED BY <2>1, <2>2
  <1>6. Writer!RawPosition >= CodeStart /\ Writer!RawPosition = pageaddress + buf_len
    BY <1>3 DEF W!HostCellsSaved, W!RawPosition, Writer!RawPosition
  <1>7. Writer!RawPosition + n <= CodeStart + Size
    <2>1. Writer!Cursor = Writer!RawPosition + (Len(data) - done)
      BY <1>3 DEF Writer!Cursor, Writer!Remaining
    <2>2. Size \in Nat
      BY <1>1, ProgramShape
    <2> HIDE DEF n
    <2> QED BY <1>2, <1>3, <1>5, <1>6, <2>1, <2>2, Constants
  <1>8. /\ a - pageaddress \in Writer!Offset /\ a \in Int /\ a \notin CodeStart .. CodeStart + Size - 1
    BY <1>2, SameWriter, W!PageIndex
       DEF Writer!PageCells, W!PageCells, Writer!Offset, W!Offset, Neighbours, OwnCells, Writer!Addr
  <1>9. a - pageaddress \notin buf_len .. buf_len + n - 1
    <2>1. Size \in Nat
      BY <1>1, ProgramShape
    <2> HIDE DEF n
    <2>2. a < CodeStart \/ a >= CodeStart + Size
      BY <1>8, <2>1, Constants
    <2> QED BY <1>2, <1>5, <1>6, <1>7, <1>8, <2>1, <2>2, Constants
  <1>10. pagebuffer'[a - pageaddress] = pagebuffer[a - pageaddress]
    BY <1>1, <1>8, <1>9 DEF Writer!Copied
  <1> QED BY <1>1, <1>3, <1>10 DEF NeighboursSaved

\* The pages that are loaded are copies of the chip, and what is programmed is
\* the page buffer.
LEMMA NeighboursInv ==
  DriverInv /\ W!HostCellsSaved /\ NeighboursSaved /\ [Next]_vars => NeighboursSaved'
  <1> SUFFICES ASSUME DriverInv, W!HostCellsSaved, NeighboursSaved, [Next]_vars
               PROVE  NeighboursSaved'
    OBVIOUS
  <1>1. Neighbours' = Neighbours
    <2>1. program' = program
      BY DEF Next, Step, BindImport, ImportMissing, OpenFunction, FlushToFlash, CloseFunction, StartRefill,
             RefillJump, RefillCall, RefillSkip, RefillClose, WriterStep, OpenFails, Reset, vars
    <2> QED BY <2>1 DEF Neighbours, OwnCells, Size
  <1>2. Writer!WriterInv /\ W!WriterInv /\ pageaddress \in Nat
    BY SameWriter, CursorFacts DEF DriverInv
  <1>3. ASSUME pageaddress' \in Nat, pagebuffer' = Writer!FlashPage(pageaddress'), flash' = flash
        PROVE  NeighboursSaved'
    <2>1. \A a \in Writer!PageCells(pageaddress') : pagebuffer'[a - pageaddress'] = flash[a]
      BY <1>3, SameWriter, W!PageIndex
         DEF Writer!FlashPage, Writer!PageCells, W!PageCells, Writer!Offset, W!Offset
    <2> QED BY <1>1, <1>3, <2>1 DEF NeighboursSaved
  <1>4. ASSUME pagebuffer' = pagebuffer, pageaddress' = pageaddress, flash' = flash, pc # "program"
        PROVE  NeighboursSaved'
    BY <1>1, <1>4 DEF NeighboursSaved
  <1>5. CASE UNCHANGED writer
    BY <1>1, <1>5 DEF writer, NeighboursSaved
  <1>6. ASSUME NEW start \in CodeStart .. CodeEnd, Writer!OpenRaw(start) PROVE NeighboursSaved'
    <2>1. (pageaddress \in Nat)'
      <3>1. Writer!WriterInv'
        BY <1>2, <1>6, Opened
      <3>2. (Writer!WriterInv => pageaddress \in Nat)'
        BY CursorFacts, PTL
      <3> QED BY <3>1, <3>2
    <2> QED BY <1>3, <1>6, <2>1 DEF Writer!OpenRaw
  <1>7. CASE Writer!OpenFails
    BY <1>4, <1>7 DEF Writer!OpenFails
  <1>8. ASSUME NEW d \in Writer!Requests \cup Writer!Skips, Writer!WriteCall(d) PROVE NeighboursSaved'
    BY <1>4, <1>8 DEF Writer!WriteCall
  <1>9. CASE Writer!CloseCall
    <2>1. W!CloseCall
      BY <1>9 DEF Writer!CloseCall, W!CloseCall, Writer!Modified, W!Modified,
                  Writer!FlashPage, W!FlashPage, Writer!Offset, W!Offset
    <2>2. pagebuffer' = pagebuffer
      BY <1>2, <2>1, SameWriter, W!CloseKeepsBuffer
    <2> QED BY <1>4, <1>9, <2>2 DEF Writer!CloseCall
  <1>10. CASE Writer!CopyChunk
    <2>1. pageaddress' = pageaddress /\ flash' = flash
      BY <1>10 DEF Writer!CopyChunk
    <2>2. \A a \in Writer!PageCells(pageaddress) \cap Neighbours : pagebuffer'[a - pageaddress] = flash[a]
      BY <1>10, CopyKeepsNeighbours
    <2> QED BY <1>1, <2>1, <2>2 DEF NeighboursSaved
  <1>11. CASE Writer!Advance
    <2>1. CASE buf_len + chunk = PageSize
      <3>1. /\ pagebuffer' = Writer!FlashPage(pageaddress') /\ flash' = flash
            /\ pageaddress' = pageaddress + PageSize
        BY <1>11, <2>1 DEF Writer!Advance
      <3>2. PageSize \in Nat
        BY DriverAssumption DEF Writer!FlashAssumption
      <3> QED BY <1>2, <1>3, <3>1, <3>2
    <2>2. CASE buf_len + chunk # PageSize
      BY <1>4, <1>11, <2>2 DEF Writer!Advance
    <2> QED BY <2>1, <2>2
  <1>12. CASE Writer!ErasePage
    BY <1>12 DEF Writer!ErasePage, NeighboursSaved
  <1>13. CASE Writer!ProgramPage
    <2>1. /\ pageaddress' = pageaddress /\ pagebuffer' = pagebuffer
          /\ \A a \in Writer!PageCells(pageaddress) \cap Neighbours : flash'[a] = pagebuffer[a - pageaddress]
      BY <1>13 DEF Writer!ProgramPage, Neighbours
    <2> QED BY <1>1, <2>1 DEF NeighboursSaved
  <1>14. CASE Writer!Release
    BY <1>14 DEF Writer!Release, NeighboursSaved
  <1>15. CASE Writer!Reset
    BY <1>15 DEF Writer!Reset, NeighboursSaved
  <1> QED
    BY <1>5, <1>6, <1>7, <1>8, <1>9, <1>10, <1>11, <1>12, <1>13, <1>14, <1>15, WriterMoves
       DEF Writer!Step

\* A write is laid over the program's own cells.
LEMMA WriteKeepsNeighbours ==
  ASSUME DriverInv, DriverInv', W!HostCellsSaved, UNCHANGED program,
         NEW d \in Writer!Requests \cup Writer!Skips, Writer!WriteCall(d), NEW a \in Neighbours
  PROVE  Writer!Image'[a] = Writer!Image[a]
  <1>1. Writer!WriterInv /\ WellFormed(program)
    BY DEF DriverInv
  <1>2. /\ pc = "ready" /\ pageaddress # 0 /\ DOMAIN d = 1 .. Len(d) /\ Len(d) \in Nat
        /\ \/ pc' = "panic" /\ Writer!Image' = Writer!Image
           \/ /\ pc' = "copy" /\ Writer!Image' = Laid(d)
              /\ Writer!Cursor' = Writer!Cursor + Len(d)
    BY <1>1, Written
  <1>3. CASE pc' = "panic"
    BY <1>2, <1>3
  <1>4. CASE pc' = "copy" /\ Writer!Image' = Laid(d) /\ Writer!Cursor' = Writer!Cursor + Len(d)
    <2>1. (DriverInv /\ data # <<>> => pageaddress # 0 /\ Writer!Cursor <= CodeStart + Size)'
      BY CursorInCode, PTL
    <2>2. (Writer!WriterInv /\ pc \in {"copy", "advance"} => data # <<>>)'
      BY CursorFacts, PTL
    <2>3. Writer!WriterInv' /\ Size' = Size
      BY ProgramSame DEF DriverInv
    <2>4. Writer!Cursor + Len(d) <= CodeStart + Size
      BY <1>4, <2>1, <2>2, <2>3
    <2>5. Writer!Cursor >= CodeStart /\ Writer!Cursor \in Nat
      <3>1. Writer!Cursor = Writer!RawPosition /\ pageaddress \in Nat /\ buf_len \in Nat
        BY <1>1, <1>2, CursorFacts
      <3> QED BY <1>2, <3>1 DEF W!HostCellsSaved, W!RawPosition, Writer!RawPosition
    <2>6. a \in Writer!Addr /\ a \in Int /\ a \notin CodeStart .. CodeStart + Size - 1 /\ Size \in Nat
      BY <1>1, ProgramShape DEF Neighbours, OwnCells, Writer!Addr
    <2>7. a - Writer!Cursor + 1 \notin 1 .. Len(d)
      BY <1>2, <2>4, <2>5, <2>6, Constants
    <2> QED BY <1>2, <1>4, <2>6, <2>7 DEF Laid
  <1> QED BY <1>2, <1>3, <1>4

\* A reset gives back what the chip holds, which is what the neighbours hold.
LEMMA ResetKeepsNeighbours ==
  ASSUME DriverInv, W!HostCellsSaved, NeighboursSaved, Writer!Reset, pc # "program", NEW a \in Neighbours
  PROVE  Writer!Image'[a] = Writer!Image[a]
  <1>1. Writer!WriterInv /\ W!WriterInv /\ WellFormed(program) /\ a \in Writer!Addr /\ a \in W!Addr
    BY SameWriter DEF DriverInv, Neighbours
  <1>2. Writer!Image'[a] = flash[a]
    <2>1. W!Reset
      BY DEF Writer!Reset, W!Reset
    <2>2. W!Image' = flash
      BY <1>1, <2>1, SameWriter, W!ResetRefines DEF W!Log!Reset
    <2>3. (W!Image = Writer!Image)'
      BY SameWriter, PTL
    <2> QED BY <2>2, <2>3
  <1>3. ~W!Waiting(a)
    <2>1. CASE data = <<>>
      BY <1>1, <2>1, SameWriter, W!NothingWaiting
    <2>2. CASE data # <<>>
      <3>1. pageaddress # 0 /\ Writer!Cursor <= CodeStart + Size /\ pageaddress \in Nat /\ buf_len \in Nat
        BY <1>1, <2>2, CursorInCode, CursorFacts
      <3>2. Writer!RawPosition >= CodeStart /\ Writer!RawPosition \in Nat
        BY <3>1 DEF W!HostCellsSaved, W!RawPosition, Writer!RawPosition
      <3>3. Writer!Remaining \in Int
        <4>1. Len(data) \in Nat
          BY <1>1, <2>2, SameWriter, W!ChunkFits
        <4>2. done \in 0 .. Len(data)
          BY <1>1 DEF Writer!WriterInv, Writer!TypeOK
        <4> QED BY <4>1, <4>2 DEF Writer!Remaining
      <3>4. Writer!Cursor = Writer!RawPosition + Writer!Remaining
        BY <3>1 DEF Writer!Cursor
      <3>5. a \notin CodeStart .. CodeStart + Size - 1 /\ Size \in Nat /\ a \in Int
        BY <1>1, ProgramShape DEF Neighbours, OwnCells, Writer!Addr
      <3>6. a \notin Writer!RawPosition .. Writer!RawPosition + Writer!Remaining - 1
        BY <3>1, <3>2, <3>3, <3>4, <3>5, Constants
      <3> QED BY <3>6 DEF W!Waiting, W!RawPosition, Writer!RawPosition, W!Remaining, Writer!Remaining
    <2> QED BY <2>1, <2>2
  <1>4. Writer!Image[a] = W!Saved(a)
    <2>1. W!Image[a] = W!Saved(a)
      BY <1>1, <1>3, SameWriter, W!ImageAt
    <2> QED BY <2>1, SameWriter
  <1>5. W!Saved(a) = flash[a]
    BY <1>1 DEF W!Saved, NeighboursSaved, W!PageCells, Writer!PageCells
  <1> QED BY <1>2, <1>4, <1>5

\* No step of the driver changes a neighbour, power lost over an erased page
\* apart.
LEMMA NeighboursStep ==
  ASSUME DriverInv, W!HostCellsSaved, NeighboursSaved, [Next]_vars
  PROVE  \/ Reset /\ pc = "program"
         \/ \A a \in Neighbours : Writer!Image'[a] = Writer!Image[a]
  <1>1. DriverInv' /\ Writer!WriterInv
    BY DriverNext DEF DriverInv
  <1>2. UNCHANGED program
    BY DEF Next, Step, BindImport, ImportMissing, OpenFunction, FlushToFlash, CloseFunction, StartRefill,
           RefillJump, RefillCall, RefillSkip, RefillClose, WriterStep, OpenFails, Reset, vars
  <1>3. CASE UNCHANGED writer
    BY <1>1, <1>3, WriterSame
  <1>4. ASSUME NEW start \in CodeStart .. CodeEnd, Writer!OpenRaw(start)
        PROVE  Writer!Image' = Writer!Image
    BY <1>1, <1>4, Opened
  <1>5. CASE Writer!OpenFails
    BY <1>1, <1>5, NoMemory
  <1>6. ASSUME NEW d \in Writer!Requests \cup Writer!Skips, Writer!WriteCall(d)
        PROVE  \A a \in Neighbours : Writer!Image'[a] = Writer!Image[a]
    BY <1>1, <1>2, <1>6, WriteKeepsNeighbours
  <1>7. CASE Writer!CloseCall
    BY <1>1, <1>7, WriterCloses
  <1>8. CASE Writer!Step
    BY <1>1, <1>8, Stepped
  <1>9. CASE Reset /\ Writer!Reset
    BY <1>9, ResetKeepsNeighbours
  <1> QED BY <1>3, <1>4, <1>5, <1>6, <1>7, <1>8, <1>9, WriterMoves

\* The cells that are not the program's keep what they hold while it is
\* compiled and linked, although they share its first and its last page; only
\* power lost while a page is erased changes them (wkreprog_impl_close).
THEOREM NeighboursAreKept == Spec => NeighboursKept
  <1>1. Init => W!HostCellsSaved /\ NeighboursSaved
    BY DEF Init, Writer!Init, W!HostCellsSaved, NeighboursSaved
  <1>2. DriverInv /\ W!HostCellsSaved /\ NeighboursSaved /\ [Next]_vars
          => [\/ Reset /\ pc = "program"
              \/ \A a \in Writer!Addr \ OwnCells : Writer!Image'[a] = Writer!Image[a]]_vars
    BY NeighboursStep DEF Neighbours
  <1> QED
    BY <1>1, <1>2, DriverInvariant, HostSaved, NeighboursInv, PTL DEF Spec, NeighboursKept

=============================================================================
