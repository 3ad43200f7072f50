-------------------------- MODULE FlashPagesProofs --------------------------
(***************************************************************************)
(* Proofs about the flash writer (FlashPages), for every page size, chip,   *)
(* code space and length of a write.  Three parts: WriterInv is inductive;  *)
(* under it every step is a step of FlashLog or a stutter; and with         *)
(* HostCellsSaved beside it no call changes a cell outside the code space.  *)
(* One lemma per action, in the order of the actions in FlashPages.         *)
(***************************************************************************)
EXTENDS FlashPages, TLAPS

\* How start % SPM_PAGESIZE and page + SPM_PAGESIZE of wkreprog_impl.c relate:
\* an offset is inside the page, a page address is a multiple of the page size.
LEMMA ModFacts ==
  ASSUME NEW a \in Nat
  PROVE  /\ a % PageSize \in Offset
         /\ (a - (a % PageSize)) % PageSize = 0
         /\ a >= PageSize => a - (a % PageSize) >= PageSize
         /\ a % PageSize = 0 => (a + PageSize) % PageSize = 0
         /\ a < PageSize => a % PageSize = a
         /\ PageSize % PageSize = 0
  <1>1. PageSize \in Nat /\ PageSize > 0
    BY FlashAssumption
  <1>2. a % PageSize \in Offset
    BY <1>1 DEF Offset
  <1>3. a = PageSize * (a \div PageSize) + (a % PageSize)
    BY <1>1
  <1>3a. (a \div PageSize) \in Nat
    BY <1>1
  <1>4. \A k \in Nat : (PageSize * k) % PageSize = 0
    BY <1>1
  <1>5. (a - (a % PageSize)) % PageSize = 0
    <2>1. PageSize * (a \div PageSize) \in Nat
      BY <1>1, <1>3a
    <2>2. a - (a % PageSize) = PageSize * (a \div PageSize)
      BY <1>2, <1>3, <2>1 DEF Offset
    <2> QED BY <2>2, <1>3a, <1>4
  <1>6. a >= PageSize => a - (a % PageSize) >= PageSize
    BY <1>1, <1>2, <1>3, <1>3a DEF Offset
  <1>7. ASSUME a % PageSize = 0
        PROVE  (a + PageSize) % PageSize = 0
    <2>1. PageSize * ((a \div PageSize) + 1) = PageSize * (a \div PageSize) + PageSize
      BY <1>1, <1>3a
    <2>2. a = PageSize * (a \div PageSize)
      BY <1>1, <1>3, <1>3a, <1>7
    <2>3. a + PageSize = PageSize * ((a \div PageSize) + 1)
      BY <2>1, <2>2
    <2> QED BY <2>3, <1>3a, <1>4
  <1>8. a < PageSize => a % PageSize = a
    BY <1>1
  <1>9. PageSize % PageSize = 0
    BY <1>1
  <1> QED BY <1>2, <1>5, <1>6, <1>7, <1>8, <1>9

\* The data of a write or of a skip: not empty, its cells values or Keep.
LEMMA DataShape ==
  ASSUME NEW d \in Requests \cup Skips
  PROVE  /\ Len(d) \in Nat /\ Len(d) > 0
         /\ d # <<>>
         /\ DOMAIN d = 1 .. Len(d)
         /\ \A i \in 1 .. Len(d) : d[i] \in Value \cup {Keep}
  <1>1. PICK n \in 1 .. MaxWrite : d \in [1 .. n -> Value \cup {Keep}]
    BY DEF Requests, Skips
  <1>2. n \in Nat /\ n > 0
    BY <1>1, FlashAssumption
  <1>3. Len(d) = n /\ d \in Seq(Value \cup {Keep})
    BY <1>1, <1>2
  <1> QED BY <1>1, <1>2, <1>3

\* A device that has just started, with the writer closed, satisfies the
\* invariant.
LEMMA InitInv == Init => WriterInv
  <1>1. 0 \in Offset /\ 0 % PageSize = 0 /\ Len(<<>>) = 0
    BY ModFacts, FlashAssumption DEF Offset
  <1> QED
    BY <1>1, FlashAssumption DEF Init, WriterInv, TypeOK, CallInProgress, TailIsFlash,
                ChunkInBuffer, RawPosition, Remaining, Offset

\* A page of the code space, and the one that follows it, lie on the chip.
LEMMA PageOnChip ==
  ASSUME flash \in [Addr -> Value], NEW p \in 0 .. CodeEnd
  PROVE  /\ FlashPage(p) \in [Offset -> Value]
         /\ \A i \in Offset : p + i \in Addr
  BY FlashAssumption DEF FlashPage, Offset, Addr

\* The cells of a page and their offsets in it.
LEMMA PageIndex ==
  ASSUME NEW p \in Nat, NEW a \in PageCells(p)
  PROVE  a - p \in Offset /\ p + (a - p) = a
  BY FlashAssumption DEF PageCells, Offset

\* wkreprog_impl_open_raw leaves a page buffer equal to the chip.
LEMMA OpenInv ==
  ASSUME WriterInv, NEW start \in CodeStart .. CodeEnd, OpenRaw(start)
  PROVE  WriterInv'
  <1> USE FlashAssumption DEF WriterInv
  <1>1. start \in Nat /\ start >= PageSize
    OBVIOUS
  <1>2. /\ buf_len' \in Offset
        /\ pageaddress' \in 0 .. CodeEnd /\ pageaddress' # 0
        /\ pageaddress' % PageSize = 0
        /\ pageaddress' + buf_len' = start
    <2>1. /\ start % PageSize \in Offset
          /\ (start - (start % PageSize)) % PageSize = 0
          /\ start - (start % PageSize) >= PageSize
      BY <1>1, ModFacts
    <2>2. start - (start % PageSize) \in 0 .. CodeEnd
      BY <1>1, <2>1 DEF Offset
    <2> QED BY <1>1, <2>1, <2>2 DEF OpenRaw, Offset
  <1>3. pagebuffer' \in [Offset -> Value]
    BY <1>2, PageOnChip DEF OpenRaw, TypeOK
  <1>4. data = <<>> /\ done = 0 /\ Len(data) = 0
    BY DEF OpenRaw, CallInProgress
  <1>5. TypeOK'
    <2>1. (chunk \in 0 .. PageSize - buf_len)'
      BY <1>2, <1>4 DEF OpenRaw, CallInProgress, Offset
    <2> QED
      BY <1>2, <1>3, <1>4, <2>1 DEF OpenRaw, TypeOK, RawPosition, Remaining
  <1>6. CallInProgress'
    BY <1>4 DEF OpenRaw, CallInProgress
  <1>7. TailIsFlash'
    BY <1>2, SMTT(30) DEF OpenRaw, TailIsFlash, FlashPage, Offset
  <1>8. ChunkInBuffer'
    BY <1>4 DEF OpenRaw, ChunkInBuffer
  <1> QED BY <1>5, <1>6, <1>7, <1>8

\* Without memory for the page buffer only the control state changes.
LEMMA OpenFailsInv == WriterInv /\ OpenFails => WriterInv'
  BY DEF WriterInv, OpenFails, TypeOK, CallInProgress, TailIsFlash, ChunkInBuffer,
         BytesOnThisPage, RawPosition, Remaining

\* The check at the head of wkreprog_impl_write is what keeps the whole write
\* in the code space.
LEMMA WriteCallInv ==
  ASSUME WriterInv, NEW d \in Requests \cup Skips, WriteCall(d)
  PROVE  WriterInv'
  <1> USE DEF WriterInv
  <1>1. CASE pageaddress + buf_len + Len(d) > safe_end
    BY <1>1 DEF WriteCall, TypeOK, CallInProgress, TailIsFlash, ChunkInBuffer,
                BytesOnThisPage, RawPosition, Remaining
  <1>2. CASE ~(pageaddress + buf_len + Len(d) > safe_end)
    <2>1. Len(d) \in Nat /\ Len(d) > 0 /\ d # <<>>
      BY DataShape
    <2>2. pc' = "copy" /\ data' = d /\ done' = 0
      BY <1>2 DEF WriteCall
    <2>3. TypeOK'
      BY <1>2, <2>1, <2>2, FlashAssumption
         DEF WriteCall, TypeOK, RawPosition, Remaining, Offset
    <2>4. CallInProgress'
      BY <2>1, <2>2 DEF WriteCall, CallInProgress
    <2>5. TailIsFlash' /\ ChunkInBuffer'
      BY <2>2 DEF WriteCall, TailIsFlash, ChunkInBuffer
    <2> QED BY <2>3, <2>4, <2>5
  <1> QED BY <1>1, <1>2

\* The chunk of an iteration is not empty and fits the page.
LEMMA ChunkFits ==
  ASSUME WriterInv, data # <<>>
  PROVE  /\ BytesOnThisPage \in 1 .. PageSize - buf_len
         /\ done + BytesOnThisPage \in 1 .. Len(data)
         /\ Len(data) \in Nat
         /\ DOMAIN data = 1 .. Len(data)
         /\ \A i \in 1 .. Len(data) : data[i] \in Value \cup {Keep}
         /\ \A i \in buf_len .. buf_len + BytesOnThisPage - 1 :
              done + (i - buf_len) + 1 \in 1 .. Len(data)
         /\ pageaddress # 0
         /\ buf_len + BytesOnThisPage # PageSize => done + BytesOnThisPage = Len(data)
  <1>1. /\ Len(data) \in Nat
        /\ DOMAIN data = 1 .. Len(data)
        /\ \A i \in 1 .. Len(data) : data[i] \in Value \cup {Keep}
    BY DataShape DEF WriterInv, TypeOK
  <1>2. done \in Nat /\ done < Len(data) /\ buf_len \in Offset
    BY <1>1 DEF WriterInv, TypeOK, CallInProgress
  <1>3. pageaddress # 0
    BY DEF WriterInv, CallInProgress
  <1> QED
    BY <1>1, <1>2, <1>3, FlashAssumption DEF BytesOnThisPage, Offset

\* After the copy the chunk is in the buffer and the chip is behind it.
LEMMA CopyChunkInv == WriterInv /\ CopyChunk => WriterInv'
  <1> SUFFICES ASSUME WriterInv, CopyChunk PROVE WriterInv'
    OBVIOUS
  <1> USE FlashAssumption DEF WriterInv
  <1>1. data # <<>> /\ pc = "copy" /\ pageaddress # 0
    BY DEF CopyChunk, CallInProgress
  <1> DEFINE n == BytesOnThisPage
  <1>2. /\ n \in 1 .. PageSize - buf_len /\ chunk' = n
        /\ Len(data) \in Nat
        /\ \A i \in 1 .. Len(data) : data[i] \in Value \cup {Keep}
        /\ \A i \in buf_len .. buf_len + n - 1 : done + (i - buf_len) + 1 \in 1 .. Len(data)
    BY <1>1, ChunkFits DEF CopyChunk
  <1>3. pagebuffer' = Copied(n) /\ pagebuffer \in [Offset -> Value] /\ buf_len \in Offset
    BY <1>1 DEF CopyChunk, TypeOK
  <1>4. pagebuffer' \in [Offset -> Value]
    BY <1>2, <1>3 DEF Copied
  <1>5. BytesOnThisPage' = n /\ n \in Nat
    BY <1>2 DEF CopyChunk, BytesOnThisPage, Offset, TypeOK
  <1>6. TypeOK'
    BY <1>1, <1>2, <1>4 DEF CopyChunk, TypeOK, RawPosition, Remaining
  <1>7. CallInProgress'
    BY <1>1, <1>2, <1>5 DEF CopyChunk, CallInProgress
  <1>8. TailIsFlash'
    BY DEF CopyChunk, TailIsFlash
  <1>9. \A i \in Offset :
           pagebuffer'[i] = IF /\ i \in buf_len .. buf_len + n - 1
                               /\ data[done + (i - buf_len) + 1] # Keep
                            THEN data[done + (i - buf_len) + 1]
                            ELSE pagebuffer[i]
    BY <1>3 DEF Copied
  <1>10. ChunkInBuffer'
    <2>1. buf_len .. buf_len + n - 1 \subseteq Offset
          /\ buf_len + n .. PageSize - 1 \subseteq buf_len .. PageSize - 1
          /\ buf_len .. PageSize - 1 \subseteq Offset
      BY <1>2, <1>3, SMTT(30) DEF Offset
    <2>2. \A i \in buf_len .. buf_len + n - 1 :
             data[done + (i - buf_len) + 1] # Keep
               => pagebuffer'[i] = data[done + (i - buf_len) + 1]
      BY <1>9, <2>1
    <2>3. \A i \in buf_len + n .. PageSize - 1 : pagebuffer'[i] = flash[pageaddress + i]
      <3> SUFFICES ASSUME NEW i \in buf_len + n .. PageSize - 1
                   PROVE  pagebuffer'[i] = flash[pageaddress + i]
        OBVIOUS
      <3>1. i \in Offset /\ i \in buf_len .. PageSize - 1 /\ i \notin buf_len .. buf_len + n - 1
        BY <2>1, <1>2, <1>3 DEF Offset
      <3> QED BY <1>9, <3>1, <1>1 DEF TailIsFlash
    <2>4. pc' = "advance" /\ buf_len + n = PageSize => pagebuffer' = FlashPage(pageaddress)
      BY <1>2 DEF CopyChunk, Modified
    <2>5. pc' # "release"
      BY DEF CopyChunk
    <2> QED BY <2>2, <2>3, <2>4, <2>5, <1>2 DEF CopyChunk, ChunkInBuffer, FlashPage
  <1> QED BY <1>6, <1>7, <1>8, <1>10

\* The end of an iteration: the next page is loaded, or the write was finished.
LEMMA AdvanceInv == WriterInv /\ Advance => WriterInv'
  <1> SUFFICES ASSUME WriterInv, Advance PROVE WriterInv'
    OBVIOUS
  <1> USE FlashAssumption DEF WriterInv
  <1>1. data # <<>> /\ pc = "advance" /\ chunk = BytesOnThisPage
    BY DEF Advance, CallInProgress
  <1>2. /\ chunk \in 1 .. PageSize - buf_len
        /\ done + chunk \in 1 .. Len(data)
        /\ Len(data) \in Nat
        /\ pageaddress # 0
        /\ buf_len + chunk # PageSize => done + chunk = Len(data)
    BY <1>1, ChunkFits
  <1>3. /\ pageaddress \in 0 .. CodeEnd /\ pageaddress % PageSize = 0
        /\ buf_len \in Offset /\ done \in Nat
        /\ pageaddress + buf_len + (Len(data) - done) <= CodeEnd
        /\ safe_end = CodeEnd
    BY <1>1, <1>2 DEF TypeOK, RawPosition, Remaining
  <1>4. /\ chunk' = 0
        /\ data' # <<>> => data' = data /\ done' = done + chunk /\ pc' = "copy"
                           /\ done + chunk < Len(data)
        /\ data' = <<>> => done' = 0 /\ pc' = "ready" /\ done + chunk = Len(data)
        /\ Len(data') - done' = Len(data) - done - chunk
    <2>1. Len(<<>>) = 0
      OBVIOUS
    <2>2. CASE done + chunk = Len(data)
      BY <2>1, <2>2, <1>2, <1>3 DEF Advance
    <2>3. CASE done + chunk # Len(data)
      BY <2>3, <1>1, <1>2, <1>3 DEF Advance
    <2> QED BY <2>2, <2>3
  <1>5. CASE buf_len + chunk = PageSize
    <2>1. pageaddress' = pageaddress + PageSize /\ buf_len' = 0
      BY <1>5, ModFacts DEF Advance
    <2>2. pageaddress' \in 0 .. CodeEnd /\ pageaddress' # 0 /\ pageaddress' % PageSize = 0
      <3>1. pageaddress \in Nat /\ (pageaddress + PageSize) % PageSize = 0
        BY <1>3, ModFacts
      <3>2. pageaddress + PageSize <= CodeEnd
        BY <1>2, <1>3, <1>5, <3>1 DEF Offset
      <3> QED BY <2>1, <3>1, <3>2
    <2>3. pagebuffer' = FlashPage(pageaddress') /\ flash' = flash
      BY <1>5 DEF Advance
    <2>4. pagebuffer' \in [Offset -> Value]
      BY <2>2, <2>3, PageOnChip DEF TypeOK
    <2>5. TypeOK'
      <3>1. /\ done' \in 0 .. Len(data')
            /\ data' \in {<<>>} \cup Requests \cup Skips
        BY <1>2, <1>3, <1>4 DEF TypeOK
      <3>2. pageaddress' + buf_len' + (Len(data') - done') <= CodeEnd
        BY <1>2, <1>3, <1>4, <1>5, <2>1 DEF Offset
      <3>3. pc' \in {"ready", "copy"} /\ chunk' \in 0 .. PageSize - buf_len' /\ buf_len' \in Offset
        BY <1>4, <2>1 DEF Offset
      <3> QED
        BY <1>3, <2>2, <2>3, <2>4, <3>1, <3>2, <3>3
           DEF Advance, TypeOK, RawPosition, Remaining
    <2>6. TailIsFlash'
      BY <2>1, <2>3 DEF TailIsFlash, FlashPage, Offset
    <2> QED BY <1>2, <1>4, <2>2, <2>5, <2>6 DEF CallInProgress, ChunkInBuffer
  <1>6. CASE buf_len + chunk # PageSize
    <2>1. /\ pageaddress' = pageaddress /\ pagebuffer' = pagebuffer /\ flash' = flash
          /\ safe_end' = safe_end
      BY <1>6 DEF Advance
    <2>2. buf_len' = buf_len + chunk /\ buf_len' \in Offset
      <3>1. buf_len + chunk \in Nat /\ buf_len + chunk < PageSize
        BY <1>2, <1>3, <1>6 DEF Offset
      <3>2. (buf_len + chunk) % PageSize = buf_len + chunk
        BY <3>1, ModFacts
      <3> QED BY <3>1, <3>2 DEF Advance, Offset
    <2>3. data' = <<>>
      BY <1>2, <1>4, <1>6
    <2>4. TypeOK'
      BY <1>2, <1>3, <1>4, <2>1, <2>2, <2>3
         DEF TypeOK, RawPosition, Remaining, Offset
    <2>5. TailIsFlash'
      BY <1>1, <2>1, <2>2 DEF TailIsFlash, ChunkInBuffer
    <2> QED BY <1>2, <1>4, <2>1, <2>3, <2>4, <2>5 DEF CallInProgress, ChunkInBuffer
  <1> QED BY <1>5, <1>6

\* Erasing a page changes only the chip, while the buffer keeps its content.
LEMMA EraseInv == WriterInv /\ ErasePage => WriterInv'
  BY FlashAssumption
     DEF WriterInv, ErasePage, TypeOK, CallInProgress, TailIsFlash, ChunkInBuffer,
         BytesOnThisPage, RawPosition, Remaining

\* A programmed page is what the page buffer holds.
LEMMA ProgramInv == WriterInv /\ ProgramPage => WriterInv'
  <1> SUFFICES ASSUME WriterInv, ProgramPage PROVE WriterInv'
    OBVIOUS
  <1> USE FlashAssumption DEF WriterInv
  <1>1. /\ pageaddress # 0 /\ pageaddress \in 0 .. CodeEnd
        /\ pagebuffer \in [Offset -> Value] /\ flash \in [Addr -> Value]
    BY DEF ProgramPage, TypeOK, CallInProgress
  <1>2. flash' \in [Addr -> Value]
    BY <1>1 DEF ProgramPage, PageCells, Offset
  <1>3. \A i \in Offset : flash'[pageaddress + i] = pagebuffer[i]
    <2> SUFFICES ASSUME NEW i \in Offset
                 PROVE  flash'[pageaddress + i] = pagebuffer[i]
      OBVIOUS
    <2>1. pageaddress + i \in Addr
      BY <1>1, PageOnChip
    <2>2. /\ pageaddress + i \in PageCells(pageaddress)
          /\ (pageaddress + i) - pageaddress = i
      BY <1>1 DEF PageCells, Offset
    <2> QED BY <2>1, <2>2 DEF ProgramPage
  <1>4. /\ pagebuffer' = pagebuffer /\ pageaddress' = pageaddress
        /\ pagebuffer' = [i \in Offset |-> flash'[pageaddress' + i]]
    BY <1>1, <1>3 DEF ProgramPage
  <1>5. TypeOK'
    BY <1>2 DEF ProgramPage, TypeOK, RawPosition, Remaining
  <1>6. CallInProgress'
    BY DEF ProgramPage, CallInProgress, BytesOnThisPage
  <1>7. TailIsFlash'
    BY DEF ProgramPage, TailIsFlash
  <1>8. pc' = "advance" => \A i \in buf_len + chunk .. PageSize - 1 :
                               pagebuffer[i] = flash'[pageaddress + i]
    <2> SUFFICES ASSUME pc' = "advance", NEW i \in buf_len + chunk .. PageSize - 1
                 PROVE  pagebuffer[i] = flash'[pageaddress + i]
      OBVIOUS
    <2>1. i \in Offset
      BY DEF TypeOK, Offset
    <2> QED BY <1>3, <2>1
  <1>9. ChunkInBuffer'
    <2>1. (pagebuffer = FlashPage(pageaddress))'
      BY <1>4 DEF FlashPage
    <2>2. /\ data' = data /\ done' = done /\ buf_len' = buf_len /\ chunk' = chunk
          /\ pc = "program" /\ pagebuffer' = pagebuffer /\ pageaddress' = pageaddress
      BY DEF ProgramPage
    <2>3. data # <<>> => \A i \in buf_len .. buf_len + chunk - 1 :
                            data[done + (i - buf_len) + 1] # Keep
                              => pagebuffer[i] = data[done + (i - buf_len) + 1]
      BY <2>2 DEF ChunkInBuffer
    <2> QED BY <2>1, <2>2, <2>3, <1>8 DEF ChunkInBuffer
  <1> QED BY <1>5, <1>6, <1>7, <1>9

\* The refill of the tail changes nothing.
LEMMA CloseKeepsBuffer ==
  ASSUME WriterInv, CloseCall
  PROVE  pagebuffer' = pagebuffer
  <1>1. pagebuffer \in [Offset -> Value] /\ buf_len \in Offset
    BY DEF WriterInv, TypeOK, CloseCall
  <1>2. ASSUME NEW i \in Offset, ~(i < buf_len)
        PROVE  pagebuffer[i] = flash[pageaddress + i]
    <2>1. i \in buf_len .. PageSize - 1
      BY <1>1, <1>2, FlashAssumption DEF Offset
    <2> QED BY <2>1 DEF WriterInv, TailIsFlash, CloseCall
  <1> QED BY <1>1, <1>2 DEF CloseCall

\* wkreprog_impl_close: the page that is released is saved.
LEMMA CloseInv == WriterInv /\ CloseCall => WriterInv'
  <1> SUFFICES ASSUME WriterInv, CloseCall PROVE WriterInv'
    OBVIOUS
  <1> USE DEF WriterInv
  <1>1. pagebuffer' = pagebuffer /\ data = <<>>
    BY CloseKeepsBuffer DEF CloseCall, CallInProgress
  <1>2. TypeOK'
    BY <1>1 DEF CloseCall, TypeOK, RawPosition, Remaining
  <1>3. CallInProgress'
    BY <1>1 DEF CloseCall, CallInProgress
  <1>4. TailIsFlash'
    BY DEF CloseCall, TailIsFlash
  <1>5. pc' = "release" => pagebuffer = FlashPage(pageaddress)
    <2>1. CASE buf_len # 0
      BY <2>1, <1>1 DEF CloseCall, Modified
    <2>2. CASE buf_len = 0
      BY <2>2 DEF CloseCall, TailIsFlash, TypeOK, FlashPage, Offset
    <2> QED BY <2>1, <2>2
  <1>6. ChunkInBuffer'
    BY <1>1, <1>5 DEF CloseCall, ChunkInBuffer, FlashPage
  <1> QED BY <1>2, <1>3, <1>4, <1>6

\* The end of wkreprog_impl_close.
LEMMA ReleaseInv == WriterInv /\ Release => WriterInv'
  BY FlashAssumption, ModFacts
     DEF WriterInv, Release, TypeOK, CallInProgress, TailIsFlash, ChunkInBuffer

\* A reset between any two steps leaves a closed writer.
LEMMA ResetInv == WriterInv /\ Reset => WriterInv'
  <1>1. 0 \in Offset /\ 0 % PageSize = 0 /\ Len(<<>>) = 0
    BY ModFacts, FlashAssumption DEF Offset
  <1> QED
    BY <1>1, FlashAssumption
       DEF WriterInv, Reset, TypeOK, CallInProgress, TailIsFlash, ChunkInBuffer, Offset

\* A step that changes nothing.
LEMMA StutterInv == WriterInv /\ UNCHANGED vars => WriterInv'
  BY DEF vars, WriterInv, TypeOK, CallInProgress, TailIsFlash, ChunkInBuffer,
         RawPosition, Remaining, BytesOnThisPage, FlashPage

\* The invariant is inductive: every step of the writer preserves it.
LEMMA NextInv == WriterInv /\ [Next]_vars => WriterInv'
  BY OpenInv, OpenFailsInv, WriteCallInv, CopyChunkInv, AdvanceInv, EraseInv, ProgramInv,
     CloseInv, ReleaseInv, ResetInv, StutterInv DEF Next, Step

\* In every reachable state of the writer of wkreprog_impl.c the open page is
\* a page of the chip with the cursor in it, the write in progress ends in the
\* code space, the buffer behind the cursor is a copy of the chip, and a page
\* that is left or released is in the chip.
THEOREM WriterInvariant == Spec => []WriterInv
  BY InitInv, NextInv, PTL DEF Spec

\* The writer's variables keep their shape: the cursor stays in the region and
\* in the page it loaded, whatever is written (the region check of line 100 of
\* wkreprog_impl.c is the only one).
THEOREM WriterTypes == Spec => []TypeOK
  <1>1. WriterInv => TypeOK
    BY DEF WriterInv
  <1> QED BY <1>1, WriterInvariant, PTL

-----------------------------------------------------------------------------
\* Refinement: the image at one address, and its two easy cases.

Waiting(a) == /\ pageaddress # 0
              /\ a \in RawPosition .. RawPosition + Remaining - 1
              /\ Inflight(a) # Keep

Saved(a) == IF pageaddress # 0 /\ a \in PageCells(pageaddress)
            THEN pagebuffer[a - pageaddress] ELSE flash[a]

\* The image at one address: what waits there, or else what is saved.
LEMMA ImageAt ==
  /\ Image = [a \in Addr |-> IF Waiting(a) THEN Inflight(a) ELSE Saved(a)]
  /\ Image' = [a \in Addr |-> IF Waiting(a)' THEN Inflight(a)' ELSE Saved(a)']
  BY DEF Image, Waiting, Saved

\* Between two calls the image is the page buffer over the chip.
LEMMA NothingWaiting ==
  ASSUME WriterInv, data = <<>>
  PROVE  /\ \A a \in Addr : ~Waiting(a)
         /\ Image = [a \in Addr |-> Saved(a)]
         /\ Remaining = 0
  <1>1. Len(data) = 0 /\ done = 0
    BY DEF WriterInv, CallInProgress
  <1>2. Remaining = 0
    BY <1>1 DEF Remaining
  <1>3. RawPosition \in Int
    BY FlashAssumption DEF WriterInv, TypeOK, RawPosition, Offset
  <1>4. \A a \in Addr : ~Waiting(a)
    BY <1>2, <1>3 DEF Waiting
  <1> QED BY <1>2, <1>4, ImageAt

\* Opening the writer moves the cursor and changes no cell of the image.
LEMMA OpenRefines ==
  ASSUME WriterInv, NEW start \in CodeStart .. CodeEnd, OpenRaw(start)
  PROVE  Log!Open(start)
  <1>1. data = <<>> /\ data' = <<>> /\ WriterInv' /\ pageaddress = 0 /\ flash' = flash
    BY OpenInv DEF OpenRaw, WriterInv, CallInProgress
  <1>2. start \in Nat /\ start >= PageSize /\ start % PageSize \in Offset
        /\ start - (start % PageSize) >= PageSize
    BY ModFacts, FlashAssumption
  <1>3. pageaddress' # 0 /\ pageaddress' + buf_len' = start /\ pageaddress' \in Nat
    BY <1>2, FlashAssumption DEF OpenRaw, Offset
  <1>4. Remaining' = 0
    BY <1>1 DEF OpenRaw, WriterInv, CallInProgress, Remaining
  <1>5. Image' = [a \in Addr |-> Saved(a)']
    <2>1. \A a \in Addr : ~Waiting(a)'
      BY <1>3, <1>2, <1>4 DEF Waiting, RawPosition
    <2> QED BY <2>1, ImageAt
  <1>6. \A a \in Addr : Saved(a)' = flash[a] /\ Saved(a) = flash[a]
    <2> SUFFICES ASSUME NEW a \in Addr
                 PROVE  Saved(a)' = flash[a] /\ Saved(a) = flash[a]
      OBVIOUS
    <2>1. a \in PageCells(pageaddress') =>
             a - pageaddress' \in Offset /\ pageaddress' + (a - pageaddress') = a
      BY <1>3, PageIndex
    <2> QED BY <1>1, <2>1 DEF Saved, OpenRaw, FlashPage
  <1>7. Image' = Image
    BY <1>1, <1>5, <1>6, NothingWaiting
  <1>8. Cursor = 0 /\ Cursor' = start
    BY <1>1, <1>2, <1>3, <1>4 DEF Cursor, RawPosition
  <1> QED BY <1>1, <1>7, <1>8 DEF Log!Open, OpenRaw

\* An accepted write is laid over the image at once; a refused one halts.
LEMMA WriteRefines ==
  ASSUME WriterInv, NEW d \in Requests \cup Skips, WriteCall(d)
  PROVE  Log!Write(d) \/ Log!Halt
  <1>1. data = <<>> /\ done = 0 /\ pageaddress # 0 /\ pageaddress' = pageaddress
        /\ RawPosition' = RawPosition /\ flash' = flash /\ pagebuffer' = pagebuffer
        /\ Remaining = 0 /\ safe_end = CodeEnd
    BY NothingWaiting DEF WriteCall, WriterInv, CallInProgress, RawPosition, TypeOK
  <1>2. RawPosition \in Nat /\ RawPosition # 0
    BY <1>1, FlashAssumption DEF WriterInv, TypeOK, RawPosition, Offset
  <1>3. CASE pageaddress + buf_len + Len(d) > safe_end
    <2>1. data' = data /\ done' = done /\ pc' = "panic"
      BY <1>3 DEF WriteCall
    <2>2. Image' = Image /\ Cursor' = Cursor
      BY <1>1, <2>1 DEF Image, Cursor, Remaining, Inflight
    <2> QED BY <1>1, <2>1, <2>2 DEF Log!Halt
  <1>4. CASE ~(pageaddress + buf_len + Len(d) > safe_end)
    <2>1. data' = d /\ done' = 0 /\ pc' = "copy" /\ pc = "ready"
      BY <1>4 DEF WriteCall
    <2>2. Len(d) \in Nat /\ DOMAIN d = 1 .. Len(d)
      BY DataShape
    <2>3. Remaining' = Len(d)
      BY <2>1, <2>2 DEF Remaining
    <2>4. Cursor = RawPosition /\ Cursor' = RawPosition + Len(d)
      BY <1>1, <1>2, <2>3 DEF Cursor
    <2>5. RawPosition + Len(d) <= CodeEnd
      BY <1>1, <1>4, <2>2, <1>2, FlashAssumption DEF RawPosition
    <2>6. \A a \in Addr : /\ Inflight(a)' = d[a - RawPosition + 1]
                          /\ Saved(a)' = Saved(a)
                          /\ Waiting(a)' <=> /\ a - RawPosition + 1 \in DOMAIN d
                                             /\ d[a - RawPosition + 1] # Keep
      <3> SUFFICES ASSUME NEW a \in Addr
                   PROVE  /\ Inflight(a)' = d[a - RawPosition + 1]
                          /\ Saved(a)' = Saved(a)
                          /\ Waiting(a)' <=> /\ a - RawPosition + 1 \in DOMAIN d
                                             /\ d[a - RawPosition + 1] # Keep
        OBVIOUS
      <3>1. a \in Int
        BY FlashAssumption DEF Addr
      <3>2. Inflight(a)' = d[a - RawPosition + 1]
        BY <1>1, <1>2, <2>1, <3>1 DEF Inflight
      <3>3. Saved(a)' = Saved(a)
        BY <1>1 DEF Saved
      <3>4. a \in RawPosition .. RawPosition + Len(d) - 1 <=> a - RawPosition + 1 \in 1 .. Len(d)
        BY <1>2, <2>2, <3>1
      <3> QED BY <1>1, <2>2, <2>3, <3>2, <3>3, <3>4 DEF Waiting
    <2>7. \A a \in Addr : Image[a] = Saved(a)
      BY <1>1, NothingWaiting
    <2>8. Image' = Log!Overlay(Image, Cursor, d)
      BY <2>4, <2>6, <2>7, ImageAt DEF Log!Overlay, Log!Addr, Addr
    <2> QED BY <1>1, <1>2, <2>1, <2>4, <2>5, <2>8 DEF Log!Write
  <1> QED BY <1>3, <1>4

\* An open without memory halts the log.
LEMMA OpenFailsRefines == WriterInv /\ OpenFails => Log!Halt
  BY DEF OpenFails, Log!Halt, Image, Cursor, RawPosition, Remaining, Inflight

\* A cell copied to the page buffer is the cell that was waiting for it.
LEMMA CopyRefines == WriterInv /\ CopyChunk => UNCHANGED <<Image, flash, Cursor, pc = "panic">>
  <1> SUFFICES ASSUME WriterInv, CopyChunk
               PROVE  UNCHANGED <<Image, flash, Cursor, pc = "panic">>
    OBVIOUS
  <1> USE FlashAssumption
  <1>1. /\ data # <<>> /\ pageaddress # 0 /\ pageaddress \in Nat /\ buf_len \in Offset
        /\ done \in Nat /\ pagebuffer' = Copied(BytesOnThisPage)
        /\ Len(data) \in Nat
    BY ChunkFits DEF CopyChunk, WriterInv, CallInProgress, TypeOK
  <1> DEFINE n == BytesOnThisPage
  <1>2. n \in Nat /\ buf_len + n <= PageSize /\ done + n <= Len(data)
    BY <1>1, ChunkFits DEF Offset
  <1>3. \A a \in Addr : (Waiting(a)' <=> Waiting(a)) /\ Inflight(a)' = Inflight(a)
    BY DEF CopyChunk, Waiting, Inflight, RawPosition, Remaining
  <1>4. ASSUME NEW a \in Addr, ~Waiting(a)
        PROVE  Saved(a)' = Saved(a)
    <2>1. CASE a \notin PageCells(pageaddress)
      BY <2>1 DEF CopyChunk, Saved
    <2>2. CASE a \in PageCells(pageaddress)
      <3>1. a - pageaddress \in Offset /\ a \in Int
        BY <2>2, <1>1, PageIndex DEF Addr
      <3> DEFINE i == a - pageaddress
      <3>2. ~(i \in buf_len .. buf_len + n - 1 /\ data[done + (i - buf_len) + 1] # Keep)
        <4> SUFFICES ASSUME i \in buf_len .. buf_len + n - 1
                     PROVE  data[done + (i - buf_len) + 1] = Keep
          OBVIOUS
        <4>1. a \in RawPosition .. RawPosition + Remaining - 1
          BY <1>1, <1>2, <3>1 DEF RawPosition, Remaining, Offset
        <4>2. Inflight(a) = data[done + (i - buf_len) + 1]
          <5>1. a - RawPosition = i - buf_len
            BY <1>1, <3>1 DEF RawPosition, Offset
          <5> QED BY <5>1 DEF Inflight
        <4> QED BY <4>1, <4>2, <1>4, <1>1 DEF Waiting
      <3>3. Copied(n)[i] = pagebuffer[i]
        BY <3>1, <3>2 DEF Copied
      <3> QED BY <1>1, <2>2, <3>3 DEF Saved, CopyChunk
    <2> QED BY <2>1, <2>2
  <1>5. Image' = Image
    BY <1>3, <1>4, ImageAt
  <1> QED BY <1>5 DEF CopyChunk, Cursor, RawPosition, Remaining

\* Advancing turns cells of the write into cells of the page buffer that hold
\* the same values, and a page that is left into cells of the chip.
LEMMA AdvanceRefines == WriterInv /\ Advance => UNCHANGED <<Image, flash, Cursor, pc = "panic">>
  <1> SUFFICES ASSUME WriterInv, Advance
               PROVE  UNCHANGED <<Image, flash, Cursor, pc = "panic">>
    OBVIOUS
  <1> USE FlashAssumption
  <1>1. /\ data # <<>> /\ pageaddress # 0 /\ pageaddress \in Nat /\ buf_len \in Offset
        /\ done \in Nat /\ chunk = BytesOnThisPage /\ flash' = flash
        /\ Len(data) \in Nat /\ pc = "advance"
    BY ChunkFits DEF Advance, WriterInv, CallInProgress, TypeOK
  <1>2. /\ chunk \in Nat /\ buf_len + chunk <= PageSize /\ done + chunk <= Len(data)
        /\ buf_len + chunk \in Nat /\ chunk > 0
    BY <1>1, ChunkFits DEF Offset
  <1>3. /\ RawPosition \in Nat /\ RawPosition' = RawPosition + chunk
        /\ pageaddress' \in Nat /\ pageaddress' # 0
    <2>1. CASE buf_len + chunk = PageSize
      <3>1. PageSize % PageSize = 0
        BY ModFacts
      <3>2. pageaddress' = pageaddress + PageSize /\ buf_len' = 0
        BY <2>1, <3>1 DEF Advance
      <3> QED BY <2>1, <3>2, <1>1, <1>2 DEF RawPosition, Offset
    <2>2. CASE buf_len + chunk # PageSize
      <3>1. buf_len + chunk < PageSize
        BY <1>2, <2>2
      <3>2. (buf_len + chunk) % PageSize = buf_len + chunk
        BY <1>2, <3>1, ModFacts
      <3> QED BY <2>2, <3>2, <1>1, <1>2 DEF Advance, RawPosition, Offset
    <2> QED BY <2>1, <2>2
  <1>4. /\ Remaining \in Nat /\ Remaining' = Remaining - chunk
        /\ Remaining' # 0 => data' = data /\ done' = done + chunk
    <2>1. Len(<<>>) = 0
      OBVIOUS
    <2>2. CASE done + chunk = Len(data)
      BY <2>1, <2>2, <1>1, <1>2 DEF Advance, Remaining
    <2>3. CASE done + chunk # Len(data)
      BY <2>3, <1>1, <1>2 DEF Advance, Remaining
    <2> QED BY <2>2, <2>3
  <1>5. ASSUME NEW a \in Addr, a \in RawPosition' .. RawPosition' + Remaining' - 1
        PROVE  Inflight(a)' = Inflight(a) /\ (Waiting(a)' <=> Waiting(a))
    <2>1. a \in RawPosition .. RawPosition + Remaining - 1 /\ Remaining' # 0 /\ a \in Int
      BY <1>2, <1>3, <1>4, <1>5
    <2>2. done' + (a - RawPosition') + 1 = done + (a - RawPosition) + 1
      BY <1>1, <1>2, <1>3, <1>4, <2>1
    <2> QED BY <1>1, <1>3, <1>4, <1>5, <2>1, <2>2 DEF Inflight, Waiting
  <1>6. ASSUME NEW a \in Addr
        PROVE  Saved(a)' = Saved(a)
    <2>1. CASE buf_len + chunk # PageSize
      BY <2>1 DEF Advance, Saved
    <2>2. CASE buf_len + chunk = PageSize
      <3>1. pageaddress' = pageaddress + PageSize /\ pagebuffer' = FlashPage(pageaddress')
            /\ pagebuffer = FlashPage(pageaddress)
        BY <2>2, <1>1 DEF Advance, WriterInv, ChunkInBuffer
      <3>2. Saved(a)' = flash[a]
        <4>1. a \in PageCells(pageaddress') =>
                a - pageaddress' \in Offset /\ pageaddress' + (a - pageaddress') = a
          BY <1>3, PageIndex
        <4> QED BY <3>1, <4>1, <1>1 DEF Saved, FlashPage
      <3>3. Saved(a) = flash[a]
        <4>1. a \in PageCells(pageaddress) =>
                a - pageaddress \in Offset /\ pageaddress + (a - pageaddress) = a
          BY <1>1, PageIndex
        <4> QED BY <3>1, <4>1, <1>1 DEF Saved, FlashPage
      <3> QED BY <3>2, <3>3
    <2> QED BY <2>1, <2>2
  <1>7. ASSUME NEW a \in Addr, Waiting(a), ~Waiting(a)'
        PROVE  Inflight(a) = Saved(a)
    <2>1. a \in RawPosition .. RawPosition + chunk - 1
      <3>1. a \notin RawPosition' .. RawPosition' + Remaining' - 1
        BY <1>5, <1>7
      <3>2. a \in RawPosition .. RawPosition + Remaining - 1 /\ a \in Int
        BY <1>7 DEF Waiting, Addr
      <3> QED BY <3>1, <3>2, <1>2, <1>3, <1>4
    <2> DEFINE i == a - pageaddress
    <2>2. i \in buf_len .. buf_len + chunk - 1 /\ a - RawPosition = i - buf_len
      BY <2>1, <1>1, <1>2 DEF RawPosition, Offset
    <2>3. a \in PageCells(pageaddress)
      BY <2>1, <2>2, <1>1, <1>2 DEF PageCells, RawPosition, Offset
    <2>4. Inflight(a) = data[done + (i - buf_len) + 1]
      BY <2>2 DEF Inflight
    <2>5. Inflight(a) # Keep
      BY <1>7 DEF Waiting
    <2> QED BY <2>2, <2>3, <2>4, <2>5, <1>1 DEF WriterInv, ChunkInBuffer, Saved
  <1>8. ASSUME NEW a \in Addr, Waiting(a)'
        PROVE  Waiting(a) /\ Inflight(a)' = Inflight(a)
    BY <1>5, <1>8 DEF Waiting
  <1>9. Image' = Image
    BY <1>6, <1>7, <1>8, ImageAt
  <1>10. Cursor' = Cursor
    BY <1>1, <1>2, <1>3, <1>4 DEF Cursor
  <1> QED BY <1>1, <1>9, <1>10 DEF Advance

\* Erasing the page the cursor is in is the log's erase.
LEMMA EraseRefines == WriterInv /\ ErasePage => Log!ErasePage(pageaddress)
  <1> SUFFICES ASSUME WriterInv, ErasePage PROVE Log!ErasePage(pageaddress)
    OBVIOUS
  <1>1. pageaddress # 0 /\ pageaddress % PageSize = 0
    BY DEF WriterInv, ErasePage, CallInProgress, TypeOK
  <1>2. \A a \in Addr : /\ Waiting(a)' <=> Waiting(a)
                        /\ Inflight(a)' = Inflight(a)
                        /\ Saved(a)' = Saved(a)
    BY <1>1 DEF ErasePage, Waiting, Inflight, Saved, RawPosition, Remaining
  <1>3. Image' = Image
    BY <1>2, ImageAt
  <1> QED
    BY <1>1, <1>3 DEF ErasePage, Log!ErasePage, Log!Addr, Log!PageCells, Addr, PageCells,
                      Cursor, RawPosition, Remaining

\* The page programmed is the image's: nothing that waits is missing from it.
LEMMA ProgramRefines == WriterInv /\ ProgramPage => Log!ProgramPage(pageaddress)
  <1> SUFFICES ASSUME WriterInv, ProgramPage PROVE Log!ProgramPage(pageaddress)
    OBVIOUS
  <1> USE FlashAssumption
  <1>1. /\ pageaddress # 0 /\ pageaddress % PageSize = 0 /\ pageaddress \in Nat
        /\ buf_len \in Offset /\ done \in Nat
    BY DEF WriterInv, ProgramPage, CallInProgress, TypeOK
  <1>2. \A a \in Addr : /\ Waiting(a)' <=> Waiting(a)
                        /\ Inflight(a)' = Inflight(a)
                        /\ Saved(a)' = Saved(a)
    BY <1>1 DEF ProgramPage, Waiting, Inflight, Saved, RawPosition, Remaining
  <1>3. Image' = Image
    BY <1>2, ImageAt
  <1>4. ASSUME NEW a \in PageCells(pageaddress), a \in Addr
        PROVE  Image[a] = pagebuffer[a - pageaddress]
    <2>1. Saved(a) = pagebuffer[a - pageaddress]
      BY <1>1, <1>4 DEF Saved
    <2>2. ASSUME Waiting(a)
          PROVE  Inflight(a) = pagebuffer[a - pageaddress]
      <3>1. data # <<>>
        BY <1>4, <2>2, NothingWaiting
      <3>2. buf_len + chunk = PageSize
        BY <3>1 DEF WriterInv, CallInProgress, ProgramPage
      <3> DEFINE i == a - pageaddress
      <3>3. i \in Offset /\ pageaddress + i = a /\ a \in Int
        BY <1>1, PageIndex DEF PageCells
      <3>4. a - RawPosition = i - buf_len /\ i >= buf_len
        BY <2>2, <3>3, <1>1 DEF Waiting, RawPosition, Offset
      <3>5. i \in buf_len .. buf_len + chunk - 1
        BY <3>2, <3>3, <3>4, <1>1 DEF Offset, WriterInv, TypeOK
      <3>6. Inflight(a) = data[done + (i - buf_len) + 1] /\ Inflight(a) # Keep
        BY <2>2, <3>4 DEF Inflight, Waiting
      <3> QED BY <3>1, <3>5, <3>6 DEF WriterInv, ChunkInBuffer, ProgramPage
    <2> QED BY <1>4, <2>1, <2>2, ImageAt
  <1> QED
    BY <1>1, <1>3, <1>4
       DEF ProgramPage, Log!ProgramPage, Log!Addr, Log!PageCells, Addr, PageCells,
           Cursor, RawPosition, Remaining

\* The head of wkreprog_impl_close changes nothing the log can see.
LEMMA CloseRefines == WriterInv /\ CloseCall => UNCHANGED <<Image, flash, Cursor, pc = "panic">>
  BY CloseKeepsBuffer
     DEF CloseCall, Image, Cursor, RawPosition, Remaining, Inflight

\* The writer closes only when the image is in the chip.
LEMMA ReleaseRefines == WriterInv /\ Release => Log!Close
  <1> SUFFICES ASSUME WriterInv, Release PROVE Log!Close
    OBVIOUS
  <1>1. /\ data = <<>> /\ pagebuffer = FlashPage(pageaddress) /\ pc = "release"
        /\ pageaddress # 0 /\ pageaddress \in Nat /\ buf_len \in Nat
    BY FlashAssumption
       DEF WriterInv, Release, CallInProgress, ChunkInBuffer, TypeOK, Offset
  <1>2. \A a \in Addr : Saved(a) = flash[a]
    <2> SUFFICES ASSUME NEW a \in Addr PROVE Saved(a) = flash[a]
      OBVIOUS
    <2>1. a \in PageCells(pageaddress) =>
             a - pageaddress \in Offset /\ pageaddress + (a - pageaddress) = a
      BY <1>1, PageIndex
    <2> QED BY <1>1, <2>1 DEF Saved, FlashPage
  <1>3. flash = [a \in Addr |-> flash[a]]
    BY DEF WriterInv, TypeOK
  <1>4. Image = flash
    BY <1>1, <1>2, <1>3, NothingWaiting
  <1>5. Image' = flash
    BY <1>3 DEF Release, Image
  <1>6. Cursor # 0 /\ Cursor' = 0
    BY <1>1, NothingWaiting DEF Release, Cursor, RawPosition
  <1> QED BY <1>1, <1>4, <1>5, <1>6 DEF Release, Log!Close

\* A reset leaves the image that the chip holds.
LEMMA ResetRefines == WriterInv /\ Reset => Log!Reset
  <1> SUFFICES ASSUME WriterInv, Reset PROVE Log!Reset
    OBVIOUS
  <1>1. flash = [a \in Addr |-> flash[a]]
    BY DEF WriterInv, TypeOK
  <1>2. Image' = flash /\ Cursor' = 0
    BY <1>1 DEF Reset, Image, Cursor
  <1> QED BY <1>2 DEF Reset, Log!Reset

\* A closed writer is a log whose image is the chip.
LEMMA InitRefines == Init => Log!Init
  <1> SUFFICES ASSUME Init PROVE Log!Init
    OBVIOUS
  <1>1. flash = [a \in Addr |-> flash[a]]
    BY DEF Init
  <1>2. Image = flash /\ Cursor = 0
    BY <1>1 DEF Init, Image, Cursor
  <1> QED BY <1>2 DEF Init, Log!Init, Log!Addr, Addr

\* Every step of the writer is a step of the log or a stutter, and it is a reset
\* of the log only when it is one of the writer.
LEMMA NextRefines ==
  ASSUME WriterInv, [Next]_vars
  PROVE  Log!Powered \/ UNCHANGED Log!logvars \/ (Reset /\ Log!Reset)
  <1>1. ASSUME NEW start \in CodeStart .. CodeEnd, OpenRaw(start) PROVE Log!Powered
    BY <1>1, OpenRefines DEF Log!Powered
  <1>2. CASE OpenFails
    BY <1>2, OpenFailsRefines DEF Log!Powered
  <1>3. ASSUME NEW d \in Requests \cup Skips, WriteCall(d) PROVE Log!Powered
    <2>1. Log!Requests = Requests /\ Log!Skips = Skips
      BY DEF Log!Requests, Requests, Log!Skips, Skips
    <2> QED BY <1>3, <2>1, WriteRefines DEF Log!Powered
  <1>4. CASE CloseCall
    BY <1>4, CloseRefines DEF Log!logvars
  <1>5. CASE CopyChunk
    BY <1>5, CopyRefines DEF Log!logvars
  <1>6. CASE Advance
    BY <1>6, AdvanceRefines DEF Log!logvars
  <1>7. pageaddress \in Log!Addr
    BY FlashAssumption DEF WriterInv, TypeOK, Log!Addr
  <1>8. CASE ErasePage
    BY <1>7, <1>8, EraseRefines DEF Log!Powered
  <1>9. CASE ProgramPage
    BY <1>7, <1>9, ProgramRefines DEF Log!Powered
  <1>10. CASE Release
    BY <1>10, ReleaseRefines DEF Log!Powered
  <1>11. CASE Reset
    BY <1>11, ResetRefines
  <1>12. CASE UNCHANGED vars
    BY <1>12 DEF vars, Log!logvars, Image, Cursor, RawPosition, Remaining, Inflight
  <1> QED
    BY <1>1, <1>2, <1>3, <1>4, <1>5, <1>6, <1>8, <1>9, <1>10, <1>11, <1>12 DEF Next, Step

\* The writer of wkreprog_impl.c implements FlashLog: however a write is cut
\* into pages, no cell is lost, repeated or moved; a reset leaves what was
\* programmed, and nothing but a reset loses what was not.
THEOREM WriterImplementsLog == Spec => ImplementsLog
  <1>1. WriterInv /\ [Next]_vars => [Log!Next]_(Log!logvars)
    BY NextRefines DEF Log!Next
  <1>2. WriterInv /\ [Next]_vars
           => [Reset \/ Log!Powered \/ UNCHANGED Log!logvars]_vars
    BY NextRefines
  <1> QED
    BY WriterInvariant, InitRefines, <1>1, <1>2, PTL DEF Spec, ImplementsLog, Log!Spec

-----------------------------------------------------------------------------
\* The cells outside the code space.

\* A chunk is copied inside the code space, so the host's cells in the page
\* buffer stay as they are.
LEMMA CopyKeepsHost ==
  ASSUME WriterInv, HostCellsSaved, CopyChunk
  PROVE  HostCellsSaved'
  <1> USE FlashAssumption
  <1>1. /\ data # <<>> /\ pageaddress # 0 /\ pageaddress \in Nat /\ buf_len \in Offset
        /\ done \in Nat /\ Len(data) \in Nat
        /\ pagebuffer' = Copied(BytesOnThisPage) /\ pc = "copy"
        /\ pageaddress + buf_len + (Len(data) - done) <= CodeEnd
        /\ pageaddress + buf_len >= CodeStart
    BY ChunkFits DEF CopyChunk, WriterInv, CallInProgress, TypeOK, RawPosition, Remaining,
                     HostCellsSaved
  <1> DEFINE n == BytesOnThisPage
  <1>2. n \in Nat /\ done + n <= Len(data)
    BY <1>1, ChunkFits DEF Offset
  <1>3. ASSUME NEW a \in HostCells \cap PageCells(pageaddress)
        PROVE  pagebuffer'[a - pageaddress] = flash[a]
    <2>1. a - pageaddress \in Offset /\ a \in Int /\ ~(a >= CodeStart /\ a < CodeEnd)
      BY <1>1, PageIndex DEF HostCells, Addr
    <2>2. a - pageaddress \notin buf_len .. buf_len + n - 1
      BY <1>1, <1>2, <2>1 DEF Offset
    <2>3. pagebuffer'[a - pageaddress] = pagebuffer[a - pageaddress]
      BY <1>1, <2>1, <2>2 DEF Copied
    <2> QED BY <1>1, <2>3 DEF HostCellsSaved
  <1> QED BY <1>1, <1>3 DEF CopyChunk, HostCellsSaved, RawPosition

\* The next page is loaded from the chip, its host cells with it.
LEMMA AdvanceKeepsHost ==
  ASSUME WriterInv, HostCellsSaved, Advance
  PROVE  HostCellsSaved'
  <1> USE FlashAssumption
  <1>1. /\ data # <<>> /\ pageaddress # 0 /\ pageaddress \in Nat /\ buf_len \in Offset
        /\ chunk = BytesOnThisPage /\ flash' = flash /\ pc = "advance"
        /\ RawPosition >= CodeStart
    BY DEF Advance, WriterInv, CallInProgress, TypeOK, HostCellsSaved
  <1>2. chunk \in Nat /\ buf_len + chunk \in Nat /\ buf_len + chunk <= PageSize
    BY <1>1, ChunkFits DEF Offset
  <1>3. CASE buf_len + chunk = PageSize
    <2>1. pageaddress' = pageaddress + PageSize /\ buf_len' = 0
          /\ pagebuffer' = FlashPage(pageaddress')
      BY <1>3, ModFacts DEF Advance
    <2>2. RawPosition' >= CodeStart /\ pageaddress' \in Nat
      BY <1>1, <1>2, <1>3, <2>1 DEF RawPosition, Offset
    <2>3. \A a \in PageCells(pageaddress') : pagebuffer'[a - pageaddress'] = flash[a]
      BY <2>1, <2>2, PageIndex DEF FlashPage
    <2> QED BY <1>1, <2>2, <2>3 DEF HostCellsSaved
  <1>4. CASE buf_len + chunk # PageSize
    <2>1. buf_len + chunk < PageSize
      BY <1>2, <1>4
    <2>2. buf_len' = buf_len + chunk
      BY <1>2, <2>1, ModFacts DEF Advance
    <2>3. RawPosition' >= CodeStart
      BY <1>1, <1>2, <1>4, <2>2 DEF Advance, RawPosition, Offset
    <2> QED BY <1>1, <1>4, <2>3 DEF Advance, HostCellsSaved
  <1> QED BY <1>3, <1>4

\* HostCellsSaved is preserved by every step, given WriterInv.
LEMMA HostInv == WriterInv /\ HostCellsSaved /\ [Next]_vars => HostCellsSaved'
  <1> SUFFICES ASSUME WriterInv, HostCellsSaved, [Next]_vars PROVE HostCellsSaved'
    OBVIOUS
  <1>1. ASSUME NEW start \in CodeStart .. CodeEnd, OpenRaw(start) PROVE HostCellsSaved'
    <2>1. start \in Nat /\ start >= CodeStart /\ start % PageSize \in Offset
          /\ start - (start % PageSize) >= PageSize
      BY ModFacts, FlashAssumption
    <2>2. pageaddress' \in Nat /\ RawPosition' >= CodeStart
      BY <1>1, <2>1, FlashAssumption DEF OpenRaw, RawPosition, Offset
    <2>3. \A a \in PageCells(pageaddress') : pagebuffer'[a - pageaddress'] = flash[a]
      BY <1>1, <2>2, PageIndex DEF OpenRaw, FlashPage
    <2> QED BY <1>1, <2>2, <2>3 DEF OpenRaw, HostCellsSaved
  <1>2. CASE OpenFails
    BY <1>2 DEF OpenFails, HostCellsSaved
  <1>3. ASSUME NEW d \in Requests \cup Skips, WriteCall(d) PROVE HostCellsSaved'
    BY <1>3 DEF WriteCall, HostCellsSaved, RawPosition
  <1>4. CASE CloseCall
    BY <1>4, CloseKeepsBuffer DEF CloseCall, HostCellsSaved, RawPosition
  <1>5. CASE CopyChunk
    BY <1>5, CopyKeepsHost
  <1>6. CASE Advance
    BY <1>6, AdvanceKeepsHost
  <1>7. CASE ErasePage
    BY <1>7 DEF ErasePage, HostCellsSaved, RawPosition
  <1>8. CASE ProgramPage
    <2>1. \A a \in HostCells \cap PageCells(pageaddress) : flash'[a] = pagebuffer[a - pageaddress]
      BY <1>8 DEF ProgramPage, HostCells
    <2> QED BY <1>8, <2>1 DEF ProgramPage, HostCellsSaved, RawPosition
  <1>9. CASE Release
    BY <1>9 DEF Release, HostCellsSaved
  <1>10. CASE Reset
    BY <1>10 DEF Reset, HostCellsSaved
  <1>11. CASE UNCHANGED vars
    BY <1>11 DEF vars, HostCellsSaved, RawPosition
  <1> QED
    BY <1>1, <1>2, <1>3, <1>4, <1>5, <1>6, <1>7, <1>8, <1>9, <1>10, <1>11 DEF Next, Step

\* No host cell waits in the write in progress.
LEMMA HostNotWaiting ==
  ASSUME WriterInv, HostCellsSaved, pc # "panic"
  PROVE  \A a \in HostCells : ~Waiting(a)
  <1> SUFFICES ASSUME NEW a \in HostCells, Waiting(a) PROVE FALSE
    OBVIOUS
  <1>1. Len(data) \in Nat
    <2>1. CASE data = <<>>
      BY <2>1
    <2>2. CASE data # <<>>
      BY <2>2, ChunkFits
    <2> QED BY <2>1, <2>2
  <1>2. /\ RawPosition \in Int /\ Remaining \in Int
        /\ RawPosition >= CodeStart /\ RawPosition + Remaining <= CodeEnd
    BY <1>1, FlashAssumption
       DEF WriterInv, TypeOK, HostCellsSaved, Waiting, RawPosition, Remaining, Offset
  <1> QED BY <1>2, FlashAssumption DEF HostCells, Waiting, Addr

\* A step other than a reset of an erased page leaves the host cells alone.
LEMMA HostStep ==
  ASSUME WriterInv, HostCellsSaved, [Next]_vars
  PROVE  \/ Reset /\ pc = "program"
         \/ \A a \in HostCells : Image'[a] = Image[a]
  <1> SUFFICES ASSUME Image' # Image, ~(Reset /\ pc = "program")
               PROVE  \A a \in HostCells : Image'[a] = Image[a]
    OBVIOUS
  <1>1. ASSUME NEW d \in Requests \cup Skips, WriteCall(d)
        PROVE  \A a \in HostCells : Image'[a] = Image[a]
    <2>1. CASE Log!Halt
      BY <2>1 DEF Log!Halt
    <2>2. CASE Log!Write(d)
      <3>1. data = <<>> /\ pageaddress # 0
        BY <1>1 DEF WriteCall, WriterInv, CallInProgress
      <3>2. Cursor \in Nat /\ Cursor >= CodeStart
        BY <3>1, NothingWaiting, FlashAssumption
           DEF WriterInv, TypeOK, HostCellsSaved, Cursor, RawPosition, Offset
      <3>3. Cursor + Len(d) <= CodeEnd /\ Image' = Log!Overlay(Image, Cursor, d)
        BY <2>2 DEF Log!Write
      <3>4. Len(d) \in Nat /\ DOMAIN d = 1 .. Len(d)
        BY DataShape
      <3>5. \A a \in HostCells : a \in Addr /\ a - Cursor + 1 \notin DOMAIN d
        BY <3>2, <3>3, <3>4, FlashAssumption DEF HostCells, Addr
      <3> QED BY <3>3, <3>5 DEF Log!Overlay, Log!Addr, Addr
    <2> QED BY <1>1, <2>1, <2>2, WriteRefines
  <1>2. ASSUME Reset, pc # "program"
        PROVE  \A a \in HostCells : Image'[a] = Image[a]
    <2>1. Image' = flash
      BY <1>2, ResetRefines DEF Log!Reset
    <2>2. CASE pc = "panic"
      <3>1. \A a \in Addr : ~Waiting(a)
        BY <2>2, NothingWaiting DEF WriterInv, CallInProgress
      <3> QED BY <2>1, <2>2, <3>1, ImageAt DEF HostCells, HostCellsSaved, Saved
    <2>3. CASE pc # "panic"
      <3>1. \A a \in HostCells : ~Waiting(a)
        BY <2>3, HostNotWaiting
      <3> QED BY <1>2, <2>1, <3>1, ImageAt DEF HostCells, HostCellsSaved, Saved
    <2> QED BY <2>2, <2>3
  <1>3. ASSUME NEW start \in CodeStart .. CodeEnd, OpenRaw(start) PROVE FALSE
    BY <1>3, OpenRefines DEF Log!Open
  <1>4. ~OpenFails
    BY OpenFailsRefines DEF Log!Halt
  <1>5. ~CloseCall /\ ~CopyChunk /\ ~Advance
    BY CloseRefines, CopyRefines, AdvanceRefines
  <1>6. ~ErasePage /\ ~ProgramPage
    BY EraseRefines, ProgramRefines DEF Log!ErasePage, Log!ProgramPage
  <1>7. ~Release
    BY ReleaseRefines DEF Log!Close
  <1>8. ~UNCHANGED vars
    BY DEF vars, Image, RawPosition, Remaining, Inflight
  <1> QED
    BY <1>1, <1>2, <1>3, <1>4, <1>5, <1>6, <1>7, <1>8 DEF Next, Step

\* A closed writer holds no host cells.
LEMMA HostInit == Init => HostCellsSaved
  BY DEF Init, HostCellsSaved

\* The cells outside the code space, which share pages with compiled code,
\* are changed by no call; only power lost between erase and write changes
\* them (lines 166-181 of wkreprog_impl.c).
THEOREM HostCellsAreKept == Spec => HostCellsKept
  <1>1. WriterInv /\ HostCellsSaved /\ [Next]_vars
          => [\/ Reset /\ pc = "program"
              \/ \A a \in HostCells : Image'[a] = Image[a]]_vars
    BY HostStep
  <1> QED BY <1>1, WriterInvariant, HostInit, HostInv, PTL DEF Spec, HostCellsKept
=============================================================================
