----------------------------- MODULE FlashPages -----------------------------
(***************************************************************************)
(* The flash writer of src/src/wkreprog_impl.c: a RAM copy of the page      *)
(* under the cursor, filled by writes and skips, programmed when it is      *)
(* full or when the writer closes, and only if it differs from the chip.    *)
(*                                                                         *)
(* The steps of one call are separate actions because the device may lose   *)
(* power between any two of them: Reset is the only concurrent actor.       *)
(* A cell stands for one byte; the data of a skip are Keep cells, which     *)
(* leave the page buffer as it is (if (!skip) memcpy).                      *)
(***************************************************************************)
EXTENDS Integers, Sequences

CONSTANTS PageSize, FlashSize, CodeStart, CodeEnd, Value, Erased, Keep,
          NoPage,      \* avr_flash_pagebuffer == NULL
          MaxWrite     \* bound: the longest write or skip

\* The compiled code lies behind page 0 (pageaddress 0 means closed), ends on a
\* page boundary (122880 = 480 * 256), and a page follows it on the chip.
ASSUME FlashAssumption ==
    /\ PageSize \in Nat \ {0}
    /\ FlashSize \in Nat /\ CodeStart \in Nat /\ CodeEnd \in Nat
    /\ MaxWrite \in Nat
    /\ PageSize <= CodeStart /\ CodeStart <= CodeEnd
    /\ CodeEnd % PageSize = 0
    /\ CodeEnd + PageSize <= FlashSize
    /\ Erased \in Value /\ Keep \notin Value

VARIABLES
    flash,         \* the chip
    pagebuffer,    \* avr_flash_pagebuffer
    pageaddress,   \* avr_flash_pageaddress, 0 when closed
    buf_len,       \* avr_flash_buf_len: the offset of the cursor in the page
    safe_end,      \* avr_flash_end_of_safe_region
    data,          \* the data argument of the write in progress, <<>> if none
    done,          \* how many of its cells the loop has consumed
    chunk,         \* bytes_on_this_page
    pc             \* where the call in progress is

vars == <<flash, pagebuffer, pageaddress, buf_len, safe_end, data, done, chunk, pc>>

Addr   == 0 .. FlashSize - 1
Offset == 0 .. PageSize - 1
PageCells(p) == p .. p + PageSize - 1

Requests == UNION { [1 .. n -> Value] : n \in 1 .. MaxWrite }
Skips    == { [i \in 1 .. n |-> Keep] : n \in 1 .. MaxWrite }

\* The page at p as pgm_read_byte_far reads it.
FlashPage(p) == [i \in Offset |-> flash[p + i]]

\* avr_flash_program_page_if_not_modified: a page equal to the chip is not worn.
Modified(buf) == buf # FlashPage(pageaddress)

Init ==
    /\ flash \in [Addr -> Value]
    /\ pagebuffer = NoPage
    /\ pageaddress = 0 /\ buf_len = 0 /\ safe_end = 0
    /\ data = <<>> /\ done = 0 /\ chunk = 0
    /\ pc = "ready"

\* Mutant, not the code: the page buffer starts blank.
OpenRawBlank(start) ==
    /\ pc = "ready" /\ pageaddress = 0
    /\ pageaddress' = start - (start % PageSize)
    /\ buf_len' = start % PageSize
    /\ pagebuffer' = [i \in Offset |-> Erased]
    /\ safe_end' = CodeEnd
    /\ UNCHANGED <<flash, data, done, chunk, pc>>

\* wkreprog_impl_open_raw: the page of the start position is copied to RAM.
OpenRaw(start) ==
    /\ pc = "ready" /\ pageaddress = 0
    /\ pageaddress' = start - (start % PageSize)
    /\ buf_len' = start % PageSize
    /\ pagebuffer' = FlashPage(pageaddress')
    /\ safe_end' = CodeEnd
    /\ UNCHANGED <<flash, data, done, chunk, pc>>

\* sys_malloc finds no memory for the page buffer.
OpenFails ==
    /\ pc = "ready" /\ pageaddress = 0
    /\ pc' = "panic"
    /\ UNCHANGED <<flash, pagebuffer, pageaddress, buf_len, safe_end, data, done, chunk>>

\* Mutant, not the code: only the cursor is compared with the end.
WriteCallCursorOnly(d) ==
    /\ pc = "ready" /\ pageaddress # 0
    /\ IF pageaddress + buf_len > safe_end
       THEN /\ pc' = "panic"
            /\ UNCHANGED <<data, done>>
       ELSE /\ pc' = "copy"
            /\ data' = d /\ done' = 0
    /\ UNCHANGED <<flash, pagebuffer, pageaddress, buf_len, safe_end, chunk>>

\* The head of wkreprog_impl_write: nothing happens when closed, the device
\* panics when the data would pass the end of the region.
WriteCall(d) ==
    /\ pc = "ready" /\ pageaddress # 0
    /\ IF pageaddress + buf_len + Len(d) > safe_end
       THEN /\ pc' = "panic"
            /\ UNCHANGED <<data, done>>
       ELSE /\ pc' = "copy"
            /\ data' = d /\ done' = 0
    /\ UNCHANGED <<flash, pagebuffer, pageaddress, buf_len, safe_end, chunk>>

\* Mutant, not the code: the last byte of a page is left for the next turn.
BytesOnThisPageShort ==
    LET size == Len(data) - done
    IN  IF buf_len + size > PageSize THEN PageSize - buf_len - 1 ELSE size

\* Only one page at a time.
BytesOnThisPage ==
    LET size == Len(data) - done
    IN  IF buf_len + size > PageSize THEN PageSize - buf_len ELSE size

\* The page buffer after n cells of data are copied to its cursor.
Copied(n) ==
    [i \in Offset |->
        IF i \in buf_len .. buf_len + n - 1 /\ data[done + (i - buf_len) + 1] # Keep
        THEN data[done + (i - buf_len) + 1]
        ELSE pagebuffer[i]]

\* One iteration of the loop: copy, and program a page that is full if it
\* differs from the chip (avr_flash_program_page_if_not_modified).
CopyChunk ==
    /\ pc = "copy"
    /\ chunk' = BytesOnThisPage
    /\ pagebuffer' = Copied(chunk')
    /\ pc' = IF buf_len + chunk' = PageSize /\ Modified(pagebuffer') THEN "erase" ELSE "advance"
    /\ UNCHANGED <<flash, pageaddress, buf_len, safe_end, data, done>>

\* Mutant, not the code: the next page is not loaded.
AdvanceNoLoad ==
    /\ pc = "advance"
    /\ pageaddress' = IF buf_len + chunk = PageSize THEN pageaddress + PageSize ELSE pageaddress
    /\ buf_len' = (buf_len + chunk) % PageSize
    /\ IF done + chunk = Len(data)
       THEN data' = <<>> /\ done' = 0 /\ pc' = "ready"
       ELSE data' = data /\ done' = done + chunk /\ pc' = "copy"
    /\ chunk' = 0
    /\ UNCHANGED <<flash, pagebuffer, safe_end>>

\* The end of the iteration: the next page is loaded when this one was full.
Advance ==
    /\ pc = "advance"
    /\ IF buf_len + chunk = PageSize
       THEN /\ pageaddress' = pageaddress + PageSize
            /\ pagebuffer' = FlashPage(pageaddress')
       ELSE UNCHANGED <<pageaddress, pagebuffer>>
    /\ buf_len' = (buf_len + chunk) % PageSize
    /\ IF done + chunk = Len(data)
       THEN data' = <<>> /\ done' = 0 /\ pc' = "ready"
       ELSE data' = data /\ done' = done + chunk /\ pc' = "copy"
    /\ chunk' = 0
    /\ UNCHANGED <<flash, safe_end>>

\* avr_flash_program_page: boot_page_erase, then boot_page_write.
ErasePage ==
    /\ pc = "erase"
    /\ flash' = [a \in Addr |-> IF a \in PageCells(pageaddress) THEN Erased ELSE flash[a]]
    /\ pc' = "program"
    /\ UNCHANGED <<pagebuffer, pageaddress, buf_len, safe_end, data, done, chunk>>

ProgramPage ==
    /\ pc = "program"
    /\ flash' = [a \in Addr |-> IF a \in PageCells(pageaddress)
                                THEN pagebuffer[a - pageaddress] ELSE flash[a]]
    /\ pc' = IF data = <<>> THEN "release" ELSE "advance"
    /\ UNCHANGED <<pagebuffer, pageaddress, buf_len, safe_end, data, done, chunk>>

\* Mutant, not the code: a page that is not full is not programmed.
CloseCallForgets ==
    /\ pc = "ready" /\ pageaddress # 0
    /\ pc' = "release"
    /\ UNCHANGED <<flash, pagebuffer, pageaddress, buf_len, safe_end, data, done, chunk>>

\* wkreprog_impl_close: the rest of the page is what the chip holds.
CloseCall ==
    /\ pc = "ready" /\ pageaddress # 0
    /\ pagebuffer' = IF buf_len = 0 THEN pagebuffer
                     ELSE [i \in Offset |-> IF i < buf_len THEN pagebuffer[i]
                                            ELSE flash[pageaddress + i]]
    /\ pc' = IF buf_len # 0 /\ Modified(pagebuffer') THEN "erase" ELSE "release"
    /\ UNCHANGED <<flash, pageaddress, buf_len, safe_end, data, done, chunk>>

Release ==
    /\ pc = "release"
    /\ pageaddress' = 0 /\ pagebuffer' = NoPage
    /\ pc' = "ready"
    /\ UNCHANGED <<flash, buf_len, safe_end, data, done, chunk>>

\* Reset or power failure: the RAM is initialised again, the chip is not.
Reset ==
    /\ pagebuffer' = NoPage
    /\ pageaddress' = 0 /\ buf_len' = 0 /\ safe_end' = 0
    /\ data' = <<>> /\ done' = 0 /\ chunk' = 0
    /\ pc' = "ready"
    /\ UNCHANGED flash

\* The steps the processor takes by itself once a call has been made.
Step == CopyChunk \/ Advance \/ ErasePage \/ ProgramPage \/ Release

Next ==
    \/ \E start \in CodeStart .. CodeEnd : OpenRaw(start)
    \/ OpenFails
    \/ \E d \in Requests \cup Skips : WriteCall(d)
    \/ CloseCall
    \/ Step
    \/ Reset

Spec == Init /\ [][Next]_vars

FairSpec == Spec /\ WF_vars(Step)

-----------------------------------------------------------------------------
\* What the compiler is told: wkreprog_impl_get_raw_position.
RawPosition == pageaddress + buf_len

\* How much of the write in progress is still to be consumed.
Remaining == Len(data) - done

\* The cell of the write in progress that will land at address a.
Inflight(a) == data[done + (a - RawPosition) + 1]

\* The flash as it will read when the writer is closed: the write in progress
\* over the page buffer over the chip.
Image ==
    [a \in Addr |->
        IF /\ pageaddress # 0
           /\ a \in RawPosition .. RawPosition + Remaining - 1
           /\ Inflight(a) # Keep
        THEN Inflight(a)
        ELSE IF pageaddress # 0 /\ a \in PageCells(pageaddress)
             THEN pagebuffer[a - pageaddress]
             ELSE flash[a]]

Cursor == IF pageaddress = 0 THEN 0 ELSE RawPosition + Remaining

Log == INSTANCE FlashLog WITH image <- Image, durable <- flash, cursor <- Cursor,
                              halted <- (pc = "panic")

-----------------------------------------------------------------------------
\* The shape of the state: the open page is a page of the chip, the cursor is
\* inside it and the write in progress ends inside the code space.
TypeOK ==
    /\ flash \in [Addr -> Value]
    /\ pc \in {"ready", "copy", "advance", "erase", "program", "release", "panic"}
    /\ pageaddress \in 0 .. CodeEnd /\ pageaddress % PageSize = 0
    /\ pagebuffer \in IF pageaddress = 0 THEN {NoPage} ELSE [Offset -> Value]
    /\ buf_len \in Offset
    /\ data \in {<<>>} \cup Requests \cup Skips
    /\ done \in 0 .. Len(data)
    /\ chunk \in 0 .. PageSize - buf_len
    /\ pageaddress # 0 /\ pc # "panic" => safe_end = CodeEnd /\ RawPosition + Remaining <= CodeEnd

\* Between two chunks the page buffer behind the cursor is a copy of the chip,
\* so that what a skip or a close leaves alone is not changed, and nothing
\* before the cursor of an earlier page is waiting in RAM (the refill of lines
\* 131-132 of wkreprog_impl.c restores nothing).
TailIsFlash ==
    pageaddress # 0 /\ pc \in {"ready", "copy"} =>
        \A i \in buf_len .. PageSize - 1 : pagebuffer[i] = flash[pageaddress + i]

\* How the arguments of the call in progress relate to the control state.
CallInProgress ==
    /\ pc \in {"ready", "release", "panic"} => data = <<>>
    /\ pc \in {"copy", "advance"} => data # <<>>
    /\ pc # "panic" /\ pageaddress = 0 => pc = "ready"
    /\ data = <<>> => done = 0 /\ chunk = 0
    /\ data # <<>> => done < Len(data)
    /\ data # <<>> /\ pc # "copy" => chunk = BytesOnThisPage
    /\ data # <<>> /\ pc \in {"erase", "program"} => buf_len + chunk = PageSize

\* What the page buffer holds while a chunk is being disposed of: the chunk is
\* in it, behind it is the chip, and a page that is left or released is saved.
ChunkInBuffer ==
    /\ data # <<>> /\ pc # "copy" =>
         \A i \in buf_len .. buf_len + chunk - 1 :
            data[done + (i - buf_len) + 1] # Keep
              => pagebuffer[i] = data[done + (i - buf_len) + 1]
    /\ pc = "advance" =>
         \A i \in buf_len + chunk .. PageSize - 1 : pagebuffer[i] = flash[pageaddress + i]
    /\ pc = "release" \/ (pc = "advance" /\ buf_len + chunk = PageSize) =>
         pagebuffer = FlashPage(pageaddress)

\* The inductive invariant of the writer.
WriterInv == TypeOK /\ CallInProgress /\ TailIsFlash /\ ChunkInBuffer

HostCells == Addr \ (CodeStart .. CodeEnd - 1)

\* Outside the code space the page buffer is a copy of the chip, except while
\* the chip's page is erased; the cursor never goes in front of the code space.
HostCellsSaved ==
    pageaddress # 0 =>
        /\ RawPosition >= CodeStart
        /\ pc # "program" =>
             \A a \in HostCells \cap PageCells(pageaddress) :
                pagebuffer[a - pageaddress] = flash[a]

\* The cells outside the code space, the compiler's own program among them,
\* share pages with compiled code; no call changes them, and only power lost
\* between erase and write does (lines 166-181 of wkreprog_impl.c).
HostCellsKept ==
    [][\/ Reset /\ pc = "program"
       \/ \A a \in HostCells : Image'[a] = Image[a]]_vars

\* The writer implements the log: a write is cut into pages without losing,
\* repeating or moving a cell, and what is closed is in the chip.  The log loses
\* what is not yet in the chip when it is reset; nothing but a reset does that
\* here, a close least of all.
ImplementsLog ==
    /\ Log!Spec
    /\ [][Reset \/ Log!Powered \/ UNCHANGED Log!logvars]_vars

\* Every call ends: the loop of wkreprog_impl_write always makes progress.
CallsReturn == (pc \in {"copy", "advance", "erase", "program", "release"}) ~> (pc = "ready")
=============================================================================
