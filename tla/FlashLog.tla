------------------------------ MODULE FlashLog ------------------------------
(***************************************************************************)
(* What the flash writer of src/src/wkreprog_impl.c promises the compiler: *)
(* a cursor that moves over the flash, and an image of the flash in which   *)
(* every accepted write is complete at once.  Pages, the page buffer and    *)
(* the loop that cuts a write into pages do not appear here.               *)
(*                                                                         *)
(* image is the flash as it will read once the writer is closed; durable    *)
(* is what the chip holds, and so what a reset or a power failure leaves.   *)
(***************************************************************************)
EXTENDS Integers, Sequences

CONSTANTS
    PageSize,    \* SPM_PAGESIZE: the cells erased and programmed together
    FlashSize,   \* the cells of the flash are 0 .. FlashSize-1
    CodeStart,   \* RTC_START_OF_COMPILED_CODE_SPACE
    CodeEnd,     \* RTC_END_OF_COMPILED_CODE_SPACE
    Value,       \* what a cell can hold
    Erased,      \* what an erased cell holds (0xFF)
    Keep,        \* a cell of a skip: the old content stays
    MaxWrite     \* bound: the longest write or skip (192 bytes in the code)

VARIABLES image, durable, cursor, halted

logvars == <<image, durable, cursor, halted>>

Addr == 0 .. FlashSize - 1

PageCells(p) == p .. p + PageSize - 1

\* The writes and the skips of at most MaxWrite cells.
Requests == UNION { [1 .. n -> Value] : n \in 1 .. MaxWrite }
Skips    == { [i \in 1 .. n |-> Keep] : n \in 1 .. MaxWrite }

\* The content of the flash m after the cells of d are laid at c.
Overlay(m, c, d) ==
    [a \in Addr |-> IF a - c + 1 \in DOMAIN d /\ d[a - c + 1] # Keep
                    THEN d[a - c + 1] ELSE m[a]]

Init ==
    /\ image \in [Addr -> Value]
    /\ durable = image
    /\ cursor = 0          \* 0: closed
    /\ halted = FALSE

Open(start) ==
    /\ ~halted /\ cursor = 0
    /\ cursor' = start
    /\ UNCHANGED <<image, durable, halted>>

\* An accepted write is visible in the image as a whole.
Write(d) ==
    /\ ~halted /\ cursor # 0
    /\ cursor + Len(d) <= CodeEnd
    /\ image' = Overlay(image, cursor, d)
    /\ cursor' = cursor + Len(d)
    /\ UNCHANGED <<durable, halted>>

\* A write that does not fit the code space, or an open without memory, stops
\* the device and changes nothing.
Halt ==
    /\ halted' = TRUE
    /\ UNCHANGED <<image, durable, cursor>>

\* One page is erased, or programmed with what the image holds there.
ErasePage(p) ==
    /\ p % PageSize = 0
    /\ durable' = [a \in Addr |-> IF a \in PageCells(p) THEN Erased ELSE durable[a]]
    /\ UNCHANGED <<image, cursor, halted>>

ProgramPage(p) ==
    /\ p % PageSize = 0
    /\ durable' = [a \in Addr |-> IF a \in PageCells(p) THEN image[a] ELSE durable[a]]
    /\ UNCHANGED <<image, cursor, halted>>

\* The writer closes only when everything written is in the chip.
Close ==
    /\ ~halted /\ cursor # 0
    /\ durable = image
    /\ cursor' = 0
    /\ UNCHANGED <<image, durable, halted>>

\* Power failure or reset: what was not in the chip is gone.
Reset ==
    /\ image' = durable
    /\ cursor' = 0
    /\ halted' = FALSE
    /\ UNCHANGED durable

\* What happens while the device has power.
Powered ==
    \/ \E start \in CodeStart .. CodeEnd : Open(start)
    \/ \E d \in Requests \cup Skips : Write(d)
    \/ Halt
    \/ \E p \in Addr : ErasePage(p)
    \/ \E p \in Addr : ProgramPage(p)
    \/ Close

Next == Powered \/ Reset

Spec == Init /\ [][Next]_logvars
=============================================================================
