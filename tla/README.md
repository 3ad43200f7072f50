# TLA+ for WAIT

WAIT compiles WebAssembly to AVR code on the microcontroller that runs it (an
ATmega128: 128 KB of flash in pages of 256 bytes, 4 KB of SRAM). `main` loads a
module that lies in flash, compiles it function by function into another part
of the flash, links the result in place, and calls the last function. This
directory holds models of the compiler's core, the TLC configurations that
check them, and TLAPS proofs about the parts where proof says more than a
small instance. Paths below are relative to the repository.

## Inventory

There is one thread and no interrupt handler. What can come between two steps
is a reset or a power failure; what makes the rest hard is that several parts
keep their own idea of one quantity (a position in the flash, the height of the
operand stack, the place of a value in RAM) and change it at different moments.

| Component | State | Operations | Correct when |
|---|---|---|---|
| Flash writer, `wkreprog_impl.c` | chip, page buffer, page address, offset, end of region | open, write, skip, close, program a page, reset | cutting a write into pages loses, repeats and moves nothing; the host's own bytes on shared pages survive; calls return |
| Code emitter, `rtc_emit.c` | code buffer, `ts.pc`, `blct.block_pc` | emit a word, flush, delete PUSH/POP pairs | `ts.pc` and the labels stay at the code they stand for; only pairs go; a JMP keeps its label |
| Instruction translator, `instructions.c` | `ts.stack_top`, `blct` | one case for each WebAssembly instruction | the static height is the height at run time; the code means what the program means |
| Compile driver and jump refill, `compile.c` | `rtc_start_of_next_method`, `func->compiled`, the walk | bind imports, compile functions, walk over the code and write addresses | what is entered is the module with every address in place, after any reset |
| Linear memory, `memory.c`, `user_import.c`, end of `compile.c` | SRAM, `mem_areas`, `malloc_record` | lay out, load, store, i64, globals, malloc, memset, memcpy | loads find what WebAssembly says; stack, globals, host records and memory keep apart |
| Instruction encoders, `asm.h`, `asm.c` | none | one function for each AVR instruction, groups of them for push, pop, frames, calls | the word is the one the processor decodes to that instruction; no word is taken for a JMP or a CALL |
| Module parser, `parse.c` | the module record | one parser for each section, scan over initial expressions | the tables are the module's, whatever lies between its sections |
| LEB128 and byte reading, `utils.c` | none | read numbers, strings | the value of the encoding, within its width |
| Arithmetic helpers (`idiv`, `udiv`, `umul`, `LeadingZeros_32`) | none | called by compiled code | the 32-bit result |
| Indirect calls (`icall`), logging, configuration, examples | | | not on the path of compiled code |

How they meet: `wasm_compile_module` opens the writer for each function at the
position the last close left, `emit_single_instruction` puts words in the code
buffer, a full buffer is optimised and passed to `wkreprog_write`, and
`compile_close` flushes and closes. The code then holds numbers of labels and
functions behind its JMPs and CALLs; `branch_pc_refill` opens the writer at the
start, reads the chip word by word, and writes the addresses over the numbers,
with `wkreprog_skip` for what stays. The linear memory begins at `__wait_end`,
over the data and the heap of the compiler, which has done its work by then;
only the section `.wait` (`ts`, `mem_areas`, `malloc_record`) lies in front.

The hazards this leads to are listed in `PROJECT.json` at the lines where they
bite, with the properties that would show them.

## Modules

    FlashLog      <- FlashPages  <- MCFlashPages,  FlashPagesProofs
                     FlashPages  <- CompileDriver <- MCCompileDriver
      CompileDriver, FlashPagesProofs <- CompileDriverProofs
                     CodeEmitter <- MCCodeEmitter, CodeEmitterProofs
                     Translator  <- TranslatorProofs
    Translator, WasmSemantics, AvrMachine <- TranslatorMeaning <- MCTranslator
    Leb128, WasmWords, AsmEncoding, AvrCpu <- Groups <- MCGroups, GroupCodeProofs
                     LinearMemory <- MCLinearMemory, LinearMemoryProofs
    Leb128        <- ModuleLoader <- MCModuleLoader

**FlashLog** is the abstract specification of the flash writer: an image of
the flash that a write changes as a whole, a cursor, and `durable`, what the
chip holds. Pages appear only where power loss makes them visible.

**FlashPages** is the writer itself. Every loop turn and both halves of
programming a page are actions: `OpenRaw`, `WriteCall` (head of
`wkreprog_impl_write` with the region check), `CopyChunk` and `Advance` (the
loop), `ErasePage` and `ProgramPage` (`avr_flash_program_page`), `CloseCall` and
`Release`. `Reset` can come between any two. A skip is a write of `Keep` cells.
`Image` and `Cursor` are the refinement mapping to FlashLog.

**CodeEmitter** has the code buffer, its flush in the middle of an instruction,
the loop of `rtc_optimise` one index at a time, and the label table. `sent` and
`anchor` are history variables: all words ever emitted, and the word a label was
put in front of. The code knows neither; the properties compare what it
does know with them. `Half` is the number of registers of a value (4 in the
code). `PopAllowed` and `Live` state what the translator guarantees about labels
between the halves of a pair; Translator checks it on whole programs.

**Translator** compiles programs. The program is not given: each step adds any
instruction that validation admits at this place, in code that cannot be reached
too, so a run covers all programs of an alphabet up to a length, but for those that
three named conditions exclude (see below). `stack_top` is a u16 and `block_stack` a
u8, as in the code. `ctrl` and `height` are validation: an entry for the function and
for each open block, which says whether a `br`, `return` or `unreachable` has left it
(`dead`); from there on the operand stack gives whatever is asked for, while the
compiler goes on counting. The imports of the module are numbered 0, -1 and so on; they have
their own types, and take their arguments in registers from R26 down.
**TranslatorMeaning** is the other half: when the last function is
complete the code is executed by **AvrMachine** and the result compared with
**WasmSemantics**, the reference. The two halves are modules of their own because
the interpreters are recursive operators, which the prover does not take.
AvrMachine treats the groups `asm.c` emits together as one instruction, with
their lengths in bytes, because BREQ and BRNE skip constant distances.

**Groups** looks inside those instructions. Each straight-line case of
`emit_single_instruction`, the prologue of `wasm_compile_function` and the
epilogue is an action that appends its words, made by the encoders of
**AsmEncoding**; `Execute` lets **AvrCpu** run them on registers, flags, stack and
SRAM, byte by byte, and the result is compared with **WasmWords**, arithmetic on
four bytes. Relative branches, register numbers, the order of the bytes on the
stack and the carry from one byte to the next are all in the words. A case that
calls an embedded function (`ByFunction`) hands it its operands by the calling
convention of avr-gcc; afterwards the registers and flags a C function need not
keep are `Junk`, so that code that relied on one would fail. AvrCpu is external: it
is the processor as the encoders use it. Translator and Groups share the
source lines of the instructions: the one has their jumps and the static height
over whole programs, the other their bytes.

**Leb128** has the readers of `utils.c` over sequences of bytes. A number is the
function of its 64 bits, because that is what the code shifts them into, and
TLC's own integers are too small. `LebEncoding` is the reference, the WebAssembly
format; `OperandsAgree`, `LoadedIsModule` and `GlobalsStart` compare across it.

**ModuleLoader** is `wasm_load_module`: one action for each section parser, one for
the sections it passes over, then `GlobalInit`, the part of `wasm_global_init` that
reads the constants the parser left unread. The module to load is a record
(`source`), `ModuleBytes` is its binary, and `LoadedIsModule` compares what the
parser makes of the bytes with the record. A parser that halts the device ends
in the status `"panic"`, one that uses a table that is not there, or behind its
end, in `"wild"`. `parse.c` does not include `safety_check.h`, so that
`compile_time_check` is 0 in it and all its checks are compiled out; the model has
it so. `Heap` is what `malloc` returns before it is written: the parser takes it to be
0, which is a precondition of the run and no guarantee of the library.

**CompileDriver** composes the driver with the real writer: it instantiates
FlashPages, with a cell for a word instead of a byte, and adds the loop over the
functions, `rtc_start_of_next_method`, `func->compiled` and the walk of
`branch_pc_refill`, which reads the chip while the page it reads is open in RAM.
The program is what the translator may have made (`WellFormed`): every JMP is
followed by a label and every CALL by a function, which is what `JumpsIntact` of
CodeEmitter and `CallsFound` of Groups are about.
A reset starts `main` again over the half-written flash.

**LinearMemory** is the program at run time: layout by `wasm_call_entry_method`
for any of the `Layouts` (none, one or two data segments), checked stores, unchecked `i64.store` and
imports, globals, and the stack that grows down into the memory. `ref`, `globals`
and `wideRef` are the reference. `Fits` says which layouts a module linked for the
device has: its segments do not overlap, the second fits the RAM, and the memory
ends within a u16, none of which the code checks.

Definitions called "Mutant, not the code" are plausible mistakes; each property
is checked to fail when one of them takes the place of the definition it varies.

## Runs

Runs that pass:

| Run | Asks | Properties |
|---|---|---|
| `flash_pages` | every order of opens, writes, skips, closes, resets | `WriterInv`, `HostCellsKept`, `ImplementsLog`, `CallsReturn` |
| `emitter_split` | a buffer flushed between any two words, up to two pairs of four words in it, one label | `PcTracksFlash`, `LabelsFollowCode`, `OnlyPairsDeleted`, `JumpsIntact` |
| `compile_driver` | write, link in place, enter, with resets | `LinkedAtEntry`, `RefillInStep`, `NeighboursKept`, `Boots` |
| `translator` | five alphabets, dead code included: blocks, loops and branches; branches that leave up to five values; sub, eqz, select and a local; parameters, calls and early returns; imports of two and of five arguments, nop and unreachable | `StackTopIsHeight`, `CodeMeansProgram`, `OptimisedMeansProgram` |
| `memory` | no data segment, one, and two; i64 in the first case | `MemoryAgrees`, `GlobalsAgree`, `StackIntact`, `BoundsHold`, `HostKept` |
| `module_loader` | 126 modules in six encodings, from the bytes to the module record and the globals | `LoadedIsModule`, `SectionsConsumed`, `GlobalsStart`, `Accepted` |
| `groups` | every sequence of two to four instructions in eleven functions, down to bytes and flags | `OperandsAgree`, `VariablesAgree`, `FrameKept`, `StoresAgree`, `CallsFound` |

`TypeOK` is an invariant of one run of each module.

Runs that show a disagreement between the code and what its comments or
messages say:

| Run | What happens |
|---|---|
| `emitter_bare` | A loop at offset 0 (a first function with neither parameters nor locals that is not the entry): its label 0 means "not filled" to `End_`, which moves it to the end of the loop. |
| `translator_leaving` | Dead code moves `stack_top` like any other (liberty `"dead"`): a `return` in front of the end of a function lowers it twice. It is never reset, wraps, and the check "stack not balanced!" compares an unsigned difference with 0. |
| `memory_wide` | An i64 that is loaded and stored has its words swapped. |
| `memory_late_globals` | The data segment is copied over the heap block that the globals are copied from next. |
| `loader_end_byte` | The initial expression of a data segment at 1408 has the byte 0x0B in its constant; the scan for the end stops there, and the rest is read as the length of the segment. |

The passing runs exclude these cases, each by a named condition: `Bare`,
`EndAllowed`, `HasLong` with the guard `wide = wideRef`, `TempSpace` and the choice of
constants in `SomeModules`. More faults are shown by configurations that are
easily made from the passing ones:

- `"dead"` of Translator lifts `EndAllowed`. A block is left by `br`, and code that
  cannot be reached goes on to take more than it leaves: `stack_top` is then below
  the height of the block, its `end` computes a negative count, restores nothing, and
  reachable code goes on with a height that is too low. In the alphabet `Control`,
  with eight instructions, `StackTopIsHeight` fails behind `block; br 0; drop; end`
  (`stack_top` is 65535 where the height is 0), and `CodeMeansProgram` for `block i32;
  block; br 0; drop; end; const; end; end`, whose last `end` finds nothing to pop
  and leaves a value in the place of the return address.
  `EndAllowed` asks that at the end of a block left for good `stack_top` is not below the
  height noted for it, and that at the end of a function left for good it is the
  number of results: other dead code comes to no harm, and is in the run.
- `"leave"` of Translator lifts `LeaveAllowed`: a `return` with values below the result,
  in a function without a frame to drop, returns to one of the values. It needs an
  alphabet with `return` and a function without parameters and locals.
- A store of several bytes at the last byte of the area passes the check, which
  looks at the first byte only: `BoundsHold` fails in `MCLinearMemory` with the liberty
  `"wild"`, which lifts `Access`.
- `global.set` at offset 60 and more puts the offset into R22 and R23, which hold
  half of the value: `GlobalsAgree` fails in `MCLinearMemory` with `GlobalInit <-
  TwoGlobals` and `DirectRange` 2, which puts the second global out of reach of STD.
- `"locals"` of Translator lifts `SetBefore`: `emit_local_init` moves SP and leaves
  the locals as the stack left them, so that a local read before it is set is not 0
  (`CodeMeansProgram` fails).
- `"far"` of LinearMemory: `i64.store` tests the low byte of its offset and, when
  that is below 30, uses only that byte, so that an offset of 256 and more behind
  the globals can write to the globals (`GlobalsAgree` fails with `OffsetByte` and
  `DirectRange` 3, `OffsetNear` 1 and `StackRoom` 1, so that such an offset lies in
  the memory).

More conditions keep programs out that the code cannot serve or that stop in
WebAssembly and go on here: shift counts of 32 and more (from 129 on the loop
does not shift at all) and division by zero (`Shift` and `Divides` of Groups); imports of
six and more arguments, which would run into R2 to R5 where the address of the memory is,
and of 64-bit ones, which are left on the stack (`ImportsAssumption`); `br` to the
function's own label, which would index `block_stack` with -1; more than two data
segments, which match no case of `wasm_call_entry_method`; and i64 in a module
with a data segment, because `i64.store` takes the address from the beginning of
the RAM and not from where the area begins.

What an invalid module would do is not in the models either: `called index out of scope`
(instructions.c:290), for instance, is excluded by validation. An import that the host does
not have is (`ImportMissing` of CompileDriver, where the device stops).

For some hazards the properties that are named in `PROJECT.json` show only that the code
is right short of the bad case, because a guard keeps it out of the run: the cases above,
seventeen values at a branch, the stack that grows into the data, a global or an offset out of reach, a
malformed module and a heap that is not 0. The entry's note says so each time.

### Bounds, and why they are enough

- `flash_pages`: pages of two cells, two and a half pages of code space that
  begins in the middle of a page, writes of up to four cells. A write then ends
  inside a page, fills it, or crosses one or two boundaries, starting at either
  offset; that is every case of the loop. Cells have two values, so a lost or
  misplaced cell differs from what it displaces.
- emitter: a buffer of ten words, up to eleven words. The buffer is flushed at
  every position of a pair and of a JMP. `Half` is 2, for the pattern needs the order
  of several registers. The loop never looks at a pair that ends the buffer, and
  goes on one word behind a deletion, so that of two adjacent pairs the second
  stays; two deletions in one buffer need a word between the pairs and one
  behind them, which is ten words. Two labels are too many for these bounds;
  they pass with `Half` 1, `BufferSize` 7, `MaxWords` 7 and `MaxLabels` 2.
- `compile_driver`: two functions of one or two instructions behind one import that
  the host has or has not, with every combination of a jump, calls of the import, of either function and
  of a helper, five words of room on pages of two, buffers of two words, two
  resets. Modules of six words are there to fail the region check. JMP and CALL
  straddle pages; the addresses include the numbers that stand for the opcodes,
  so a linked word can look like an instruction to a second walk. Two resets
  give a start over code that was itself written after a reset. Offsets (`ts.pc`,
  `prev_pc`, in bytes) and addresses (`func->compiled`, in words) are u16 in the code;
  `DriverAssumption` has the code space and the addresses within that, which the
  distance of the end of the code space (122880) from the compiler's own code must
  satisfy and nothing checks. `ts.pc` is counted on in the refill and not read again.
- `translator`: the module is one of `Modules`, chosen in `Init`; its functions have
  up to ten instructions (dead ones count) and two levels of nesting; 940,000 states
  are all of these programs. `Unwind` and `BrIf` have one
  case for each of 0, 1, 2 and more values and `End_` a loop; each is reached with
  and without a result in R22. Values are modulo 3, enough to tell operands apart.
  `Fuel` bounds the steps that are compared when a program loops for ever. What is
  out of reach is seventeen values at a branch, where the six bits of ADIW
  overflow.
- `memory`: words of two binary cells and one global; the layout is one of
  `AnyLayout`, chosen in `Init`. The memory has five cells; the stack begins behind
  the last one and may take that one too. The u16 of a target wraps at 10, and the offset
  of an access may carry it past that. An access lies in the program's memory from its
  first byte to its last, or outside of both areas (`Access`); with the liberty `"wild"`
  it begins at every address.
- `module_loader`: three lists of imports (none, a function, two functions around
  a memory), memories with and without a maximum, one or two functions, up to three
  globals and up to two segments, so that every section is empty, has one entry
  and has several, and every numbering is shifted by imports. Bodies have locals
  of two groups, one of them 130, and the bytes 0x0B and 0x80 in their code. The
  constants are negative, at the end of the range and at the boundaries where
  the signed encoding needs one byte more. Every number is written in its
  shortest form, with one byte more, and in five bytes.
- `groups`: operands are 0, small numbers of either sign, numbers with one byte
  set, the ends of the range, and one with four different bytes. Two constants
  and one instruction on them are all three-instruction programs of a shape; what
  an instruction leaves in registers and flags is there for the next one. The
  frames have 0 to 31 variables, so on both sides of the 60 bytes that SBIW and LDD
  reach; the stack pointer crosses a page of 256 addresses inside them. 18
  globals and offsets of 0, 3, 30 and 300 are on both sides of the limits there. The entry
  function saves sixteen registers more and has no arguments, as
  `wasm_call_entry_method` passes none. Frames and globals of 256 bytes and more,
  whose sizes the code truncates, are excluded by `ShapesAssumption`, and so is a
  stack without room for the operands above the globals: nothing in the code checks
  that room. `Run` is 256 steps, four times what the longest group takes in these
  programs (a shift by 31); code that went on longer would show in `TypeOK`.

### Fairness

Only `WF(Step)` is assumed, where `Step` is what the processor does without
being asked: go on with the call it is in. With one thread and nothing to wait
for, an enabled step is taken unless the device is reset. `Reset` and
`OpenFails` are never fair. `CallsReturn` needs no more, for a reset also ends
the call. `Boots` counts resets up to `MaxResets`, for a device that is reset
for ever does not boot; a module that does not fit and a `malloc` that fails are
named in the property.

`CHECK_DEADLOCK FALSE` is in every configuration because each of these systems
really stops: the device halts in a panic, the program is complete, or the
bound on words or resets is reached.

## Proofs

All are for every value of the constants that the named assumptions admit. A run
shows the same property on a small instance; each inductive invariant also holds
in every state of that instance, as TLC finds when it is given as an invariant of
a module that extends the MC module and the module with the proofs.

### Flash writer: `FlashPagesProofs`, under `FlashAssumption`

- `WriterInvariant`: `Spec => []WriterInv`. `TypeOK` alone is not inductive:
  that a copied chunk stays on its page needs `chunk = BytesOnThisPage`, and
  what a close writes needs that the page buffer behind the cursor is a copy of
  the chip. `WriterInv` adds `CallInProgress` (how arguments and control state
  relate), `TailIsFlash` and `ChunkInBuffer`. The proof has one lemma for each
  action. `WriterTypes` is its first conjunct.
- `WriterImplementsLog`: `Spec => ImplementsLog`. Under the mapping (`Image`, `flash`,
  `Cursor`, `pc = "panic"`) `WriteCall` is the abstract `Write`, `ErasePage` and
  `ProgramPage` are themselves, `CloseCall` stutters, `Release` is `Close`, and
  the steps of the loop stutter: what leaves the data arrives in the page
  buffer, and a page that leaves the buffer is in the chip. A reset of the log
  could stand for any loss, so `ImplementsLog` also says that only `Reset` is one.
- `HostCellsAreKept`: `Spec => HostCellsKept`, from the invariant together with
  `HostCellsSaved`: outside the code space the page buffer equals the chip
  except between erase and write.

### Code emitter: `CodeEmitterProofs`, under `EmitterAssumption`

The invariants are layers, each inductive over the ones below.

- `EmitterInv`, for `EmitterTypes` and `PcIsExact`: the buffer is not full while
  words are emitted, which is what makes the flush in `emit_raw_word` come in
  time; a deletion takes the same number of words from `ts.pc` and the buffer.
- `OrderInv`, for `PeepholeDeletesPairs`: each word of the code has its place in
  `sent`, between two neighbours nothing or one whole pair is missing (`Gap`),
  and from `scan` on nothing is missing yet. At most one pair is missing because
  the loop goes on behind the word that closes the gap.
- `JumpInv`, for `JumpsKeepTheirLabels`: in the stream of words, those sent and those
  the instruction at hand has still to send, labels and JMPs come in twos; as a
  pair has neither, a deletion cannot part them.
- `LabelsInv`, for `LabelsStayAtTheirCode`: `block_pc` separates the words of the code
  that came before the label from the others (`LabelAt`), and no label lies
  between two words of a group. A deletion of the pair at `scan` moves exactly
  the labels behind it. The theorem assumes `~Bare`, a word in front of the first
  label; without it the property is false, as the run `emitter_bare` shows.

### Compile driver: `CompileDriverProofs`, under `DriverAssumption`

The driver is proved over the log and not over the pages: the lemmas of the
first section take from `FlashPagesProofs` that a call changes the image at once and
that the steps of the call do not change it.

- `DriverInvariant`: `Spec => []DriverInv`. In stage `"emit"` the image is the program
  up to `ts_pc` and the cursor stands there; in `"refill"` it is linked up to
  `walk` and as emitted behind it, and the cursor is at `walk`, an opcode. That
  the next word read from the *chip* is as emitted, though the page is open,
  follows because the writer has nothing waiting behind its cursor
  (`TailIsFlash`). A reset throws all of it away and begins again with
  `BindInv`, whose image is empty.
- `RefillKeepsStep`, `EntryIsLinked` (nothing waits when the writer is closed, so the
  chip is the image), `DriverTypes`.
- `DriverUsesWriter`: `Spec => Writer!Spec`: the driver keeps to the interface of the
  writer, so that its theorems hold of the composition.
- `NeighboursAreKept`, with `NeighboursSaved`: where the open page holds cells that
  are not the program's, it is a copy of the chip. It is sharper than
  `HostCellsAreKept`, because the end of the code lies inside the code space.

### Linear memory: `LinearMemoryProofs`, under `MemoryAssumption`

- `TypeInv`, for `MemoryTypes`: what the areas are after `Start` (`Areas`), from which
  `Laid` follows: the two areas do not overlap and the one in RAM is exactly
  what lies between globals and stack pointer.
- `LoadInv`, for `LoadsFindWhatWasStored`, `StackIsKept` and `HostIsKept`: the cells the
  program owns hold `ref`. `StepKinds` sorts the steps into those that write some
  bytes to both memories, those that write none, pushes and `global.set`.
- `GlobalInv`, for `GlobalsFindWhatWasSet` and `BoundsAreKept`: the cells at `Base` hold
  `globals`, and before the start the temporary block holds the initial values.

The hypotheses are the passing run's: `Orderly` (no liberties: the program
keeps within its memory, and its i64 values are not stored after a load),
`NearGlobals` (every global within the reach of STD with a constant) and
`SafeGlobals` (no data is copied over the block the globals are copied from). The
code checks none of them, and without each the property is false: see the
runs and configurations above.

### Instruction translator: `TranslatorProofs`, under `ShapesAssumption`, `ImportsAssumption`

- `TranslatorTypes`, by `Shape`: there is a block for each entry of the control stack
  behind the first, every jump names a label that was made, every label lies in
  the code, and `stack_top` and `block_stack` keep their widths, dead code or not and
  with any liberties.
- `HeightIsExact` and `BlocksAreBalanced`, by `HeightInv`: `Level`, that `stack_top` is
  validation's height wherever the code can be reached, and `Nested`, that so is the height
  noted for every block opened there, and that heights grow inwards. Behind a way out nothing
  is known of `stack_top`: any instruction may follow, and a block opened there has
  whatever height the count has come to. What brings it back is the end
  of the innermost block that was opened where the code could be reached (`~DeadPast(Len(ctrl))`):
  it drops what lies above the noted height, so the height is exact again if
  the surplus is not negative.

That is one of the two hypotheses: `"dead" \notin Liberties`, so that `EndAllowed`, which
says it, holds at every `end`; without it both theorems are false (run `translator_leaving`).
It restricts ends of dead code only. The other is `[]Shallow`, because
`block_stack` is a u8 and the code does not check that the height fits it. `LeaveAllowed`
is not needed: what a `return` does to the values on the stack is a matter of the
run-time stack, and of `CodeMeansProgram`.

### Encoders and groups of words: `GroupCodeProofs`, under `ShapesAssumption`, `PlacesAssumption`

- `WalkTellsInstructionsApart`: no word of another encoder is that of JMP or CALL, for all
  registers, constants, ports and distances. It is what `branch_pc_refill` rests
  on when it finds the instructions by their words, and what `WellFormed` of
  CompileDriver takes for granted of the words it passes over.
- `WalkFindsTheCalls`: `Spec => []CallsFound`, for functions with any number of operands,
  variables and instructions. The invariant is `WalkInv`: the walk is at the
  beginning of an instruction when a group ends, every word is one the encoders
  make, and the operands have the length of their type. It needs to know
  which bytes a constant becomes: a word of `I32Const` with more than eight bits
  would be another instruction. `SignedRoundTrip` says that `ReadLebSigned` gives back,
  from any encoding of an integer that has enough bytes, the bits of the integer, and
  `NarrowConstant` and `WideConstant` that four and eight bytes of it fit the words.
  The library's induction theorems cannot be instantiated here; `LeastNumber` and
  `SetInduction` get induction over the numbers from the well-foundedness of
  `<` (WellFoundedInduction), with a set in the place of the predicate.

### Only model-checked

- Liveness (`CallsReturn`, `Boots`): out of the prover's reach, like ENABLED.
- `CodeMeansProgram` and `OptimisedMeansProgram`: they rest on recursive interpreters
  (AvrMachine, WasmSemantics), which the prover does not take.
- Groups, but for `CallsFound`: `AvrCpu` is written so that the prover takes it, and what
  each group does to bytes and flags is not proved yet.
- ModuleLoader: that the parser gives back what the encoding was made from is an
  induction over bytes and lists of entries. It could be done in the manner of
  `GroupCodeProofs`, and is large.

## Not modelled, and why

- Malformed modules: `Modules` are well formed. With its checks compiled out the parser
  accepts most others, and what it then makes of them is no property of the
  code. Imported globals are not supported by the code (they write to a table
  that is not allocated yet; the model ends in `"wild"`), and the number 12 (data count)
  reads behind the table of parsers.
- The names given to functions and modules, which are only printed.
- `idiv`, `udiv` and `umul` are one C operator each: the runs show that operands and
  result take the right way, not that the compiler's division is right.
- Encoders that the translator does not use (`asm.h` has several left from another
  project) and the instructions that the source leaves commented out: they end
  in the default case, a panic.
- `icall`: nothing calls it. `emit_without_optimisation`, `open_app_archive`:
  neither.
- Logging, tracing, counters: switched off or pure output; `safety_check.h` and
  `config.h` are taken as they stand (bounds checks and the segment in flash
  on, counters off).

## Plan

Done, in this order: FlashLog and FlashPages; CodeEmitter; Translator with its
two machines; LinearMemory; CompileDriver; Leb128 and ModuleLoader; AsmEncoding,
AvrCpu and Groups, with frames of 60 bytes and more. Proofs of FlashPages,
CodeEmitter, LinearMemory, CompileDriver, Translator, the opcodes and `CallsFound`.

Next proofs:

1. ModuleLoader: the invariants that do not depend on the bytes (`TypeOK`, the
   order in which the tables are made and used).
2. CompileDriver as an implementation of an abstract linker, which has the linked
   module appear in one step, over `EntryIsLinked`.
3. Translator: that every jump's label is filled in when a function is complete.
4. Groups: `OperandsAgree` and `VariablesAgree` for all operands, group by group.

Next models:

1. ModuleLoader composed with CompileDriver: the types of the functions decide
   what is compiled, and a reset loads the module again.
2. Translator: an alphabet with sixteen and more values at a branch, where the
   six bits of ADIW overflow; this needs programs that are given, not enumerated.
