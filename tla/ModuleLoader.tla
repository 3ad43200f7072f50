---------------------------- MODULE ModuleLoader ----------------------------
(***************************************************************************)
(* wasm_load_module of src/src/parse.c, and wasm_global_init of compile.c,   *)
(* which reads what the parser passed over.  One action is the parser of     *)
(* one section; a parser has a cursor of its own and the loop goes on at the *)
(* end the section claims.                                                  *)
(*                                                                         *)
(* parse.c does not include safety_check.h, so compile_time_check is not     *)
(* defined there and its checks are not compiled: magic and version, order   *)
(* of the sections, form of a type, number of memories, range of a type      *)
(* index, length of an initial expression.                                  *)
(*                                                                         *)
(* source is the module the bytes stand for, in the WebAssembly format.     *)
(* Tables are sequences, empty until they are allocated; what reads or      *)
(* writes outside one is undefined and ends in the status "wild".           *)
(***************************************************************************)
EXTENDS Integers, Sequences, SequencesExt, Leb128

CONSTANTS
    Modules,        \* the modules to load
    Encodings,      \* bound: each [pad, customs]: bytes more than needed in a
                    \* number, and whether custom sections lie between the others
    Heap,           \* what memory from malloc holds before it is written
    Behind,         \* the byte of the flash behind the module
    MaxUtf8Length   \* d_m3MaxSaneUtf8Length

VARIABLES
    source,   \* the module that is loaded, and
    code,     \* its bytes
    pos,      \* pos of wasm_load_module: the next byte
    module,   \* the module record
    status,   \* "magic", "load", "parsed", "ready", "panic" or "wild"
    stopped,  \* history: where the last parser stopped
    temp      \* ts.wasm_global_temp_space and module_heap_base

vars == <<source, code, pos, module, status, stopped, temp>>

-----------------------------------------------------------------------------
(* Reference: the bytes of a module.  pad is added to the length of every   *)
(* number of the format that is a u32 or an i32; types, flags and section   *)
(* numbers are single bytes.                                                *)
Length(least, pad) == IF least + pad > 5 THEN 5 ELSE least + pad
Leb(n, pad)  == LET b == BitsOf(n) IN LebEncoding(b, Length(UnsignedLength(b), pad))
SLeb(n, pad) == LET b == BitsOf(n) IN LebEncoding(b, Length(SignedLength(b), pad))

Vector(entries, pad) == Leb(Len(entries), pad) \o FlattenSeq(entries)
Map(s, Op(_)) == [i \in DOMAIN s |-> Op(s[i])]

TypeByte(t) == 128 - t
Types(s)    == Map(s, TypeByte)
Name(n, pad) == Leb(Len(n), pad) \o n
Limits(m, pad) == IF m.max = 0 THEN <<0>> \o Leb(m.init, pad)
                  ELSE <<1>> \o Leb(m.init, pad) \o Leb(m.max, pad)
Expr(n, pad) == <<65>> \o SLeb(n, pad) \o <<11>>

TypeBytes(t, pad) ==
    <<96>> \o Leb(Len(t.args), pad) \o Types(t.args) \o <<Len(t.result)>> \o Types(t.result)
ImportBytes(i, pad) ==
    Name(<<101>>, pad) \o Name(i.name, pad)
        \o IF i.kind = "function" THEN <<0>> \o Leb(i.type, pad)
           ELSE <<2>> \o Limits(i.memory, pad)
GlobalBytes(g, pad) == <<TypeByte(WASM_Type_i32), IF g.isMutable THEN 1 ELSE 0>> \o Expr(g.init, pad)
LocalBytes(l, pad)  == Leb(l.n, pad) \o <<TypeByte(l.type)>>
BodyBytes(b, pad) ==
    LET content == Vector(Map(b.locals, LAMBDA l : LocalBytes(l, pad)), pad) \o b.insns
    IN  Leb(Len(content), pad) \o content
DataBytes(d, pad) == Leb(0, pad) \o Expr(d.start, pad) \o Leb(Len(d.bytes), pad) \o d.bytes

\* A section, unless it would be empty, and a custom section behind it.
Section(id, entries, e) ==
    LET content == Vector(entries, e.pad)
        custom  == <<0>> \o Leb(3, e.pad) \o <<1, 110, 10>>
    IN  IF entries = <<>> THEN <<>>
        ELSE <<id>> \o Leb(Len(content), e.pad) \o content \o IF e.customs THEN custom ELSE <<>>

\* The export section (7), which the parser skips, names the entry function.
ModuleBytes(m, e) ==
    <<0, 97, 115, 109, 1, 0, 0, 0>>
    \o Section(1, Map(m.types, LAMBDA t : TypeBytes(t, e.pad)), e)
    \o Section(2, Map(m.imports, LAMBDA i : ImportBytes(i, e.pad)), e)
    \o Section(3, Map(m.funcs, LAMBDA t : Leb(t, e.pad)), e)
    \o Section(5, Map(m.memories, LAMBDA l : Limits(l, e.pad)), e)
    \o Section(6, Map(m.globals, LAMBDA g : GlobalBytes(g, e.pad)), e)
    \o Section(7, << Name(<<109>>, e.pad) \o <<0, 0>> >>, e)
    \o Section(10, Map(m.bodies, LAMBDA b : BodyBytes(b, e.pad)), e)
    \o Section(11, Map(m.datas, LAMBDA d : DataBytes(d, e.pad)), e)

-----------------------------------------------------------------------------
U16(n) == n % 65536
End == Len(code) + 1

ByteAt(p) == IF p \in DOMAIN code THEN code[p] ELSE Behind

\* The state of a parser: its cursor, the last value read, what it has read so
\* far of an entry, the module record, and whether it goes on.
Parser(p) == [pos |-> p, v |-> 0, got |-> <<>>, mod |-> module, status |-> "load"]
Going(r)  == r.status = "load"

Took(r, read) == [r EXCEPT !.pos = read.ptr, !.v = read.value,
                           !.status = IF read.halts THEN "panic" ELSE @]
U32(r, end) == IF Going(r) THEN Took(r, ReadLEB_u32(code, r.pos, end)) ELSE r
U7(r, end)  == IF Going(r) THEN Took(r, ReadLEB_u7(code, r.pos, end)) ELSE r
I7(r, end)  == IF Going(r) THEN Took(r, ReadLEB_i7(code, r.pos, end)) ELSE r
U8(r, end)  == IF Going(r) THEN Took(r, Read_u8(code, r.pos, end)) ELSE r
ValueType(r, end) == LET t == I7(r, end) IN [t EXCEPT !.v = NormalizeType(t.v)]
Got(r)      == [r EXCEPT !.got = Append(@, r.v)]

\* n turns of a loop, unless one of them ends the parser.
Repeat(n, Turn(_, _), r) ==
    FoldLeft(LAMBDA s, i : IF Going(s) THEN Turn(s, i) ELSE s, r, [i \in 1 .. n |-> i])

\* Read_utf8: "missing utf8" and "wasm underrun".
Utf8(r, end) ==
    LET n == U32(r, end)
    IN  IF ~Going(n) THEN n
        ELSE IF n.v > MaxUtf8Length \/ n.pos + n.v > end THEN [n EXCEPT !.status = "panic"]
        ELSE [n EXCEPT !.pos = n.pos + n.v,
                       !.got = Append(@, [i \in 1 .. n.v |-> ByteAt(n.pos + i - 1)])]

\* Module_AddFunction; the type is looked up without a check of its index.
AddFunction(r, type, imported, name) ==
    LET mod == r.mod
        f   == [imported |-> imported, name |-> name, type |-> mod.func_type_list[type + 1],
                wasm |-> Heap, wasmEnd |-> Heap, numLocals |-> Heap, numLocalBytes |-> Heap]
    IN  IF type + 1 \notin DOMAIN mod.func_type_list
           \/ mod.function_num # Len(mod.function_list)
        THEN [r EXCEPT !.status = "wild"]
        ELSE [r EXCEPT !.mod.function_list = Append(@, f), !.mod.function_num = U16(@ + 1)]

\* Mutant, not the code: an import is counted where its kind is read as well.
CountImportTwice(r) ==
    IF Going(r) THEN [r EXCEPT !.mod.import_num = U16(@ + 2)] ELSE r

CountImport(r) ==
    IF Going(r) THEN [r EXCEPT !.mod.import_num = U16(@ + 1)] ELSE r

\* Mutant, not the code: the flag is not looked at.
MemoryTypeNoMax(r, end) ==
    LET init == U32(U7(r, end), end)
    IN  [init EXCEPT !.mod.memory = [init |-> init.v, max |-> 0]]

\* ParseType_Memory.
MemoryType(r, end) ==
    LET flag == U7(r, end)
        init == U32(flag, end)
        max  == IF flag.v # 0 THEN U32(init, end) ELSE [init EXCEPT !.v = 0]
    IN  [max EXCEPT !.mod.memory = [init |-> init.v, max |-> max.v]]

\* Parse_InitExpr: up to and with the first byte 0x0B, be it the end or not.
InitExpr(p, end) ==
    LET Stop(q) == ByteAt(q) = 11 \/ q >= end
        n == CHOOSE n \in 0 .. end : Stop(p + n) /\ \A k \in 0 .. n - 1 : ~Stop(p + k)
    IN  p + n + IF ByteAt(p + n) = 11 THEN 1 ELSE 0

-----------------------------------------------------------------------------
\* One entry of each section.
TypeEntry(r, end) ==
    LET n    == U32(I7(r, end), end)
        args == Repeat(n.v, LAMBDA s, a : Got(ValueType(s, end)), [n EXCEPT !.got = <<>>])
        ret  == U7(args, end)
        type == IF ret.v = 0 THEN [ret EXCEPT !.v = Heap] ELSE ValueType(ret, end)
    IN  [type EXCEPT !.mod.func_type_list = Append(@, [args |-> type.got, returnType |-> type.v])]

ImportEntry(r, end) ==
    LET kind == U8(Utf8(Utf8([r EXCEPT !.got = <<>>], end), end), end)
        type == U32(kind, end)
    IN  CASE ~Going(kind) -> kind
          [] kind.v = 0 -> IF ~Going(type) THEN type
                           ELSE CountImport(AddFunction(type, type.v, TRUE, type.got[2]))
          [] kind.v = 1 -> kind
          [] kind.v = 2 -> LET m == MemoryType(kind, end)
                           IN  [m EXCEPT !.mod.memory_imported = TRUE]
          [] kind.v = 3 -> LET g == U7(I7(kind, end), end)
                           IN  IF Going(g) THEN [g EXCEPT !.status = "wild"] ELSE g
          [] OTHER -> [kind EXCEPT !.status = "panic"]

GlobalEntry(r, end) ==
    LET type == ValueType(r, end)
        mut  == U7(type, end)
        stop == InitExpr(mut.pos, end)
    IN  IF ~Going(mut) THEN mut
        ELSE [mut EXCEPT !.pos = stop,
                !.mod.global_list = Append(@, [type |-> type.v, isMutable |-> mut.v,
                    initExpr |-> mut.pos, initExprSize |-> stop - mut.pos])]

\* The width of a local; other types panic with "unsupported local type".
LocalWidth(t) == IF t \in {WASM_Type_i32, WASM_Type_f32} THEN 4 ELSE 8

LocalsEntry(r, end) ==
    LET n == U32(r, end)
        t == ValueType(n, end)
    IN  IF ~Going(t) THEN t
        ELSE IF t.v \notin WASM_Type_i32 .. WASM_Type_f64 THEN [t EXCEPT !.status = "panic"]
        ELSE [t EXCEPT !.got = <<@[1] + n.v, @[2] + n.v * LocalWidth(t.v)>>]

\* Mutant, not the code: bodies are given to the functions of the whole list.
BodyOfAny(mod, f) == f

\* The function that the body f belongs to, counted from 1.
BodyOf(mod, f) == f + mod.import_num

\* The locals are read up to the end of the section, not of the body.
CodeEntry(r, f, end) ==
    LET size   == U32(r, end)
        next   == size.pos + size.v
        blocks == U32(size, end)
        locals == Repeat(blocks.v, LAMBDA s, l : LocalsEntry(s, end), [blocks EXCEPT !.got = <<0, 0>>])
        k      == BodyOf(r.mod, f)
    IN  CASE ~Going(size) \/ size.v = 0 -> size
          [] Going(size) /\ size.v # 0 /\ next > end -> [size EXCEPT !.status = "panic"]
          [] OTHER ->
               IF ~Going(locals) THEN locals
               ELSE IF k \notin DOMAIN r.mod.function_list THEN [locals EXCEPT !.status = "wild"]
               ELSE [locals EXCEPT !.pos = next,
                       !.mod.function_list[k].wasm = locals.pos,
                       !.mod.function_list[k].wasmEnd = next,
                       !.mod.function_list[k].numLocals = U16(locals.got[1]),
                       !.mod.function_list[k].numLocalBytes = U16(locals.got[2])]

DataEntry(r, end) ==
    LET region == U32(r, end)
        stop   == InitExpr(region.pos, end)
        size   == U32([region EXCEPT !.pos = stop], end)
    IN  IF ~Going(region) THEN region
        ELSE [size EXCEPT !.pos = size.pos + U16(size.v),
                !.mod.data_segment_list = Append(@, [memoryRegion |-> U16(region.v),
                    initExpr |-> region.pos, initExprSize |-> U16(stop - region.pos),
                    size |-> U16(size.v), data |-> size.pos])]

-----------------------------------------------------------------------------
Init ==
    /\ source \in Modules
    /\ \E e \in Encodings : code = ModuleBytes(source, e)
    /\ pos = 1 /\ stopped = 1 /\ status = "magic"
    /\ module = [func_type_list |-> <<>>, function_list |-> <<>>, function_num |-> Heap,
                 import_num |-> Heap, memory |-> [init |-> Heap, max |-> Heap],
                 memory_imported |-> Heap # 0, global_list |-> <<>>, global_num |-> Heap,
                 data_segment_list |-> <<>>, data_segment_num |-> Heap]
    /\ temp = [globals |-> <<>>, heap_base |-> Heap]

\* Magic and version are read, and not compared with anything.
ReadHeader ==
    /\ status = "magic"
    /\ IF pos + 8 <= End THEN pos' = pos + 8 /\ status' = "load"
                         ELSE status' = "panic" /\ UNCHANGED pos
    /\ stopped' = pos'
    /\ UNCHANGED <<source, code, module, temp>>

\* The number of the section that comes next and the length it claims; a number
\* that is too long halts the loader before there is a section.
Id     == U7(Parser(pos), End)
Claim  == U32(Id, End)
Start  == Claim.pos
SecEnd == Start + IF Going(Claim) THEN Claim.v ELSE 0

Loading == status = "load" /\ pos < End
AtSection(id) == Loading /\ Id.v = id

\* The count a section begins with.
Count == U32([Parser(Start) EXCEPT !.status = Claim.status], SecEnd)

\* What a parser leaves; the loop goes on behind the section.
Parsed(r) ==
    /\ module' = r.mod
    /\ status' = r.status
    /\ stopped' = r.pos
    /\ pos' = SecEnd
    /\ UNCHANGED <<source, code, temp>>

ParseSection_Type ==
    /\ AtSection(1)
    /\ Parsed(IF Count.v = 0 THEN Count
              ELSE Repeat(Count.v, LAMBDA r, i : TypeEntry(r, SecEnd),
                          [Count EXCEPT !.mod.func_type_list = <<>>]))

ParseSection_Import ==
    /\ AtSection(2)
    /\ Parsed(Repeat(Count.v, LAMBDA r, i : ImportEntry(r, SecEnd), Count))

ParseSection_Function ==
    /\ AtSection(3)
    /\ Parsed(Repeat(Count.v,
                     LAMBDA r, i : LET t == U32(r, SecEnd)
                                   IN  IF Going(t) THEN AddFunction(t, t.v, FALSE, <<>>) ELSE t,
                     Count))

\* However many memories there are, one is read.
ParseSection_Memory == AtSection(5) /\ Parsed(MemoryType(Count, SecEnd))

ParseSection_Global ==
    /\ AtSection(6)
    /\ Parsed(Repeat(Count.v, LAMBDA r, i : GlobalEntry(r, SecEnd),
                     [Count EXCEPT !.mod.global_num = U16(Count.v), !.mod.global_list = <<>>]))

ParseSection_Code ==
    /\ AtSection(10)
    /\ Parsed(Repeat(Count.v, LAMBDA r, f : CodeEntry(r, f, SecEnd), Count))

ParseSection_Data ==
    /\ AtSection(11)
    /\ Parsed(Repeat(Count.v, LAMBDA r, i : DataEntry(r, SecEnd),
                     [Count EXCEPT !.mod.data_segment_num = U16(Count.v),
                                   !.mod.data_segment_list = <<>>]))

\* Custom, table, export, start and element sections, and unknown numbers.
SkipSection ==
    /\ Loading /\ Id.v \notin {1, 2, 3, 5, 6, 10, 11, 12}
    /\ pos' = SecEnd /\ stopped' = SecEnd /\ status' = Claim.status
    /\ UNCHANGED <<source, code, module, temp>>

Finish ==
    /\ status = "load" /\ pos >= End
    /\ status' = "parsed"
    /\ UNCHANGED <<source, code, pos, module, stopped, temp>>

\* Mutant, not the code: the opcode is taken for the first byte of the value.
ConstantWithOpcode(g) ==
    ReadLEB_i32(code, g.initExpr, g.initExpr + g.initExprSize).value

\* The constant of an initial expression; its opcode is not looked at.
Constant(g) == ReadLEB_i32(code, g.initExpr + 1, g.initExpr + g.initExprSize).value

\* wasm_global_init: "global type not supported" for all but i32.
GlobalInit ==
    LET gs == module.global_list
    IN  /\ status = "parsed"
        /\ IF \A i \in DOMAIN gs : gs[i].type = WASM_Type_i32
           THEN /\ temp' = [globals |-> Map(gs, Constant),
                            heap_base |-> IF gs = <<>> THEN Heap ELSE Constant(gs[1])]
                /\ status' = "ready"
           ELSE status' = "panic" /\ UNCHANGED temp
        /\ UNCHANGED <<source, code, pos, module, stopped>>

Next ==
    \/ ReadHeader
    \/ ParseSection_Type
    \/ ParseSection_Import
    \/ ParseSection_Function
    \/ ParseSection_Memory
    \/ ParseSection_Global
    \/ ParseSection_Code
    \/ ParseSection_Data
    \/ SkipSection
    \/ Finish
    \/ GlobalInit

Spec == Init /\ [][Next]_vars

-----------------------------------------------------------------------------
(* Properties.                                                              *)
Slice(p, n) == [i \in 1 .. n |-> ByteAt(p + i - 1)]

\* The shape of the record: the counters are the lengths of their tables once
\* their section is parsed.
TypeOK ==
    /\ status \in {"magic", "load", "parsed", "ready", "panic", "wild"}
    /\ pos \in 1 .. End
    /\ module.import_num \in 0 .. module.function_num
    /\ status \in {"parsed", "ready"} =>
         /\ module.function_num = Len(module.function_list)
         /\ module.global_num = Len(module.global_list)
         /\ module.data_segment_num = Len(module.data_segment_list)

ImportedFunctions == SelectSeq(source.imports, LAMBDA i : i.kind = "function")
Memories == source.memories
    \o Map(SelectSeq(source.imports, LAMBDA i : i.kind = "memory"), LAMBDA i : i.memory)

TypeRecord(t) ==
    [args |-> t.args, returnType |-> IF t.result = <<>> THEN WASM_Type_none ELSE t.result[1]]

Locals(b)      == FoldLeft(LAMBDA n, l : n + l.n, 0, b.locals)
LocalCells(b)  == FoldLeft(LAMBDA n, l : n + l.n * LocalWidth(l.type), 0, b.locals)
TypeOf(k)      == TypeRecord(source.types[k + 1])

\* When the loader returns, its record is the module that the bytes stand for:
\* every function in the list has the type, the name or the body, and the locals
\* that belong to its number, imports first, and every global and data segment
\* the expression and the bytes, with numbers of any legal length and whatever
\* sections lie between.
LoadedIsModule ==
    status \in {"parsed", "ready"} =>
        LET n == Len(ImportedFunctions)
            fs == module.function_list
        IN  /\ module.func_type_list = Map(source.types, TypeRecord)
            /\ module.import_num = n /\ Len(fs) = n + Len(source.funcs)
            /\ \A i \in 1 .. n : /\ fs[i].imported /\ fs[i].name = ImportedFunctions[i].name
                                 /\ fs[i].type = TypeOf(ImportedFunctions[i].type)
            /\ \A i \in DOMAIN source.funcs :
                 LET f == fs[n + i]
                     b == source.bodies[i]
                 IN  /\ ~f.imported /\ f.type = TypeOf(source.funcs[i])
                     /\ Slice(f.wasm, f.wasmEnd - f.wasm) = b.insns
                     /\ f.numLocals = Locals(b) /\ f.numLocalBytes = LocalCells(b)
            /\ Memories # <<>> => module.memory = Memories[1]
            /\ module.memory_imported = \E i \in DOMAIN source.imports : source.imports[i].kind = "memory"
            /\ Len(module.global_list) = Len(source.globals)
            /\ \A i \in DOMAIN source.globals :
                 LET g == module.global_list[i]
                 IN  g.type = WASM_Type_i32 /\ (g.isMutable = 1 <=> source.globals[i].isMutable)
            /\ Len(module.data_segment_list) = Len(source.datas)
            /\ \A i \in DOMAIN source.datas :
                 LET d == module.data_segment_list[i]
                 IN  /\ Slice(d.data, d.size) = source.datas[i].bytes
                     /\ ReadLEB_u32(code, d.initExpr + 1, d.initExpr + 1 + d.initExprSize).value
                            = source.datas[i].start

\* Each parser stops where the section that called it ends, though nothing in
\* the loop depends on it: no entry is left over and none is read from behind.
SectionsConsumed == status \in {"load", "parsed", "ready"} => stopped = pos

\* The bytes of an i32.
WordOf(n) == [i \in 1 .. 4 |-> ByteOf(BitsOf(n), i)]

\* The globals start with their constants, the first of which is the heap base.
GlobalsStart ==
    status = "ready" =>
        /\ temp.globals = Map(source.globals, LAMBDA g : WordOf(g.init))
        /\ source.globals # <<>> => temp.heap_base = WordOf(source.globals[1].init)

\* No check of the loader stops at a module that is well formed, and no table is
\* used before it is there or behind its end.
Accepted == status \notin {"panic", "wild"}
=============================================================================
