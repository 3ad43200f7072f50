--------------------------- MODULE MCModuleLoader ---------------------------
(* Modules put together from the kinds of entries the sections can have.    *)
EXTENDS ModuleLoader

Signatures == << [args |-> <<1, 1>>, result |-> <<1>>], [args |-> <<>>, result |-> <<>>],
                 [args |-> <<4, 2, 1>>, result |-> <<2>>] >>

Host(type)   == [kind |-> "function", name |-> <<112, 114>>, type |-> type,
                 memory |-> [init |-> 0, max |-> 0]]
Shared(l)    == [kind |-> "memory", name |-> <<>>, type |-> 0, memory |-> l]
Body(locals, insns) == [locals |-> locals, insns |-> insns]

\* The second body holds the bytes 0x0B and 0x80 where an end could be looked for.
Bodies == << Body(<<>>, <<32, 0, 11>>),
             Body(<<[n |-> 2, type |-> 1], [n |-> 130, type |-> 2]>>, <<65, 139, 11, 26, 11>>) >>

Segment(start, bytes) == [start |-> start, bytes |-> bytes]
Global(init, mut)     == [init |-> init, isMutable |-> mut]

\* imports, memories, the types of the functions, globals and data segments.
Build(imports, memories, funcs, globals, datas) ==
    [types |-> Signatures, imports |-> imports, memories |-> memories, funcs |-> funcs,
     globals |-> globals, bodies |-> SubSeq(Bodies, 1, Len(funcs)), datas |-> datas]

Imports == { <<>>, <<Host(2)>>, <<Host(0), Shared([init |-> 1, max |-> 2]), Host(1)>> }
Memory  == { <<>>, <<[init |-> 200, max |-> 0]>>, <<[init |-> 0, max |-> 128]>> }
Globals == { <<>>, <<Global(-65, FALSE)>>, <<Global(1536, TRUE), Global(-2147483647, FALSE), Global(63, TRUE)>> }
Datas   == { <<>>, <<Segment(64, <<11, 0>>)>>, <<Segment(1024, <<7>>), Segment(8192, <<>>)>> }

SomeModules ==
    { Build(i, IF Len(i) = 3 THEN <<>> ELSE m, f, g, d) :
        i \in Imports, m \in Memory, f \in {<<0>>, <<1, 2>>}, g \in Globals, d \in Datas }

\* Constants with the byte 0x0B in them: 11, and 1408 .. 1535.
EndByteModules == { Build(<<>>, <<>>, <<1>>, <<>>, <<Segment(1408, <<7, 8>>)>>) }

AllEncodings == [pad : {0, 1, 4}, customs : BOOLEAN]
OneEncoding  == [pad : {0}, customs : {FALSE}]
=============================================================================
