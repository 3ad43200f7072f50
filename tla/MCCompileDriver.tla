-------------------------- MODULE MCCompileDriver --------------------------
(* Modules of two functions, each of one or two instructions, behind one    *)
(* import that the host may not have.  The addresses of the small flash     *)
(* include the numbers that stand for OPCODE_JMP and OPCODE_CALL, so that a *)
(* linked word can look like one.                                           *)
EXTENDS CompileDriver, SequencesExt

Imports == <<1>>
Helpers == {16}
HelperAddress == [h \in Helpers |-> 2]
Words == 0 .. 16

\* One word, a jump to the only label, calls of the import, the two functions
\* and a helper.
Instruction == {<<13>>, <<OPCODE_JMP, 0>>} \cup {<<OPCODE_CALL, n>> : n \in {0, 1, 2, 16}}

Body == {<<i>> : i \in Instruction} \cup {<<i, <<13>>>> : i \in Instruction}
            \cup {<<<<13>>, i>> : i \in Instruction}

Starts(is) == {Len(FlattenSeq(SubSeq(is, 1, n))) : n \in 0 .. Len(is) - 1}

Module(f, g, label, known) ==
    [code     |-> FlattenSeq(f \o g),
     opcodes  |-> Starts(f \o g),
     cuts     |-> <<Len(FlattenSeq(f)), Len(FlattenSeq(f \o g))>>,
     block_pc |-> [j \in {0} |-> label],
     known    |-> known]

\* All of them are what the emitters make.
ASSUME ModulesAreWellFormed ==
    \A f, g \in Body : \A label \in {0, Len(FlattenSeq(f))} : \A known \in {{}, {1}} :
        WellFormed(Module(f, g, label, known))

Blank == [a \in Writer!Addr |-> IF a < CodeStart THEN 14 ELSE Erased]

MCInit ==
    /\ \E f, g \in Body : \E label \in {0, Len(FlattenSeq(f))} : \E known \in {{}, {1}} :
           program = Module(f, g, label, known)
    /\ flash = Blank
    /\ pagebuffer = NoPage /\ pageaddress = 0 /\ buf_len = 0 /\ safe_end = 0
    /\ data = <<>> /\ done = 0 /\ chunk = 0 /\ pc = "ready"
    /\ InitDriver /\ resets = 0

MCSpec == MCInit /\ [][Next]_vars /\ WF_vars(Step)
=============================================================================
