-------------------------- MODULE TranslatorProofs --------------------------
(***************************************************************************)
(* What is proved of Translator, for every module, every program and every  *)
(* nesting: the shape of its tables, and that the static height of the      *)
(* stack is the height validation computes.                                *)
(***************************************************************************)
EXTENDS Translator, SequenceTheorems, TLAPS

-----------------------------------------------------------------------------
(* The shape of the state.                                                  *)
Types   == {"none", "i32"}
Ops     == {"push", "pop", "call", "save", "membase", "enter", "leave", "restore", "ret",
            "adjust", "ldi", "sub", "or3", "branch_eq", "branch_ne", "clear", "ldd", "std",
            "test", "stop", "print"}
Plain   == [op : Ops] \cup [op : Ops, r : Int] \cup [op : Ops, f : Int]
           \cup [op : Ops, bytes : Nat] \cup [op : Ops, cells : Nat]
           \cup [op : Ops, v : Nat] \cup [op : Ops, k : Int]
Jumps(labels)   == [op : {"jmp"}, label : 1 .. labels]
Emitted(labels) == Plain \cup Jumps(labels)
Opening == [loop : BOOLEAN, type : Types, height : Nat, set : SUBSET Int, dead : BOOLEAN]
Open(labels)    == [label : 1 .. labels, stack : 0 .. 255, type : Types]

\* The tables have the shape of their declarations, and every group that jumps
\* names a label there is.
Shape ==
    /\ funcs \in Shapes /\ func \in 1 .. N + 1
    /\ stack_top \in U16s /\ height \in Nat
    /\ block_pc \in Seq(Nat)
    /\ code \in Seq(Emitted(Len(block_pc)))
    /\ \A l \in 1 .. Len(block_pc) : block_pc[l] <= Len(code)
    /\ blocks \in Seq(Open(Len(block_pc)))
    /\ ctrl \in Seq(Opening) /\ ctrl # <<>>
    /\ Len(blocks) = Len(ctrl) - 1

-----------------------------------------------------------------------------
(* The static height.                                                       *)

\* No place of the program has more operands than the u8 of block_stack holds.
Shallow == height <= 255

\* Each block has the type of its entry in the control stack, and its height if
\* the place it was opened at can be reached; heights grow inwards, and the
\* operands of the current block lie above its height.
Nested ==
    /\ ctrl[1].height = 0 /\ (~Complete => ctrl[1].type = F.result)
    /\ \A n \in 1 .. Len(blocks) :
         /\ blocks[n].type = ctrl[n + 1].type
         /\ ~DeadPast(n + 1) => blocks[n].stack = ctrl[n + 1].height
    /\ \A m, n \in 1 .. Len(ctrl) : m <= n => ctrl[m].height <= ctrl[n].height
    /\ Here.height <= height

\* Where the code can be reached stack_top is the height.  Behind a way out it
\* is anything until an end leads back.
Level == ~Dead => stack_top = height

HeightInv == Shape /\ Nested /\ Level

-----------------------------------------------------------------------------
(* Lemmas about the operators.                                              *)

\* Front removes the last element and keeps the others.
LEMMA FrontFacts ==
    ASSUME NEW S, NEW s \in Seq(S), s # <<>>
    PROVE  /\ Front(s) \in Seq(S)
           /\ Len(Front(s)) = Len(s) - 1
           /\ \A n \in 1 .. Len(s) - 1 : Front(s)[n] = s[n]
<1>1. Len(s) \in Nat /\ Len(s) >= 1
  OBVIOUS
<1>2. \A i \in 1 .. Len(s) - 1 : s[i] \in S
  BY <1>1
<1>3. 1 \in Int /\ Len(s) - 1 \in Int
  BY <1>1
<1>4. /\ Front(s) \in Seq(S)
      /\ Len(Front(s)) = IF 1 <= Len(s) - 1 THEN Len(s) - 1 - 1 + 1 ELSE 0
      /\ \A i \in 1 .. Len(s) - 1 - 1 + 1 : Front(s)[i] = s[1 + i - 1]
  BY <1>2, <1>3, SubSeqProperties DEF Front
<1>5. Len(s) - 1 - 1 + 1 = Len(s) - 1
  BY <1>1
<1>6. ASSUME NEW n \in 1 .. Len(s) - 1
      PROVE  Front(s)[n] = s[n]
  <2>1. n \in Int /\ 1 + n - 1 = n /\ n \in 1 .. Len(s) - 1 - 1 + 1
    BY <1>1, <1>5
  <2> DEFINE k == 1 + n - 1
  <2>2. Front(s)[n] = s[k]
    BY <1>4, <2>1
  <2>3. k = n
    BY <2>1
  <2> HIDE DEF k
  <2> QED BY <2>2, <2>3
<1>7. Len(Front(s)) = Len(s) - 1
  <2>1. Len(Front(s)) = IF 1 <= Len(s) - 1 THEN Len(s) - 1 ELSE 0
    BY <1>4, <1>5
  <2>2. \A l \in Nat : l >= 1 => (IF 1 <= l - 1 THEN l - 1 ELSE 0) = l - 1
    OBVIOUS
  <2> QED BY <1>1, <2>1, <2>2
<1> QED BY <1>4, <1>6, <1>7

\* U16 and U8 are the remainders, which are the number itself when it fits.
LEMMA Remainders ==
    /\ \A n \in Int : U16(n) \in U16s /\ U8(n) \in 0 .. 255
    /\ \A n \in U16s : U16(n) = n
    /\ \A n \in 0 .. 255 : U8(n) = n
<1>1. \A n \in Int : n % 65536 \in U16s
  BY SMTT(30) DEF U16s
<1>2. \A n \in Int : n % 256 \in 0 .. 255
  BY SMT
<1>3. \A n \in U16s : n % 65536 = n
  <2>1. \A n, m \in Nat : n < m => n % m = n
    OBVIOUS
  <2>2. \A n \in U16s : n \in Nat /\ 65536 \in Nat /\ n < 65536
    BY SMTT(30) DEF U16s
  <2> QED BY <2>1, <2>2, SMT
<1>4. \A n \in 0 .. 255 : n % 256 = n
  BY SMT
<1> QED BY <1>1, <1>2, <1>3, <1>4, SMTT(30) DEF U16, U8

\* The numbers of both widths are integers.
LEMMA WidthsAreNat == (\A x \in U16s : x \in Nat /\ x \in Int)
                      /\ (\A x \in 0 .. 255 : x \in Nat /\ x \in Int)
BY SMT DEF U16s

\* What fits into a byte fits into two.
LEMMA ByteIsWord == \A x \in Nat : x <= 255 => x \in U16s /\ x \in 0 .. 255
BY SMT DEF U16s

\* A number that fits into a byte has the same value in 16 bits with a sign.
LEMMA SignedSmall == \A n \in Nat : n <= 255 => Int16(n) = n
BY SMT DEF Int16

\* A result is one operand or none.
LEMMA ArityIsBit == \A t : Arity(t) \in {0, 1}
BY DEF Arity

\* Repeating a group gives a sequence of groups.
LEMMA RepGroups ==
    ASSUME NEW S, NEW w \in S, NEW n \in Nat
    PROVE  Rep(n, w) \in Seq(S) /\ Len(Rep(n, w)) = n
BY DEF Rep

\* The groups the instructions are made of jump nowhere.
LEMMA PlainGroups ==
    /\ Push(22) \in Plain /\ Push(18) \in Plain
    /\ Pop(22) \in Plain /\ Pop(18) \in Plain
    /\ \A op \in Ops : Group(op) \in Plain
    /\ \A op \in Ops, n \in Nat : Branch(op, n) \in Plain
    /\ \A f \in Int : CallTo(f) \in Plain
    /\ \A r \in Int : Pop(r) \in Plain
    /\ \A n \in Nat : [op |-> "ldi", v |-> n] \in Plain
    /\ \A r \in Nat : [op |-> "or3", r |-> r] \in Plain
    /\ \A op \in Ops, k \in Nat : [op |-> op, cells |-> k] \in Plain
    /\ \A op \in Ops, k \in Int : [op |-> op, k |-> k] \in Plain
BY DEF Push, Pop, Group, Branch, CallTo, Plain, Ops

\* Two words that jump nowhere make one that jumps nowhere.
LEMMA PlainWords ==
    \A v, w \in Seq(Plain) : v \o w \in Seq(Plain)
OBVIOUS

\* Code that jumps nowhere is code, whatever labels there are, and code stays
\* code when labels are added.
LEMMA EmittedGrows ==
    ASSUME NEW a \in Nat, NEW b \in Nat, a <= b
    PROVE  /\ \A w \in Seq(Plain) : w \in Seq(Emitted(a))
           /\ \A w \in Seq(Emitted(a)) : w \in Seq(Emitted(b))
<1>1. Plain \subseteq Emitted(a)
  BY DEF Emitted
<1>2. Emitted(a) \subseteq Emitted(b)
  BY DEF Emitted, Jumps
<1> QED BY <1>1, <1>2

\* The module being compiled has the fields ShapesAssumption gives it.
LEMMA FunctionFacts ==
    ASSUME funcs \in Shapes
    PROVE  /\ N \in Nat \ {0} /\ DOMAIN funcs = 1 .. N
           /\ \A f \in 1 .. N : /\ funcs[f].args \in Nat /\ funcs[f].locals \in Nat
                                /\ funcs[f].result \in Types
BY ShapesAssumption DEF N, Types

\* The words around the instructions of a function jump nowhere.
LEMMA FrameWords ==
    ASSUME funcs \in Shapes
    PROVE  /\ \A f \in 1 .. N : Prologue(f) \in Seq(Plain)
           /\ func \in 1 .. N => Epilogue \in Seq(Plain)
<1>1. ASSUME NEW f \in 1 .. N
      PROVE  Prologue(f) \in Seq(Plain)
  <2>1. [op |-> "enter", cells |-> funcs[f].locals] \in Plain
    BY FunctionFacts, PlainGroups DEF Ops
  <2>2. Group("save") \in Plain /\ Group("membase") \in Plain
    BY PlainGroups DEF Ops
  <2>3. <<Group("save"), Group("membase")>> \in Seq(Plain)
    BY <2>2
  <2>4. <<[op |-> "enter", cells |-> funcs[f].locals]>> \in Seq(Plain)
    BY <2>1
  <2>5. <<>> \in Seq(Plain)
    OBVIOUS
  <2> QED BY <2>3, <2>4, <2>5, PlainWords DEF Prologue
<1>2. ASSUME func \in 1 .. N
      PROVE  Epilogue \in Seq(Plain)
  <2>1. [op |-> "leave", cells |-> F.locals] \in Plain
    BY <1>2, FunctionFacts, PlainGroups DEF Ops, F
  <2>2. Group("restore") \in Plain /\ Group("ret") \in Plain /\ Pop(22) \in Plain
    BY PlainGroups DEF Ops
  <2>3. /\ <<Pop(22)>> \in Seq(Plain) /\ <<Group("restore")>> \in Seq(Plain)
        /\ <<Group("ret")>> \in Seq(Plain)
    BY <2>2
  <2>4. <<[op |-> "leave", cells |-> F.locals]>> \in Seq(Plain)
    BY <2>1
  <2>5. <<>> \in Seq(Plain)
    OBVIOUS
  <2> DEFINE p == IF F.result = "i32" THEN <<Pop(22)>> ELSE <<>>
             l == IF HasFrame(func) THEN <<[op |-> "leave", cells |-> F.locals]>> ELSE <<>>
             r == IF func = Entry THEN <<Group("restore")>> ELSE <<>>
  <2>6. p \in Seq(Plain) /\ l \in Seq(Plain) /\ r \in Seq(Plain)
    BY <2>3, <2>4, <2>5
  <2>7. Epilogue = p \o l \o r \o <<Group("ret")>>
    BY DEF Epilogue
  <2> HIDE DEF p, l, r
  <2> QED BY <2>3, <2>6, <2>7, PlainWords
<1> QED BY <1>1, <1>2

\* Unwinding jumps nowhere.
LEMMA UnwindWords == \A d \in Nat : Unwind(d) \in Seq(Plain)
<1> SUFFICES ASSUME NEW d \in Nat
             PROVE  Unwind(d) \in Seq(Plain)
  OBVIOUS
<1>1. Pop(22) \in Plain /\ Pop(18) \in Plain
  BY PlainGroups
<1>2. CASE d = 0
  BY <1>2 DEF Unwind
<1>3. CASE d = 1
  BY <1>1, <1>3 DEF Unwind
<1>4. CASE d = 2
  BY <1>1, <1>4 DEF Unwind
<1>5. CASE d > 2
  <2> DEFINE k == ((d - 1) * 4 % 64) \div 4
  <2>1. k \in Nat
    <3>1. (d - 1) * 4 \in Nat
      BY <1>5
    <3> DEFINE e == (d - 1) * 4
    <3>2. e % 64 \in Nat
      BY <3>1
    <3> QED BY <3>2
  <2> HIDE DEF k
  <2>2. [op |-> "adjust", cells |-> k] \in Plain
    BY <2>1, PlainGroups DEF Ops
  <2>3. Unwind(d) = <<Pop(22), [op |-> "adjust", cells |-> k]>>
    BY <1>5 DEF Unwind, k
  <2> QED BY <1>1, <2>2, <2>3
<1> QED BY <1>2, <1>3, <1>4, <1>5

-----------------------------------------------------------------------------
(* Shape is inductive.                                                      *)

\* The current entry of the control stack is an entry, and there is one more
\* entry than blocks.
LEMMA HereFacts ==
    ASSUME Shape
    PROVE  /\ Len(ctrl) \in Nat \ {0} /\ Here \in Opening /\ Here.height \in Nat
           /\ Here.type \in Types /\ Here.set \subseteq Int /\ Here.dead \in BOOLEAN
           /\ N \in Nat \ {0} /\ Len(blocks) \in Nat
           /\ Len(ctrl) = Len(blocks) + 1
           /\ func <= N => func \in 1 .. N /\ F = funcs[func]
<1>1. funcs \in Shapes /\ func \in 1 .. N + 1 /\ ctrl \in Seq(Opening) /\ ctrl # <<>>
      /\ blocks \in Seq(Open(Len(block_pc)))
  BY DEF Shape
<1>2. Len(ctrl) \in Nat \ {0}
  BY <1>1
<1>3. Here \in Opening
  BY <1>1, <1>2 DEF Here
<1>4. Here.height \in Nat /\ Here.type \in Types /\ Here.set \subseteq Int
      /\ Here.dead \in BOOLEAN
  BY <1>3 DEF Opening
<1>5. N \in Nat \ {0}
  BY <1>1, FunctionFacts
<1>6. Len(blocks) \in Nat
  BY <1>1
<1>7. Len(ctrl) = Len(blocks) + 1
  <2>1. Len(blocks) = Len(ctrl) - 1
    BY DEF Shape
  <2> QED BY <1>2, <2>1
<1>8. func <= N => func \in 1 .. N /\ F = funcs[func]
  BY <1>1, <1>5 DEF F
<1> QED BY <1>2, <1>3, <1>4, <1>5, <1>6, <1>7, <1>8

\* Words that follow code are code, and the labels stay in it.
LEMMA WordsFollow ==
    ASSUME Shape, NEW words \in Seq(Emitted(Len(block_pc)))
    PROVE  /\ code \o words \in Seq(Emitted(Len(block_pc)))
           /\ Len(code \o words) = Len(code) + Len(words)
           /\ \A l \in 1 .. Len(block_pc) : block_pc[l] <= Len(code \o words)
<1>1. code \in Seq(Emitted(Len(block_pc)))
  BY DEF Shape
<1>2. Len(code) \in Nat /\ Len(words) \in Nat /\ Len(code \o words) = Len(code) + Len(words)
  BY <1>1
<1>3. code \o words \in Seq(Emitted(Len(block_pc)))
  BY <1>1
<1>4. ASSUME NEW l \in 1 .. Len(block_pc)
      PROVE  block_pc[l] <= Len(code \o words)
  <2>1. block_pc[l] \in Nat /\ block_pc[l] <= Len(code)
    BY SMTT(30) DEF Shape
  <2> QED BY <1>2, <2>1
<1> QED BY <1>2, <1>3, <1>4

\* An instruction in the middle of a function keeps the shape if its words, the
\* control stack and the height it leaves have theirs.
LEMMA EmitsShape ==
    ASSUME Shape, NEW i, NEW takes, NEW top \in Int,
           NEW words \in Seq(Emitted(Len(block_pc))),
           Emits(i, takes, words, top),
           ctrl' \in Seq(Opening), Len(ctrl') = Len(ctrl), height' \in Nat
    PROVE  Shape'
<1>1. /\ func <= N /\ UNCHANGED <<funcs, func, blocks, block_pc>>
      /\ code' = code \o words /\ stack_top' = U16(top)
  BY DEF Emits, Admit
<1>2. stack_top' \in U16s
  BY <1>1, Remainders
<1>3. N' = N
  BY <1>1 DEF N
<1>4. ctrl' # <<>>
  BY HereFacts
<1>5. /\ code' \in Seq(Emitted(Len(block_pc')))
      /\ \A l \in 1 .. Len(block_pc') : block_pc'[l] <= Len(code')
  BY <1>1, WordsFollow
<1>6. /\ funcs' \in Shapes /\ func' \in 1 .. N' + 1
      /\ block_pc' \in Seq(Nat) /\ blocks' \in Seq(Open(Len(block_pc')))
      /\ Len(blocks') = Len(ctrl') - 1
  BY <1>1, <1>3 DEF Shape
<1> QED BY <1>2, <1>4, <1>5, <1>6 DEF Shape

\* What an instruction finds and leaves on the operand stack: it does not go
\* below the height of the block, and takes its operands where the code can be
\* reached.
LEMMA TranslateOperands ==
    ASSUME Shape, NEW i, NEW takes \in Nat, NEW leaves \in Nat, NEW words, NEW top,
           Translate(i, takes, leaves, words, top), Here.height <= height
    PROVE  /\ height' \in Nat /\ Here.height <= height'
           /\ ~Here.dead => height' = height - takes + leaves
<1>1. /\ Operands >= takes \/ Here.dead
      /\ height' = (IF Operands >= takes THEN height - takes ELSE Here.height) + leaves
  BY DEF Translate, Emits
<1>2. height \in Nat /\ Here.height \in Nat
  BY HereFacts DEF Shape
<1>3. CASE Operands >= takes
  <2>1. height' = height - takes + leaves
    BY <1>1, <1>3
  <2>2. height - Here.height >= takes
    BY <1>3 DEF Operands
  <2> QED BY <1>2, <2>1, <2>2
<1>4. CASE ~(Operands >= takes)
  <2>1. height' = Here.height + leaves /\ Here.dead
    BY <1>1, <1>4
  <2> QED BY <1>2, <2>1
<1> QED BY <1>3, <1>4

\* An instruction that takes operands and leaves others keeps the shape.
LEMMA TranslateShape ==
    ASSUME Shape, NEW i, NEW takes \in Nat, NEW leaves \in Nat, NEW top \in Int,
           NEW words \in Seq(Emitted(Len(block_pc))),
           Translate(i, takes, leaves, words, top),
           ctrl' \in Seq(Opening), Len(ctrl') = Len(ctrl)
    PROVE  Shape'
<1>1. Emits(i, takes, words, top)
  BY DEF Translate
<1>2. height' \in Nat
  <2>1. height' = (IF Operands >= takes THEN height - takes ELSE Here.height) + leaves
    BY DEF Translate
  <2>2. height \in Nat /\ Here.height \in Nat
    BY HereFacts DEF Shape
  <2>3. Operands >= takes => height - takes \in Nat
    BY <2>2 DEF Operands
  <2> QED BY <2>1, <2>2, <2>3
<1> QED BY <1>1, <1>2, EmitsShape

\* A way out keeps the shape.
LEMMA WayOutShape ==
    ASSUME Shape, NEW i, NEW takes, NEW top \in Int,
           NEW words \in Seq(Emitted(Len(block_pc))), WayOut(i, takes, words, top)
    PROVE  Shape'
<1>1. /\ Emits(i, takes, words, top) /\ height' = Here.height
      /\ ctrl' = [ctrl EXCEPT ![Len(ctrl)].dead = TRUE]
  BY DEF WayOut
<1>2. ctrl' \in Seq(Opening) /\ Len(ctrl') = Len(ctrl)
  <2> DEFINE e == [Here EXCEPT !.dead = TRUE]
  <2>1. e \in Opening
    BY HereFacts DEF Opening
  <2>2. ctrl' = [ctrl EXCEPT ![Len(ctrl)] = e]
    BY <1>1, HereFacts DEF Here
  <2>3. ctrl \in Seq(Opening) /\ Len(ctrl) \in 1 .. Len(ctrl)
    BY HereFacts DEF Shape
  <2> HIDE DEF e
  <2> QED BY <2>1, <2>2, <2>3
<1>3. height' \in Nat
  BY <1>1, HereFacts
<1> QED BY <1>1, <1>2, <1>3, EmitsShape

\* The same for an instruction that leaves the control stack alone.
LEMMA StraightShape ==
    ASSUME Shape, NEW i, NEW takes \in Nat, NEW leaves \in Nat, NEW top \in Int,
           NEW words \in Seq(Plain),
           Translate(i, takes, leaves, words, top), Straight
    PROVE  Shape'
<1>1. words \in Seq(Emitted(Len(block_pc)))
  <2>1. Len(block_pc) \in Nat
    BY DEF Shape
  <2> QED BY <2>1, EmittedGrows
<1>2. ctrl' \in Seq(Opening) /\ Len(ctrl') = Len(ctrl)
  BY DEF Straight, Shape
<1> QED BY <1>1, <1>2, TranslateShape

\* The entry made for the body of a function or for a block is an entry.
LEMMA OpenedIsOpening ==
    \A kind :
        \A h \in Nat, t \in Types, set \in SUBSET Int : Opened(kind, t, h, set) \in Opening
<1> SUFFICES ASSUME NEW kind, NEW h \in Nat, NEW t \in Types, NEW set \in SUBSET Int
             PROVE  [loop |-> kind = "loop", type |-> t, height |-> h, set |-> set,
                     dead |-> FALSE] \in Opening
  BY DEF Opened
<1> DEFINE loop == kind = "loop"
<1>1. loop \in BOOLEAN
  OBVIOUS
<1> HIDE DEF loop
<1>2. [loop |-> loop, type |-> t, height |-> h, set |-> set, dead |-> FALSE] \in Opening
  BY <1>1 DEF Opening
<1> QED BY <1>2 DEF loop

\* The body of a function is the only entry of its control stack.
LEMMA BodyShape ==
    ASSUME funcs \in Shapes, NEW f \in 1 .. N
    PROVE  /\ Body(f) \in Seq(Opening) /\ Len(Body(f)) = 1 /\ Body(f) # <<>>
           /\ Body(f)[1].height = 0 /\ Body(f)[1].type = funcs[f].result
           /\ Body(f)[1].dead = FALSE
<1>1. Opened("func", funcs[f].result, 0, {}) \in Opening
  <2>1. funcs[f].result \in Types /\ 0 \in Nat /\ {} \in SUBSET Int
    BY FunctionFacts
  <2> QED BY <2>1, OpenedIsOpening
<1>2. /\ Opened("func", funcs[f].result, 0, {}).height = 0
      /\ Opened("func", funcs[f].result, 0, {}).type = funcs[f].result
      /\ Opened("func", funcs[f].result, 0, {}).dead = FALSE
  BY DEF Opened
<1> QED BY <1>1, <1>2 DEF Body

\* Shape holds when the first function is begun.
LEMMA InitShape == Init => Shape
<1> SUFFICES ASSUME Init
             PROVE  Shape
  OBVIOUS
<1>1. /\ funcs \in Shapes /\ func = 1 /\ code = Prologue(1) /\ stack_top = 0
      /\ blocks = <<>> /\ block_pc = <<>> /\ ctrl = Body(1) /\ height = 0
  BY DEF Init
<1>2. N \in Nat \ {0} /\ 1 \in 1 .. N
  BY <1>1, FunctionFacts
<1>3. Prologue(1) \in Seq(Plain)
  BY <1>1, <1>2, FrameWords
<1>4. Len(block_pc) = 0 /\ code \in Seq(Emitted(Len(block_pc)))
  <2>1. Len(block_pc) = 0
    BY <1>1
  <2> QED BY <1>1, <1>3, <2>1, EmittedGrows
<1>5. ctrl \in Seq(Opening) /\ Len(ctrl) = 1 /\ ctrl # <<>>
  BY <1>1, <1>2, BodyShape
<1>6. func \in 1 .. N + 1
  BY <1>1, <1>2
<1>7. block_pc \in Seq(Nat) /\ blocks \in Seq(Open(Len(block_pc))) /\ Len(blocks) = 0
  BY <1>1
<1>8. height \in Nat
  BY <1>1
<1>9. stack_top \in U16s
  BY <1>1, SMT DEF U16s
<1> QED BY <1>1, <1>4, <1>5, <1>6, <1>7, <1>8, <1>9 DEF Shape

\* The offset of a local is a number.
LEMMA LocalCellIsInt ==
    ASSUME Shape, func <= N, NEW i \in LocalIndex
    PROVE  LocalCell(i) \in Int /\ i \in Nat
<1>1. func \in 1 .. N /\ F = funcs[func] /\ funcs \in Shapes
  BY HereFacts DEF Shape
<1>2. F.args \in Nat /\ F.locals \in Nat
  BY <1>1, FunctionFacts
<1>3. i \in 0 .. F.args + F.locals - 1
  BY HereFacts DEF LocalIndex
<1>4. i \in Nat
  BY <1>2, <1>3
<1> QED BY <1>2, <1>4 DEF LocalCell

\* The instructions without operands in the program: their words jump nowhere.
LEMMA StraightWords ==
    /\ \A v \in Nat : <<[op |-> "ldi", v |-> v], Push(22)>> \in Seq(Plain)
    /\ <<Pop(22)>> \in Seq(Plain)
    /\ <<Pop(18), Pop(22), Group("sub"), Push(22)>> \in Seq(Plain)
    /\ <<Pop(18), [op |-> "ldi", v |-> 1], [op |-> "or3", r |-> 18],
         Branch("branch_eq", 2), Group("clear"), Push(22)>> \in Seq(Plain)
    /\ <<Pop(22), Pop(18), [op |-> "or3", r |-> 22], Branch("branch_ne", 16),
         Pop(22), Push(18)>> \in Seq(Plain)
    /\ <<Group("stop")>> \in Seq(Plain) /\ <<Group("print")>> \in Seq(Plain)
    /\ \A k \in Int : <<[op |-> "ldd", k |-> k], Push(22)>> \in Seq(Plain)
    /\ \A k \in Int : <<Pop(22), [op |-> "std", k |-> k]>> \in Seq(Plain)
<1>1. /\ Push(22) \in Plain /\ Push(18) \in Plain /\ Pop(22) \in Plain /\ Pop(18) \in Plain
      /\ [op |-> "ldi", v |-> 1] \in Plain /\ [op |-> "or3", r |-> 18] \in Plain
      /\ [op |-> "or3", r |-> 22] \in Plain
  BY PlainGroups
<1>2. Branch("branch_eq", 2) \in Plain /\ Branch("branch_ne", 16) \in Plain
  <2>1. "branch_eq" \in Ops /\ "branch_ne" \in Ops /\ 2 \in Nat /\ 16 \in Nat
    BY DEF Ops
  <2> QED BY <2>1, PlainGroups
<1>3. /\ Group("sub") \in Plain /\ Group("clear") \in Plain /\ Group("stop") \in Plain
      /\ Group("print") \in Plain
  <2>1. "sub" \in Ops /\ "clear" \in Ops /\ "stop" \in Ops /\ "print" \in Ops
    BY DEF Ops
  <2> QED BY <2>1, PlainGroups
<1>4. \A k \in Int : [op |-> "ldd", k |-> k] \in Plain /\ [op |-> "std", k |-> k] \in Plain
  <2>1. "ldd" \in Ops /\ "std" \in Ops
    BY DEF Ops
  <2> QED BY <2>1, PlainGroups
<1>5. ASSUME NEW v \in Nat
      PROVE  <<[op |-> "ldi", v |-> v], Push(22)>> \in Seq(Plain)
  <2>1. [op |-> "ldi", v |-> v] \in Plain
    BY PlainGroups
  <2> QED BY <1>1, <2>1
<1>6. /\ <<Pop(22)>> \in Seq(Plain)
      /\ <<Pop(18), Pop(22), Group("sub"), Push(22)>> \in Seq(Plain)
      /\ <<Group("stop")>> \in Seq(Plain) /\ <<Group("print")>> \in Seq(Plain)
  BY <1>1, <1>3
<1>7. <<Pop(18), [op |-> "ldi", v |-> 1], [op |-> "or3", r |-> 18],
        Branch("branch_eq", 2), Group("clear"), Push(22)>> \in Seq(Plain)
  BY <1>1, <1>2, <1>3
<1>8. <<Pop(22), Pop(18), [op |-> "or3", r |-> 22], Branch("branch_ne", 16),
        Pop(22), Push(18)>> \in Seq(Plain)
  BY <1>1, <1>2
<1>9. ASSUME NEW k \in Int
      PROVE  /\ <<[op |-> "ldd", k |-> k], Push(22)>> \in Seq(Plain)
             /\ <<Pop(22), [op |-> "std", k |-> k]>> \in Seq(Plain)
  <2>1. [op |-> "ldd", k |-> k] \in Plain /\ [op |-> "std", k |-> k] \in Plain
    BY <1>4
  <2> QED BY <1>1, <2>1
<1> QED BY <1>5, <1>6, <1>7, <1>8, <1>9

\* The instructions that compute keep the shape.
LEMMA ComputeShape ==
    ASSUME Shape, (\E v \in 0 .. Modulus - 1 : Const(v)) \/ Drop \/ Sub \/ Eqz \/ Select \/ Nop
    PROVE  Shape'
<1>1. stack_top \in Int
  BY SMT DEF Shape, U16s
<1>2. stack_top - 1 \in Int /\ stack_top - 2 \in Int /\ stack_top + 1 \in Int
  BY <1>1
<1>3. ASSUME NEW v \in 0 .. Modulus - 1, Const(v)
      PROVE  Shape'
  <2>1. v \in Nat
    BY TranslatorAssumption
  <2>2. <<[op |-> "ldi", v |-> v], Push(22)>> \in Seq(Plain)
    BY <2>1, StraightWords
  <2>3. /\ Translate([op |-> "const", n |-> v], 0, 1,
                     <<[op |-> "ldi", v |-> v], Push(22)>>, stack_top + 1)
        /\ Straight
    BY <1>3 DEF Const
  <2> QED BY <1>2, <2>2, <2>3, StraightShape
<1>4. ASSUME Drop
      PROVE  Shape'
  BY <1>2, <1>4, StraightWords, StraightShape DEF Drop
<1>5. ASSUME Sub
      PROVE  Shape'
  BY <1>2, <1>5, StraightWords, StraightShape DEF Sub
<1>6. ASSUME Eqz
      PROVE  Shape'
  BY <1>1, <1>6, StraightWords, StraightShape DEF Eqz
<1>7. ASSUME Select
      PROVE  Shape'
  BY <1>2, <1>7, StraightWords, StraightShape DEF Select
<1>8. ASSUME Nop
      PROVE  Shape'
  BY <1>1, <1>8, StraightWords, StraightShape DEF Nop
<1> QED BY <1>3, <1>4, <1>5, <1>6, <1>7, <1>8, SMTT(30)

\* The instructions that use a local keep the shape; the stores note the local.
LEMMA LocalShape ==
    ASSUME Shape, NEW i \in LocalIndex,
           LocalGet(i) \/ \E op \in {"set", "tee"} : LocalStore(op, i)
    PROVE  Shape'
<1>1. stack_top \in Int
  BY SMT DEF Shape, U16s
<1>2. func <= N
  BY DEF LocalGet, LocalStore, Translate, Emits, Admit
<1>3. LocalCell(i) \in Int /\ i \in Nat
  BY <1>2, LocalCellIsInt
<1>4. CASE LocalGet(i)
  <2>1. <<[op |-> "ldd", k |-> LocalCell(i)], Push(22)>> \in Seq(Plain)
    BY <1>3, StraightWords
  <2>2. /\ Translate([op |-> "get", n |-> i], 0, 1,
                     <<[op |-> "ldd", k |-> LocalCell(i)], Push(22)>>, stack_top + 1)
        /\ Straight
    BY <1>4 DEF LocalGet
  <2>3. stack_top + 1 \in Int
    BY <1>1
  <2> QED BY <2>1, <2>2, <2>3, StraightShape
<1>5. ASSUME NEW op \in {"set", "tee"}, LocalStore(op, i)
      PROVE  Shape'
  <2> DEFINE left == IF op = "tee" THEN 1 ELSE 0
             words == <<Pop(22), [op |-> "std", k |-> LocalCell(i)]>> \o Rep(left, Push(22))
  <2>1. left \in Nat
    OBVIOUS
  <2>2. /\ Translate([op |-> op, n |-> i], 1, left, words, stack_top - 1 + left)
        /\ ctrl' = [ctrl EXCEPT ![Len(ctrl)].set = @ \cup {i}]
    BY <1>5 DEF LocalStore
  <2> HIDE DEF left
  <2>3. stack_top - 1 + left \in Int
    BY <1>1, <2>1
  <2>4. words \in Seq(Emitted(Len(block_pc)))
    <3>1. <<Pop(22), [op |-> "std", k |-> LocalCell(i)]>> \in Seq(Plain)
      BY <1>3, StraightWords
    <3>2. Rep(left, Push(22)) \in Seq(Plain)
      BY <2>1, PlainGroups, RepGroups
    <3>3. words \in Seq(Plain) /\ Len(block_pc) \in Nat
      BY <3>1, <3>2, PlainWords DEF Shape
    <3> HIDE DEF words
    <3> QED BY <3>3, EmittedGrows
  <2> HIDE DEF words
  <2>5. ctrl' \in Seq(Opening) /\ Len(ctrl') = Len(ctrl)
    <3> DEFINE e == [Here EXCEPT !.set = @ \cup {i}]
    <3>1. e \in Opening
      BY <1>3, HereFacts DEF Opening
    <3>2. ctrl' = [ctrl EXCEPT ![Len(ctrl)] = e]
      BY <2>2, HereFacts DEF Here
    <3>3. ctrl \in Seq(Opening) /\ Len(ctrl) \in 1 .. Len(ctrl)
      BY HereFacts DEF Shape
    <3> HIDE DEF e
    <3> QED BY <3>1, <3>2, <3>3
  <2> QED BY <2>1, <2>2, <2>3, <2>4, <2>5, TranslateShape
<1> QED BY <1>4, <1>5, SMTT(30)

\* The type of what can be called.
LEMMA CallableType ==
    ASSUME funcs \in Shapes, NEW f \in Int, Callable(f)
    PROVE  Type(f).args \in Nat
<1>1. N \in Nat /\ f \in 1 - Len(Imports) .. N /\ Len(Imports) \in Nat
  BY FunctionFacts, ImportsAssumption DEF Callable
<1>2. CASE f <= 0
  <2>1. 1 - f \in DOMAIN Imports
    BY <1>1, <1>2, ImportsAssumption
  <2>2. Imports[1 - f].args \in 0 .. 5
    BY <2>1, ImportsAssumption
  <2> QED BY <1>2, <2>2 DEF Type
<1>3. CASE ~(f <= 0)
  <2>1. f \in 1 .. N
    BY <1>1, <1>3
  <2> QED BY <1>3, <2>1, FunctionFacts DEF Type
<1> QED BY <1>2, <1>3

\* A call keeps the shape.
LEMMA CallShape ==
    ASSUME Shape, NEW f \in Int, Call(f)
    PROVE  Shape'
<1> DEFINE k == Type(f).args
           left == Arity(Type(f).result)
           base == 26 - 4 * k
           loads == [n \in 1 .. k |-> Pop(base + 4 * (n - 1))]
           words == (IF f <= 0 THEN Append(loads, CallTo(f))
                               ELSE <<CallTo(f)>> \o Rep(k, Pop(18))) \o Rep(left, Push(22))
<1>1. /\ Translate([op |-> "call", n |-> f], k, left, words, stack_top - k + left) /\ Straight
      /\ Callable(f)
  BY DEF Call
<1>2. k \in Nat
  BY <1>1, CallableType DEF Shape
<1>3. left \in Nat
  BY ArityIsBit
<1> HIDE DEF k, left
<1>4. loads \in Seq(Plain)
  <2>1. base \in Int
    BY <1>2
  <2> HIDE DEF base
  <2>2. ASSUME NEW n \in 1 .. k
        PROVE  Pop(base + 4 * (n - 1)) \in Plain
    <3>1. base + 4 * (n - 1) \in Int
      BY <1>2, <2>1
    <3> QED BY <3>1, PlainGroups
  <2> QED BY <1>2, <2>2
<1> HIDE DEF loads
<1>5. words \in Seq(Plain)
  <2>1. Rep(left, Push(22)) \in Seq(Plain) /\ Rep(k, Pop(18)) \in Seq(Plain)
    BY <1>2, <1>3, PlainGroups, RepGroups
  <2>2. CallTo(f) \in Plain
    BY PlainGroups
  <2>3. Append(loads, CallTo(f)) \in Seq(Plain) /\ <<CallTo(f)>> \in Seq(Plain)
    BY <1>4, <2>2
  <2>4. <<CallTo(f)>> \o Rep(k, Pop(18)) \in Seq(Plain)
    BY <2>1, <2>3, PlainWords
  <2> QED BY <2>1, <2>3, <2>4, PlainWords
<1> HIDE DEF words
<1>6. stack_top - k + left \in Int
  <2>1. stack_top \in Int
    BY SMT DEF Shape, U16s
  <2>2. stack_top - k \in Int
    BY <1>2, <2>1
  <2> QED BY <1>3, <2>2, SMTT(30)
<1> QED BY <1>1, <1>2, <1>3, <1>5, <1>6, StraightShape

\* The block n levels out is a block, and what is unwound to it is a number.
LEMMA TargetFacts ==
    ASSUME Shape, NEW n \in Nat, n < Len(blocks)
    PROVE  /\ Target(n) \in Open(Len(block_pc))
           /\ Jmp(Target(n).label) \in Emitted(Len(block_pc))
           /\ \A top \in Int : Above(top, n) \in Nat
<1>1. Len(blocks) - n \in 1 .. Len(blocks) /\ blocks \in Seq(Open(Len(block_pc)))
  BY HereFacts DEF Shape
<1>2. Target(n) \in Open(Len(block_pc))
  BY <1>1 DEF Target
<1>3. Target(n).label \in 1 .. Len(block_pc) /\ Target(n).stack \in 0 .. 255
  BY <1>2 DEF Open
<1>4. Jmp(Target(n).label) \in Emitted(Len(block_pc))
  BY <1>3 DEF Jmp, Emitted, Jumps
<1>5. ASSUME NEW top \in Int
      PROVE  Above(top, n) \in Nat
  <2>1. top - Target(n).stack \in Int
    <3>1. Target(n).stack \in Int
      BY <1>3, WidthsAreNat, Zenon
    <3>2. \A x, y \in Int : x - y \in Int
      OBVIOUS
    <3> QED BY <3>1, <3>2
  <2>2. \A x \in U16s : x \in Nat
    BY SMTT(30) DEF U16s
  <2> QED BY <2>1, <2>2, Remainders DEF Above
<1> QED BY <1>2, <1>4, <1>5

\* A branch carries one operand or none.
LEMMA BranchArityIsBit == \A n : BranchArity(n) \in {0, 1}
BY ArityIsBit DEF BranchArity

\* The distance br_if skips is a number.
LEMMA SkipIsNat == \A d \in Nat : BrIfSkip(d) \in Nat
<1> SUFFICES ASSUME NEW d \in Nat
             PROVE  BrIfSkip(d) \in Nat
  OBVIOUS
<1>1. BrIfSkip(d) \in {4, 12, 20, 22}
  <2>1. CASE d = 0
    BY <2>1 DEF BrIfSkip
  <2>2. CASE d = 1
    BY <2>2 DEF BrIfSkip
  <2>3. CASE d = 2
    BY <2>3 DEF BrIfSkip
  <2>4. CASE d # 0 /\ d # 1 /\ d # 2
    BY <2>4 DEF BrIfSkip
  <2> QED BY <2>1, <2>2, <2>3, <2>4
<1> QED BY <1>1

\* A way out of a block or of the function keeps the shape.
LEMMA LeaveShape ==
    ASSUME Shape,
           \/ \E n \in 0 .. MaxNesting - 1 : Br(n) \/ BrIf(n)
           \/ Return
           \/ Unreachable
    PROVE  Shape'
<1>1. stack_top \in Int /\ stack_top - 1 \in Int
  BY SMT DEF Shape, U16s
<1>2. ctrl \in Seq(Opening) /\ Len(block_pc) \in Nat
  BY DEF Shape
<1>3. ASSUME NEW n \in 0 .. MaxNesting - 1, Br(n)
      PROVE  Shape'
  <2> DEFINE k == BranchArity(n)
             words == Unwind(Above(stack_top, n)) \o <<Jmp(Target(n).label)>>
  <2>1. n \in Nat /\ n < Len(blocks)
    BY <1>3, TranslatorAssumption DEF Br
  <2>2. WayOut([op |-> "br", n |-> n], k, words, stack_top)
    BY <1>3 DEF Br
  <2>3. words \in Seq(Emitted(Len(block_pc)))
    <3>1. Unwind(Above(stack_top, n)) \in Seq(Emitted(Len(block_pc)))
      <4>1. Unwind(Above(stack_top, n)) \in Seq(Plain)
        BY <1>1, <2>1, TargetFacts, UnwindWords
      <4>2. Len(block_pc) <= Len(block_pc)
        BY <1>2
      <4> QED BY <1>2, <4>1, <4>2, EmittedGrows
    <3>2. <<Jmp(Target(n).label)>> \in Seq(Emitted(Len(block_pc)))
      BY <2>1, TargetFacts
    <3> QED BY <3>1, <3>2
  <2> HIDE DEF k, words
  <2> QED BY <1>1, <2>2, <2>3, WayOutShape
<1>4. ASSUME NEW n \in 0 .. MaxNesting - 1, BrIf(n)
      PROVE  Shape'
  <2> DEFINE k == BranchArity(n)
             d == Above(U16(stack_top - 1), n)
             head == <<Pop(22), Group("test"), Branch("branch_eq", BrIfSkip(d))>>
             words == head \o Unwind(d) \o <<Jmp(Target(n).label)>>
  <2>1. n \in Nat /\ n < Len(blocks)
    BY <1>4, TranslatorAssumption DEF BrIf
  <2>2. Translate([op |-> "br_if", n |-> n], 1 + k, k, words, stack_top - 1) /\ Straight
    BY <1>4 DEF BrIf
  <2>3. k \in Nat /\ 1 + k \in Nat
    BY BranchArityIsBit
  <2>4. d \in Nat
    <3>1. U16(stack_top - 1) \in Int
      <4>1. \A x \in U16s : x \in Int
        BY SMT DEF U16s
      <4> QED BY <1>1, <4>1, Remainders, SMTT(30)
    <3> QED BY <2>1, <3>1, TargetFacts
  <2> HIDE DEF d
  <2>5. words \in Seq(Emitted(Len(block_pc)))
    <3>1. Pop(22) \in Plain /\ Group("test") \in Plain /\ Branch("branch_eq", BrIfSkip(d)) \in Plain
      <4>1. "test" \in Ops /\ "branch_eq" \in Ops
        BY DEF Ops
      <4> QED BY <2>4, <4>1, SkipIsNat, PlainGroups
    <3>2. head \in Seq(Plain)
      BY <3>1
    <3> HIDE DEF head
    <3>3. head \o Unwind(d) \in Seq(Plain)
      BY <2>4, <3>2, UnwindWords, PlainWords
    <3>4. head \o Unwind(d) \in Seq(Emitted(Len(block_pc)))
      <4>1. Len(block_pc) <= Len(block_pc)
        BY <1>2
      <4> QED BY <1>2, <3>3, <4>1, EmittedGrows
    <3>5. <<Jmp(Target(n).label)>> \in Seq(Emitted(Len(block_pc)))
      BY <2>1, TargetFacts
    <3> QED BY <3>4, <3>5
  <2> HIDE DEF k, words
  <2>6. ctrl' \in Seq(Opening) /\ Len(ctrl') = Len(ctrl)
    BY <1>2, <2>2 DEF Straight
  <2> QED BY <1>1, <2>2, <2>3, <2>5, <2>6, TranslateShape
<1>5. ASSUME Return
      PROVE  Shape'
  <2> DEFINE k == Arity(F.result)
  <2>1. WayOut([op |-> "return"], k, Epilogue, stack_top - k) /\ func <= N
    BY <1>5 DEF Return
  <2>2. k \in Nat
    BY ArityIsBit
  <2> HIDE DEF k
  <2>3. Epilogue \in Seq(Emitted(Len(block_pc)))
    <3>1. Epilogue \in Seq(Plain)
      BY <2>1, HereFacts, FrameWords DEF Shape
    <3>2. Len(block_pc) <= Len(block_pc)
      BY <1>2
    <3> QED BY <1>2, <3>1, <3>2, EmittedGrows
  <2>4. stack_top - k \in Int
    BY <1>1, <2>2
  <2> QED BY <2>1, <2>3, <2>4, WayOutShape
<1>6. ASSUME Unreachable
      PROVE  Shape'
  <2>1. WayOut([op |-> "unreachable"], 0, <<Group("stop")>>, stack_top)
    BY <1>6 DEF Unreachable
  <2>2. <<Group("stop")>> \in Seq(Emitted(Len(block_pc)))
    <3>1. Len(block_pc) <= Len(block_pc)
      BY <1>2
    <3> QED BY <1>2, <3>1, StraightWords, EmittedGrows
  <2> QED BY <1>1, <2>1, <2>2, WayOutShape
<1> QED BY <1>3, <1>4, <1>5, <1>6

\* The label made for a block is the next one, and the labels there were stay
\* labels.
LEMMA BlockShape ==
    ASSUME Shape, NEW op \in {"block", "loop"}, NEW t \in Types, Block(op, t)
    PROVE  Shape'
<1> DEFINE L == Len(block_pc)
           b == [label |-> NewLabel, stack |-> U8(stack_top), type |-> t]
           e == Opened(op, t, height, Here.set)
           pc == IF op = "loop" THEN Len(code) ELSE 0
<1>1. /\ func <= N /\ UNCHANGED <<funcs, func, code, stack_top, height>>
      /\ blocks' = Append(blocks, b) /\ block_pc' = Append(block_pc, pc)
      /\ ctrl' = Append(ctrl, e)
  BY DEF Block, Admit
<1>2. /\ L \in Nat /\ L + 1 \in Nat /\ block_pc \in Seq(Nat) /\ Len(code) \in Nat
      /\ code \in Seq(Emitted(L)) /\ blocks \in Seq(Open(L)) /\ ctrl \in Seq(Opening)
  BY DEF Shape
<1>3. Len(block_pc') = L + 1 /\ block_pc' \in Seq(Nat)
  <2>1. pc \in Nat
    BY <1>2
  <2> HIDE DEF pc
  <2> QED BY <1>1, <1>2, <2>1
<1>4. code' \in Seq(Emitted(Len(block_pc')))
  <2>1. L <= L + 1
    BY <1>2
  <2>2. code \in Seq(Emitted(L + 1))
    BY <1>2, <2>1, EmittedGrows
  <2> QED BY <1>1, <1>3, <2>2
<1>5. \A l \in 1 .. Len(block_pc') : block_pc'[l] <= Len(code')
  <2>1. pc \in Nat /\ pc <= Len(code)
    BY <1>2
  <2> HIDE DEF pc
  <2>2. ASSUME NEW l \in 1 .. L + 1
        PROVE  block_pc'[l] <= Len(code)
    <3>1. CASE l = L + 1
      BY <1>1, <1>2, <2>1, <3>1
    <3>2. CASE l # L + 1
      <4>1. l \in 1 .. L /\ block_pc'[l] = block_pc[l]
        BY <1>1, <1>2, <3>2
      <4> QED BY <4>1 DEF Shape
    <3> QED BY <3>1, <3>2
  <2> QED BY <1>1, <1>3, <2>2
<1>6. blocks' \in Seq(Open(Len(block_pc'))) /\ Len(blocks') = Len(blocks) + 1
  <2>1. Open(L) \subseteq Open(L + 1)
    BY <1>2 DEF Open
  <2>2. b \in Open(L + 1)
    <3>1. U8(stack_top) \in 0 .. 255
      <4>1. stack_top \in Int
        BY SMT DEF Shape, U16s
      <4> QED BY <4>1, Remainders, SMTT(30)
    <3>2. NewLabel \in 1 .. L + 1
      BY <1>2 DEF NewLabel
    <3> QED BY <3>1, <3>2 DEF Open
  <2> HIDE DEF b
  <2>3. blocks \in Seq(Open(L + 1))
    BY <1>2, <2>1
  <2> QED BY <1>1, <1>3, <2>2, <2>3
<1>7. ctrl' \in Seq(Opening) /\ ctrl' # <<>> /\ Len(ctrl') = Len(ctrl) + 1
  <2>1. e \in Opening
    BY HereFacts, OpenedIsOpening DEF Shape
  <2> HIDE DEF e
  <2> QED BY <1>1, <1>2, <2>1
<1>8. Len(blocks') = Len(ctrl') - 1
  <2>1. Len(ctrl) = Len(blocks) + 1 /\ Len(blocks) \in Nat
    BY HereFacts
  <2> QED BY <1>6, <1>7, <2>1
<1>9. /\ funcs' \in Shapes /\ func' \in 1 .. N' + 1 /\ stack_top' \in U16s
      /\ height' \in Nat
  BY <1>1 DEF Shape, N
<1> QED BY <1>3, <1>4, <1>5, <1>6, <1>7, <1>8, <1>9 DEF Shape

\* The pops at the end of a block, as many as there are values above it.
LEMMA PopsFacts ==
    ASSUME NEW count \in Int
    PROVE  LET pops == [n \in 1 .. count |-> IF n = 1 THEN Pop(22) ELSE Pop(18)]
           IN  /\ pops \in Seq(Plain) /\ Len(pops) \in Nat
               /\ count >= 0 => Len(pops) = count
<1> DEFINE pops == [n \in 1 .. count |-> IF n = 1 THEN Pop(22) ELSE Pop(18)]
<1>1. Pop(22) \in Plain /\ Pop(18) \in Plain
  BY PlainGroups
<1>2. CASE count >= 0
  <2>1. count \in Nat
    BY <1>2
  <2> QED BY <1>1, <2>1
<1>3. CASE ~(count >= 0)
  <2>1. 1 .. count = 1 .. 0
    BY <1>3
  <2>2. pops \in [1 .. 0 -> Plain]
    BY <1>1, <2>1
  <2> HIDE DEF pops
  <2>3. pops \in Seq(Plain) /\ Len(pops) = 0
    BY <2>2
  <2>4. Len(pops) \in Nat /\ (count >= 0 => Len(pops) = count)
    BY <1>3, <2>3
  <2> QED BY <2>3, <2>4 DEF pops
<1> QED BY <1>2, <1>3

\* What the end of a block does to the tables, with the number of its pops.
LEMMA EndBlockFacts ==
    ASSUME Shape, EndBlock
    PROVE  LET b == blocks[Len(blocks)]
               count == Surplus
               pops == [n \in 1 .. count |-> IF n = 1 THEN Pop(22) ELSE Pop(18)]
           IN  /\ func <= N /\ Len(blocks) \in Nat \ {0} /\ b \in Open(Len(block_pc))
               /\ UNCHANGED <<funcs, func, compiled>>
               /\ Results /\ EndAllowed
               /\ count \in Int /\ pops \in Seq(Plain) /\ Len(pops) \in Nat
               /\ count >= 0 => Len(pops) = count
               /\ code' = code \o pops \o Rep(Arity(b.type), Push(22))
               /\ block_pc' = IF block_pc[b.label] = 0
                              THEN [block_pc EXCEPT ![b.label] = Len(code) + Len(pops)]
                              ELSE block_pc
               /\ stack_top' = U16(stack_top - Len(pops) + Arity(b.type))
               /\ blocks' = Front(blocks) /\ ctrl' = Front(ctrl)
               /\ height' = Here.height + Arity(Here.type)
<1> DEFINE b == blocks[Len(blocks)]
           count == Surplus
           pops == [n \in 1 .. count |-> IF n = 1 THEN Pop(22) ELSE Pop(18)]
<1>1. /\ func <= N /\ blocks # <<>>
      /\ Results /\ EndAllowed
      /\ code' = code \o pops \o Rep(Arity(b.type), Push(22))
      /\ block_pc' = IF block_pc[b.label] = 0
                     THEN [block_pc EXCEPT ![b.label] = Len(code) + Len(pops)] ELSE block_pc
      /\ stack_top' = U16(stack_top - Len(pops) + Arity(b.type))
      /\ blocks' = Front(blocks) /\ ctrl' = Front(ctrl)
      /\ height' = Here.height + Arity(Here.type)
      /\ UNCHANGED <<funcs, func, compiled>>
  BY DEF EndBlock
<1>2. Len(blocks) \in Nat \ {0} /\ b \in Open(Len(block_pc))
  <2>1. blocks \in Seq(Open(Len(block_pc))) /\ blocks # <<>>
    BY <1>1 DEF Shape
  <2>2. Len(blocks) \in 1 .. Len(blocks)
    BY <2>1
  <2> QED BY <2>1, <2>2
<1>3. count \in Int
  <2>1. stack_top - b.stack \in Int
    <3> HIDE DEF b
    <3>1. b.stack \in Int
      <4>1. b.stack \in 0 .. 255
        BY <1>2 DEF Open
      <4> QED BY <4>1, WidthsAreNat, Zenon
    <3>2. stack_top \in Int
      BY WidthsAreNat DEF Shape
    <3> QED BY <3>1, <3>2
  <2>2. U16(stack_top - b.stack) \in Int
    <3>1. \A x \in U16s : x \in Int
      BY SMT DEF U16s
    <3> QED BY <2>1, <3>1, Remainders
  <2> DEFINE u == U16(stack_top - b.stack)
  <2> HIDE DEF u
  <2>3. u \in Int
    BY <2>2 DEF u
  <2>4. Int16(u) \in Int
    BY <2>3, SMT DEF Int16
  <2>5. count = Int16(u)
    BY DEF Surplus, u
  <2> QED BY <2>4, <2>5
<1> HIDE DEF count
<1>4. pops \in Seq(Plain) /\ Len(pops) \in Nat /\ (count >= 0 => Len(pops) = count)
  BY <1>3, PopsFacts
<1> HIDE DEF pops, b
<1>5. /\ func <= N /\ Len(blocks) \in Nat \ {0} /\ b \in Open(Len(block_pc))
      /\ UNCHANGED <<funcs, func, compiled>>
      /\ Results /\ EndAllowed
      /\ count \in Int /\ pops \in Seq(Plain) /\ Len(pops) \in Nat
      /\ count >= 0 => Len(pops) = count
      /\ code' = code \o pops \o Rep(Arity(b.type), Push(22))
      /\ block_pc' = IF block_pc[b.label] = 0
                     THEN [block_pc EXCEPT ![b.label] = Len(code) + Len(pops)]
                     ELSE block_pc
      /\ stack_top' = U16(stack_top - Len(pops) + Arity(b.type))
      /\ blocks' = Front(blocks) /\ ctrl' = Front(ctrl)
      /\ height' = Here.height + Arity(Here.type)
  BY <1>1, <1>2, <1>3, <1>4
<1> QED BY <1>5 DEF b, count, pops

\* The end of a block keeps the shape: its label is put behind the code there is.
LEMMA EndBlockShape ==
    ASSUME Shape, EndBlock
    PROVE  Shape'
<1> DEFINE L == Len(block_pc)
           b == blocks[Len(blocks)]
           count == Surplus
           pops == [n \in 1 .. count |-> IF n = 1 THEN Pop(22) ELSE Pop(18)]
           typed == Arity(b.type)
           pushes == Rep(typed, Push(22))
<1>1. /\ func <= N /\ Len(blocks) \in Nat \ {0} /\ b \in Open(L)
      /\ UNCHANGED <<funcs, func, compiled>>
      /\ pops \in Seq(Plain) /\ Len(pops) \in Nat
      /\ code' = code \o pops \o pushes
      /\ block_pc' = IF block_pc[b.label] = 0
                     THEN [block_pc EXCEPT ![b.label] = Len(code) + Len(pops)]
                     ELSE block_pc
      /\ stack_top' = U16(stack_top - Len(pops) + typed)
      /\ blocks' = Front(blocks) /\ ctrl' = Front(ctrl)
      /\ height' = Here.height + Arity(Here.type)
  BY EndBlockFacts
<1> HIDE DEF pops
<1>2. pushes \in Seq(Plain) /\ Len(pushes) \in Nat /\ typed \in Nat
  <2>1. typed \in Nat
    BY ArityIsBit
  <2> HIDE DEF typed
  <2> QED BY <2>1, PlainGroups, RepGroups
<1> HIDE DEF pushes, typed
<1>3. /\ L \in Nat /\ block_pc \in Seq(Nat) /\ Len(code) \in Nat /\ code \in Seq(Emitted(L))
      /\ blocks \in Seq(Open(L)) /\ ctrl \in Seq(Opening) /\ ctrl # <<>> /\ blocks # <<>>
  <2>1. /\ block_pc \in Seq(Nat) /\ code \in Seq(Emitted(L))
        /\ blocks \in Seq(Open(L)) /\ ctrl \in Seq(Opening) /\ ctrl # <<>>
    BY DEF Shape
  <2>2. L \in Nat /\ Len(code) \in Nat
    BY <2>1
  <2>3. blocks # <<>>
    <3>1. Len(blocks) # 0
      BY <1>1
    <3> QED BY <3>1
  <2> QED BY <2>1, <2>2, <2>3
<1>4. b.label \in 1 .. L
  BY <1>1 DEF Open
<1> HIDE DEF b
<1>5. /\ code' \in Seq(Emitted(L))
      /\ Len(code') = Len(code) + Len(pops) + Len(pushes)
  <2>1. pops \in Seq(Emitted(L)) /\ pushes \in Seq(Emitted(L))
    <3>1. L <= L
      BY <1>3
    <3> QED BY <1>1, <1>2, <1>3, <3>1, EmittedGrows
  <2>2. code \o pops \in Seq(Emitted(L)) /\ Len(code \o pops) = Len(code) + Len(pops)
    BY <1>3, <2>1
  <2> QED BY <1>1, <2>1, <2>2
<1>6. block_pc' \in Seq(Nat) /\ Len(block_pc') = L
  <2>1. Len(code) + Len(pops) \in Nat
    BY <1>1, <1>3
  <2> DEFINE k == Len(code) + Len(pops)
  <2> HIDE DEF k
  <2>2. [block_pc EXCEPT ![b.label] = k] \in Seq(Nat)
        /\ Len([block_pc EXCEPT ![b.label] = k]) = L
    BY <1>3, <1>4, <2>1 DEF k
  <2> QED BY <1>1, <1>3, <2>2 DEF k
<1>7. \A l \in 1 .. L : block_pc'[l] <= Len(code')
  <2> SUFFICES ASSUME NEW l \in 1 .. L
               PROVE  block_pc'[l] <= Len(code')
    OBVIOUS
  <2>1. block_pc'[l] = block_pc[l] \/ block_pc'[l] = Len(code) + Len(pops)
    BY <1>1, <1>3, <1>4, SMTT(30)
  <2>2. block_pc[l] \in Nat /\ block_pc[l] <= Len(code)
    BY <1>3 DEF Shape
  <2> QED BY <1>1, <1>2, <1>3, <1>5, <2>1, <2>2, SMTT(30)
<1>8. /\ blocks' \in Seq(Open(Len(block_pc'))) /\ Len(blocks') = Len(blocks) - 1
  BY <1>1, <1>3, <1>6, FrontFacts
<1>9. /\ ctrl' \in Seq(Opening) /\ Len(ctrl') = Len(ctrl) - 1 /\ ctrl' # <<>>
      /\ Len(blocks') = Len(ctrl') - 1
  <2>1. ctrl' \in Seq(Opening) /\ Len(ctrl') = Len(ctrl) - 1
    BY <1>1, <1>3, FrontFacts
  <2>2. Len(ctrl) = Len(blocks) + 1
    BY HereFacts
  <2> QED BY <1>1, <1>8, <2>1, <2>2
<1>10. stack_top' \in U16s
  <2>1. stack_top \in Int
    BY WidthsAreNat DEF Shape
  <2>2. stack_top - Len(pops) + typed \in Int
    BY <1>1, <1>2, <2>1
  <2> QED BY <1>1, <2>2, Remainders
<1>11. height' \in Nat
  <2>1. Here.height \in Nat /\ Arity(Here.type) \in Nat
    BY HereFacts, ArityIsBit
  <2> QED BY <1>1, <2>1
<1>12. funcs' \in Shapes /\ func' \in 1 .. N' + 1
  BY <1>1 DEF Shape, N
<1>13. code' \in Seq(Emitted(Len(block_pc')))
  BY <1>5, <1>6
<1>14. \A l \in 1 .. Len(block_pc') : block_pc'[l] <= Len(code')
  BY <1>6, <1>7
<1> QED BY <1>6, <1>8, <1>9, <1>10, <1>11, <1>12, <1>13, <1>14, SMTT(30) DEF Shape

\* The end of a function keeps the shape: the next one begins with its own
\* control stack and no block, or the module is complete.
LEMMA EndFunctionShape ==
    ASSUME Shape, EndFunction
    PROVE  Shape'
<1> DEFINE L == Len(block_pc)
           done == code \o Epilogue
<1>1. /\ func <= N /\ blocks = <<>> /\ func' = func + 1
      /\ stack_top' = U16(stack_top - Arity(F.result))
      /\ IF func < N
         THEN code' = done \o Prologue(func + 1) /\ ctrl' = Body(func + 1)
         ELSE code' = done /\ ctrl' = Body(func)
      /\ height' = 0
      /\ UNCHANGED <<funcs, blocks, block_pc>>
  BY DEF EndFunction
<1>2. /\ L \in Nat /\ block_pc \in Seq(Nat) /\ Len(code) \in Nat /\ code \in Seq(Emitted(L))
      /\ ctrl \in Seq(Opening) /\ ctrl # <<>> /\ funcs \in Shapes
  BY DEF Shape
<1>3. N \in Nat \ {0} /\ func \in 1 .. N /\ N' = N
  BY <1>1, HereFacts DEF N
<1>4. Epilogue \in Seq(Emitted(L)) /\ \A f \in 1 .. N : Prologue(f) \in Seq(Emitted(L))
  <2>1. L <= L
    BY <1>2
  <2> QED BY <1>2, <1>3, <2>1, FrameWords, EmittedGrows
<1>5. /\ done \in Seq(Emitted(L)) /\ Len(done) \in Nat /\ Len(code) <= Len(done)
  BY <1>2, <1>4
<1>6. code' \in Seq(Emitted(L)) /\ Len(code') \in Nat /\ Len(code) <= Len(code')
  <2> HIDE DEF done
  <2>1. CASE func < N
    <3>1. Prologue(func + 1) \in Seq(Emitted(L))
      BY <1>3, <1>4, <2>1
    <3>2. code' = done \o Prologue(func + 1)
      BY <1>1, <2>1
    <3> QED BY <1>2, <1>5, <3>1, <3>2
  <2>2. CASE ~(func < N)
    BY <1>1, <1>5, <2>2
  <2> QED BY <2>1, <2>2
<1>7. \A l \in 1 .. L : block_pc[l] <= Len(code')
  <2> SUFFICES ASSUME NEW l \in 1 .. L
               PROVE  block_pc[l] <= Len(code')
    OBVIOUS
  <2>1. block_pc[l] \in Nat /\ block_pc[l] <= Len(code)
    BY <1>2, SMTT(30) DEF Shape
  <2> QED BY <1>2, <1>6, <2>1
<1>8. ctrl' \in Seq(Opening) /\ ctrl' # <<>> /\ Len(blocks') = Len(ctrl') - 1
  <2>1. \E f \in 1 .. N : ctrl' = Body(f)
    <3>1. CASE func < N
      <4>1. func + 1 \in 1 .. N /\ ctrl' = Body(func + 1)
        BY <1>1, <1>3, <3>1
      <4> QED BY <4>1
    <3>2. CASE ~(func < N)
      BY <1>1, <1>3, <3>2
    <3> QED BY <3>1, <3>2
  <2>2. ctrl' \in Seq(Opening) /\ ctrl' # <<>> /\ Len(ctrl') = 1
    BY <1>2, <2>1, BodyShape
  <2>3. Len(blocks') = 0
    BY <1>1
  <2> QED BY <2>2, <2>3
<1>9. stack_top' \in U16s
  <2>1. stack_top \in Int /\ Arity(F.result) \in Int
    BY WidthsAreNat, ArityIsBit DEF Shape
  <2>2. \A x, y \in Int : x - y \in Int
    OBVIOUS
  <2> QED BY <1>1, <2>1, <2>2, Remainders
<1>10. func' \in 1 .. N' + 1
  BY <1>1, <1>3
<1>11. /\ funcs' \in Shapes /\ height' \in Nat
       /\ block_pc' \in Seq(Nat)
  BY <1>1, <1>2
<1>12. blocks' \in Seq(Open(Len(block_pc')))
  BY <1>1 DEF Shape
<1>13. /\ code' \in Seq(Emitted(Len(block_pc')))
       /\ \A l \in 1 .. Len(block_pc') : block_pc'[l] <= Len(code')
  BY <1>1, <1>6, <1>7
<1> QED BY <1>8, <1>9, <1>10, <1>11, <1>12, <1>13 DEF Shape

\* Every step keeps the shape.
LEMMA NextShape == Shape /\ [Next]_vars => Shape'
<1> SUFFICES ASSUME Shape, [Next]_vars
             PROVE  Shape'
  OBVIOUS
<1>1. CASE (\E v \in 0 .. Modulus - 1 : Const(v)) \/ Drop \/ Sub \/ Eqz \/ Select \/ Nop
  BY <1>1, ComputeShape
<1>2. CASE \E i \in LocalIndex : LocalGet(i) \/ \E op \in {"set", "tee"} : LocalStore(op, i)
  BY <1>2, LocalShape
<1>3. CASE \E f \in 1 - Len(Imports) .. N - 1 : Call(f)
  BY <1>3, CallShape
<1>4. CASE \E op \in {"block", "loop"}, t \in Types : Block(op, t)
  BY <1>4, BlockShape
<1>5. CASE EndBlock
  BY <1>5, EndBlockShape
<1>6. CASE EndFunction
  BY <1>6, EndFunctionShape
<1>7. CASE \/ \E n \in 0 .. MaxNesting - 1 : Br(n) \/ BrIf(n)
           \/ Return
           \/ Unreachable
  BY <1>7, LeaveShape
<1>8. CASE UNCHANGED vars
  BY <1>8 DEF vars, Shape, N
<1> QED BY <1>1, <1>2, <1>3, <1>4, <1>5, <1>6, <1>7, <1>8 DEF Next, Types

\* In the shape the parts of TypeOK are contained.
LEMMA ShapeIsTypes == Shape => TypeOK
<1> SUFFICES ASSUME Shape
             PROVE  TypeOK
  OBVIOUS
<1>1. func \in 1 .. N + 1 /\ height \in Nat
      /\ Len(blocks) = Len(ctrl) - 1
  BY DEF Shape
<1>2. stack_top \in U16s
  BY DEF Shape
<1>3. \A n \in DOMAIN blocks :
        blocks[n].label \in DOMAIN block_pc /\ blocks[n].stack \in 0 .. 255
  <2> SUFFICES ASSUME NEW n \in DOMAIN blocks
               PROVE  blocks[n].label \in DOMAIN block_pc /\ blocks[n].stack \in 0 .. 255
    OBVIOUS
  <2>1. blocks[n] \in Open(Len(block_pc)) /\ DOMAIN block_pc = 1 .. Len(block_pc)
    BY DEF Shape
  <2> QED BY <2>1 DEF Open
<1>4. \A l \in DOMAIN block_pc : block_pc[l] \in 0 .. Len(code)
  <2> SUFFICES ASSUME NEW l \in DOMAIN block_pc
               PROVE  block_pc[l] \in 0 .. Len(code)
    OBVIOUS
  <2>1. l \in 1 .. Len(block_pc) /\ block_pc[l] \in Nat /\ Len(code) \in Nat
    <3>1. block_pc \in Seq(Nat) /\ code \in Seq(Emitted(Len(block_pc)))
      BY DEF Shape
    <3> QED BY <3>1
  <2>2. block_pc[l] <= Len(code)
    BY <2>1 DEF Shape
  <2> QED BY <2>1, <2>2
<1>5. \A p \in DOMAIN code : code[p].op = "jmp" => code[p].label \in DOMAIN block_pc
  <2> SUFFICES ASSUME NEW p \in DOMAIN code, code[p].op = "jmp"
               PROVE  code[p].label \in DOMAIN block_pc
    OBVIOUS
  <2>1. code[p] \in Emitted(Len(block_pc)) /\ DOMAIN block_pc = 1 .. Len(block_pc)
    BY DEF Shape
  <2>2. \A g \in Plain : g.op # "jmp"
    BY DEF Plain, Ops
  <2>3. code[p] \in Jumps(Len(block_pc))
    BY <2>1, <2>2 DEF Emitted
  <2> QED BY <2>1, <2>3 DEF Jumps
<1> QED BY <1>1, <1>2, <1>3, <1>4, <1>5, SMT DEF TypeOK

\* The shape of the state, for every module and program: stack_top stays in its
\* 16 bits, there is a block for every entry of validation behind the first,
\* every label is one that was made and lies in the code, and every jump has one
\* (wasm_block_ct and translation_state of types.h, kept by emit_single_instruction).
THEOREM TranslatorTypes == Spec => []TypeOK
<1>1. Spec => []Shape
  BY InitShape, NextShape, PTL DEF Spec
<1> QED BY <1>1, ShapeIsTypes, PTL

-----------------------------------------------------------------------------
(* The static height is inductive, as long as no operand stack is deeper than *)
(* the u8 of block_stack counts and no end meets what EndAllowed excludes.   *)

\* What an instruction in the middle of a function finds.
LEMMA CurrentHeight ==
    ASSUME HeightInv, Shallow
    PROVE  /\ Here = ctrl[Len(ctrl)] /\ Len(ctrl) \in 1 .. Len(ctrl)
           /\ Here.height \in Nat /\ height \in Nat /\ stack_top \in Nat
           /\ Here.height <= height /\ height <= 255
           /\ ctrl \in Seq(Opening) /\ Len(ctrl) = Len(blocks) + 1 /\ Len(blocks) \in Nat
<1>1. Here = ctrl[Len(ctrl)] /\ Len(ctrl) \in 1 .. Len(ctrl)
  BY HereFacts DEF Here, HeightInv
<1>2. Here.height \in Nat /\ height \in Nat /\ stack_top \in Nat
  BY HereFacts, WidthsAreNat DEF HeightInv, Shape
<1>3. Here.height <= height /\ height <= 255
  BY DEF HeightInv, Nested, Shallow
<1>4. ctrl \in Seq(Opening) /\ Len(ctrl) = Len(blocks) + 1 /\ Len(blocks) \in Nat
  BY HereFacts DEF HeightInv, Shape
<1> QED BY <1>1, <1>2, <1>3, <1>4

\* The blocks stay nested when the entries of the control stack keep their
\* heights and types, and all but the last one whether code behind them is dead.
LEMMA EntriesNested ==
    ASSUME HeightInv, UNCHANGED <<funcs, func, blocks>>, Len(ctrl') = Len(ctrl),
           \A n \in 1 .. Len(ctrl) :
               ctrl'[n].height = ctrl[n].height /\ ctrl'[n].type = ctrl[n].type,
           \A n \in 1 .. Len(ctrl) : n < Len(ctrl) => ctrl'[n].dead = ctrl[n].dead,
           Here.height <= height'
    PROVE  Nested'
<1>1. /\ Len(ctrl) \in Nat \ {0} /\ Len(ctrl) = Len(blocks) + 1 /\ Len(blocks) \in Nat
  BY HereFacts DEF HeightInv
<1>2. ctrl'[1].height = 0 /\ (~Complete' => ctrl'[1].type = F'.result)
  <2>1. 1 \in 1 .. Len(ctrl) /\ F' = F /\ (Complete' <=> Complete)
    BY <1>1 DEF F, Complete, N
  <2> QED BY <2>1 DEF HeightInv, Nested
<1>3. ASSUME NEW n \in 1 .. Len(blocks')
      PROVE  /\ blocks'[n].type = ctrl'[n + 1].type
             /\ ~DeadPast(n + 1)' => blocks'[n].stack = ctrl'[n + 1].height
  <2>1. n \in 1 .. Len(blocks) /\ n + 1 \in 1 .. Len(ctrl) /\ blocks' = blocks
    BY <1>1
  <2>2. /\ blocks[n].type = ctrl[n + 1].type
        /\ ~DeadPast(n + 1) => blocks[n].stack = ctrl[n + 1].height
    BY <2>1 DEF HeightInv, Nested
  <2>3. DeadPast(n + 1)' <=> DeadPast(n + 1)
    <3>1. \A k \in 1 .. n + 1 - 1 : ctrl'[k].dead = ctrl[k].dead
      BY <1>1, <2>1
    <3> QED BY <3>1 DEF DeadPast
  <2> QED BY <2>1, <2>2, <2>3
<1>4. \A m, n \in 1 .. Len(ctrl') : m <= n => ctrl'[m].height <= ctrl'[n].height
  <2> SUFFICES ASSUME NEW m \in 1 .. Len(ctrl), NEW n \in 1 .. Len(ctrl), m <= n
               PROVE  ctrl'[m].height <= ctrl'[n].height
    OBVIOUS
  <2>1. ctrl[m].height <= ctrl[n].height
    BY DEF HeightInv, Nested
  <2> QED BY <2>1
<1>5. Here'.height <= height'
  BY <1>1 DEF Here
<1> QED BY <1>2, <1>3, <1>4, <1>5 DEF Nested

\* The height that is kept is the height that is meant where the code can be
\* reached.
LEMMA TranslateHeight ==
    ASSUME HeightInv, Shallow, Shape', Shallow', NEW i, NEW takes \in Nat, NEW leaves \in Nat,
           NEW words, Translate(i, takes, leaves, words, stack_top - takes + leaves),
           Len(ctrl') = Len(ctrl),
           \A n \in 1 .. Len(ctrl) :
               /\ ctrl'[n].height = ctrl[n].height /\ ctrl'[n].type = ctrl[n].type
               /\ ctrl'[n].dead = ctrl[n].dead
    PROVE  HeightInv'
<1>1. /\ UNCHANGED <<funcs, func, blocks>>
      /\ stack_top' = U16(stack_top - takes + leaves)
  BY DEF Translate, Emits, Admit
<1>2. /\ height' \in Nat /\ Here.height <= height'
      /\ ~Here.dead => height' = height - takes + leaves
  BY CurrentHeight, TranslateOperands DEF HeightInv
<1>3. Nested'
  BY <1>1, <1>2, EntriesNested
<1>4. ASSUME ~Dead'
      PROVE  stack_top' = height'
  <2>1. ~Dead /\ ~Here.dead
    <3>1. DOMAIN ctrl = 1 .. Len(ctrl) /\ DOMAIN ctrl' = 1 .. Len(ctrl)
      BY CurrentHeight DEF Shape
    <3>2. \A k \in 1 .. Len(ctrl) : ~ctrl[k].dead
      BY <1>4, <3>1 DEF Dead
    <3> QED BY <3>1, <3>2, CurrentHeight DEF Dead
  <2>2. stack_top = height
    BY <2>1 DEF HeightInv, Level
  <2>3. stack_top' = U16(height')
    BY <1>1, <1>2, <2>1, <2>2
  <2>4. height' <= 255
    BY DEF Shallow
  <2> QED BY <1>2, <2>3, <2>4, ByteIsWord, Remainders
<1>5. Level'
  BY <1>4 DEF Level
<1> QED BY <1>3, <1>5 DEF HeightInv

\* The same for an instruction that leaves the control stack alone, with the new
\* stack_top as the code writes it.
LEMMA StraightHeight ==
    ASSUME HeightInv, Shallow, Shape', Shallow', NEW i, NEW takes \in Nat, NEW leaves \in Nat,
           NEW words, NEW top, top = stack_top - takes + leaves,
           Translate(i, takes, leaves, words, top), Straight
    PROVE  HeightInv'
BY TranslateHeight DEF Straight

\* The instructions that compute keep the static height.
LEMMA ComputeHeight ==
    ASSUME HeightInv, Shallow, Shape', Shallow',
           (\E v \in 0 .. Modulus - 1 : Const(v)) \/ Drop \/ Sub \/ Eqz \/ Select \/ Nop
    PROVE  HeightInv'
<1>1. stack_top \in Int
  BY WidthsAreNat DEF HeightInv, Shape
<1>2. /\ stack_top + 1 = stack_top - 0 + 1 /\ stack_top - 1 = stack_top - 1 + 0
      /\ stack_top - 1 = stack_top - 2 + 1 /\ stack_top = stack_top - 1 + 1
      /\ stack_top - 2 = stack_top - 3 + 1
  BY <1>1
<1>3. 0 \in Nat /\ 1 \in Nat /\ 2 \in Nat /\ 3 \in Nat
  OBVIOUS
<1>4. ASSUME NEW v \in 0 .. Modulus - 1, Const(v)
      PROVE  HeightInv'
  <2>1. /\ Translate([op |-> "const", n |-> v], 0, 1,
                     <<[op |-> "ldi", v |-> v], Push(22)>>, stack_top + 1)
        /\ Straight
    BY <1>4 DEF Const
  <2> QED BY <1>2, <1>3, <2>1, StraightHeight
<1>5. ASSUME Drop
      PROVE  HeightInv'
  BY <1>2, <1>3, <1>5, StraightHeight DEF Drop
<1>6. ASSUME Sub
      PROVE  HeightInv'
  BY <1>2, <1>3, <1>6, StraightHeight DEF Sub
<1>7. ASSUME Eqz
      PROVE  HeightInv'
  BY <1>2, <1>3, <1>7, StraightHeight DEF Eqz
<1>8. ASSUME Select
      PROVE  HeightInv'
  BY <1>2, <1>3, <1>8, StraightHeight DEF Select
<1>9. ASSUME Nop
      PROVE  HeightInv'
  <2>1. stack_top = stack_top - 0 + 0
    BY <1>1
  <2> QED BY <1>3, <1>9, <2>1, StraightHeight DEF Nop
<1> QED BY <1>4, <1>5, <1>6, <1>7, <1>8, <1>9

\* The instructions that use a local keep the static height: the set of locals
\* they note is not a height.
LEMMA LocalHeight ==
    ASSUME HeightInv, Shallow, Shape', Shallow', NEW i \in LocalIndex,
           LocalGet(i) \/ \E op \in {"set", "tee"} : LocalStore(op, i)
    PROVE  HeightInv'
<1>1. stack_top \in Int
  BY WidthsAreNat DEF HeightInv, Shape
<1>2. CASE LocalGet(i)
  <2>1. /\ Translate([op |-> "get", n |-> i], 0, 1,
                     <<[op |-> "ldd", k |-> LocalCell(i)], Push(22)>>, stack_top + 1)
        /\ Straight
    BY <1>2 DEF LocalGet
  <2>2. stack_top + 1 = stack_top - 0 + 1 /\ 0 \in Nat /\ 1 \in Nat
    BY <1>1
  <2> QED BY <2>1, <2>2, StraightHeight
<1>3. ASSUME NEW op \in {"set", "tee"}, LocalStore(op, i)
      PROVE  HeightInv'
  <2> DEFINE left == IF op = "tee" THEN 1 ELSE 0
             words == <<Pop(22), [op |-> "std", k |-> LocalCell(i)]>> \o Rep(left, Push(22))
  <2>1. left \in Nat /\ 1 \in Nat
    OBVIOUS
  <2>2. /\ Translate([op |-> op, n |-> i], 1, left, words, stack_top - 1 + left)
        /\ ctrl' = [ctrl EXCEPT ![Len(ctrl)].set = @ \cup {i}]
    BY <1>3 DEF LocalStore
  <2> HIDE DEF left, words
  <2>3. ctrl \in Seq(Opening)
    BY DEF HeightInv, Shape
  <2>4. Len(ctrl') = Len(ctrl)
    BY <2>2, <2>3
  <2>5. ASSUME NEW n \in 1 .. Len(ctrl)
        PROVE  /\ ctrl'[n].height = ctrl[n].height /\ ctrl'[n].type = ctrl[n].type
               /\ ctrl'[n].dead = ctrl[n].dead
    <3>1. ctrl[n] \in Opening
      BY <2>3
    <3>2. CASE n = Len(ctrl)
      <4> DEFINE e == [ctrl[Len(ctrl)] EXCEPT !.set = @ \cup {i}]
      <4>1. ctrl'[n] = [ctrl[n] EXCEPT !.set = @ \cup {i}]
        <5>1. ctrl' = [ctrl EXCEPT ![Len(ctrl)] = e]
          BY <2>2
        <5> HIDE DEF e
        <5>2. ctrl'[Len(ctrl)] = e
          BY <2>3, <3>2, <5>1
        <5> QED BY <3>2, <5>2 DEF e
      <4>2. \A r \in Opening : /\ [r EXCEPT !.set = @ \cup {i}].height = r.height
                               /\ [r EXCEPT !.set = @ \cup {i}].type = r.type
                               /\ [r EXCEPT !.set = @ \cup {i}].dead = r.dead
        BY DEF Opening
      <4> QED BY <3>1, <4>1, <4>2, Zenon
    <3>3. CASE n # Len(ctrl)
      <4>1. ctrl'[n] = ctrl[n]
        BY <2>2, <2>3, <3>3
      <4> QED BY <4>1
    <3> QED BY <3>2, <3>3
  <2> QED BY <2>1, <2>2, <2>4, <2>5, TranslateHeight
<1> QED BY <1>2, <1>3

\* A call takes its parameters and leaves its result.
LEMMA CallHeight ==
    ASSUME HeightInv, Shallow, Shape', Shallow', NEW f \in Int, Call(f)
    PROVE  HeightInv'
<1> DEFINE k == Type(f).args
           left == Arity(Type(f).result)
           base == 26 - 4 * k
           words == (IF f <= 0 THEN Append([n \in 1 .. k |-> Pop(base + 4 * (n - 1))], CallTo(f))
                               ELSE <<CallTo(f)>> \o Rep(k, Pop(18))) \o Rep(left, Push(22))
<1>1. /\ Translate([op |-> "call", n |-> f], k, left, words, stack_top - k + left) /\ Straight
      /\ Callable(f)
  BY DEF Call
<1>2. k \in Nat
  BY <1>1, CallableType DEF HeightInv, Shape
<1>3. left \in Nat
  BY ArityIsBit
<1> HIDE DEF k, left, words
<1> QED BY <1>1, <1>2, <1>3, StraightHeight

\* A block notes the height there is, which block_stack can hold.
LEMMA BlockHeight ==
    ASSUME HeightInv, Shallow, Shape', Shallow',
           NEW op \in {"block", "loop"}, NEW t \in Types, Block(op, t)
    PROVE  HeightInv'
<1> DEFINE b == [label |-> NewLabel, stack |-> U8(stack_top), type |-> t]
           e == Opened(op, t, height, Here.set)
<1>1. /\ func <= N /\ UNCHANGED <<funcs, func, stack_top, height>>
      /\ blocks' = Append(blocks, b) /\ ctrl' = Append(ctrl, e)
  BY DEF Block, Admit
<1>2. /\ Here = ctrl[Len(ctrl)] /\ Here.height <= height /\ height \in Nat /\ height <= 255
      /\ Here.height \in Nat
  BY CurrentHeight
<1>3. /\ ctrl \in Seq(Opening) /\ blocks \in Seq(Open(Len(block_pc)))
      /\ Len(ctrl) \in Nat \ {0} /\ Len(ctrl) = Len(blocks) + 1 /\ Len(blocks) \in Nat
  BY HereFacts DEF HeightInv, Shape
<1>4. ~Dead => U8(stack_top) = height
  <2>1. ~Dead => stack_top = height
    BY DEF HeightInv, Level
  <2> QED BY <1>2, <2>1, ByteIsWord, Remainders
<1>5. /\ e.height = height /\ e.type = t /\ ~e.dead /\ b.type = t
      /\ ~Dead => b.stack = height
  BY <1>4 DEF Opened
<1> HIDE DEF b, e
<1>6. /\ Len(ctrl') = Len(ctrl) + 1 /\ ctrl'[Len(ctrl) + 1] = e
      /\ \A n \in 1 .. Len(ctrl) : ctrl'[n] = ctrl[n]
  BY <1>1, <1>3
<1>7. /\ Len(blocks') = Len(blocks) + 1 /\ blocks'[Len(blocks) + 1] = b
      /\ \A n \in 1 .. Len(blocks) : blocks'[n] = blocks[n]
  BY <1>1, <1>3
<1>8. ctrl'[1].height = 0 /\ (~Complete' => ctrl'[1].type = F'.result)
  <2>1. 1 \in 1 .. Len(ctrl) /\ F' = F /\ (Complete' <=> Complete)
    BY <1>1, <1>3 DEF F, Complete, N
  <2> QED BY <1>6, <2>1 DEF HeightInv, Nested
<1>9. ASSUME NEW n \in 1 .. Len(blocks')
      PROVE  /\ blocks'[n].type = ctrl'[n + 1].type
             /\ ~DeadPast(n + 1)' => blocks'[n].stack = ctrl'[n + 1].height
  <2>1. DeadPast(n + 1)' <=> DeadPast(n + 1)
    <3>1. \A k \in 1 .. n + 1 - 1 : ctrl'[k] = ctrl[k]
      BY <1>3, <1>6, <1>7
    <3> QED BY <3>1 DEF DeadPast
  <2>2. CASE n = Len(blocks) + 1
    <3>1. ~DeadPast(n + 1) => ~Dead
      <4>1. n + 1 - 1 = Len(ctrl) /\ DOMAIN ctrl = 1 .. Len(ctrl)
        BY <1>3, <2>2
      <4> QED BY <4>1 DEF DeadPast, Dead
    <3>2. blocks'[n] = b /\ ctrl'[n + 1] = e
      BY <1>3, <1>6, <1>7, <2>2
    <3> QED BY <1>5, <2>1, <3>1, <3>2
  <2>3. CASE n # Len(blocks) + 1
    <3>1. n \in 1 .. Len(blocks) /\ n + 1 \in 1 .. Len(ctrl)
      BY <1>3, <1>7, <2>3
    <3>2. blocks'[n] = blocks[n] /\ ctrl'[n + 1] = ctrl[n + 1]
      BY <1>6, <1>7, <3>1
    <3> QED BY <2>1, <3>1, <3>2 DEF HeightInv, Nested
  <2> QED BY <2>2, <2>3
<1>10. \A n \in 1 .. Len(ctrl) : ctrl[n].height \in Nat /\ ctrl[n].height <= height
  <2> SUFFICES ASSUME NEW n \in 1 .. Len(ctrl)
               PROVE  ctrl[n].height \in Nat /\ ctrl[n].height <= height
    OBVIOUS
  <2>1. ctrl[n].height \in Nat
    <3>1. ctrl[n] \in Opening
      BY <1>3
    <3> QED BY <3>1 DEF Opening
  <2>2. ctrl[n].height <= ctrl[Len(ctrl)].height
    BY <1>3 DEF HeightInv, Nested
  <2> QED BY <1>2, <2>1, <2>2
<1>11. \A m, n \in 1 .. Len(ctrl') : m <= n => ctrl'[m].height <= ctrl'[n].height
  <2> SUFFICES ASSUME NEW m \in 1 .. Len(ctrl'), NEW n \in 1 .. Len(ctrl'), m <= n
               PROVE  ctrl'[m].height <= ctrl'[n].height
    OBVIOUS
  <2>1. CASE m = Len(ctrl) + 1
    <3>1. n = m
      BY <1>3, <1>6, <2>1
    <3> QED BY <1>2, <1>5, <1>6, <2>1, <3>1
  <2>2. CASE m # Len(ctrl) + 1 /\ n = Len(ctrl) + 1
    <3>1. m \in 1 .. Len(ctrl)
      BY <1>3, <1>6, <2>2
    <3> QED BY <1>5, <1>6, <1>10, <2>2, <3>1
  <2>3. CASE m # Len(ctrl) + 1 /\ n # Len(ctrl) + 1
    <3>1. m \in 1 .. Len(ctrl) /\ n \in 1 .. Len(ctrl)
      BY <1>3, <1>6, <2>3
    <3>2. ctrl[m].height <= ctrl[n].height
      BY <3>1 DEF HeightInv, Nested
    <3> QED BY <1>6, <3>1, <3>2
  <2> QED BY <2>1, <2>2, <2>3
<1>12. Here'.height = height
  <2>1. Here' = ctrl'[Len(ctrl')]
    BY DEF Here
  <2> QED BY <1>5, <1>6, <2>1
<1>13. Nested'
  <2>1. Here'.height <= height'
    BY <1>1, <1>2, <1>12
  <2> QED BY <1>8, <1>9, <1>11, <2>1 DEF Nested
<1>14. Level'
  <2>1. Dead => Dead'
    <3>1. DOMAIN ctrl = 1 .. Len(ctrl) /\ DOMAIN ctrl' = 1 .. Len(ctrl) + 1
      BY <1>1, <1>3
    <3>2. \A k \in 1 .. Len(ctrl) : k \in 1 .. Len(ctrl) + 1 /\ ctrl'[k] = ctrl[k]
      BY <1>3, <1>6
    <3> QED BY <3>1, <3>2 DEF Dead
  <2> QED BY <1>1, <2>1 DEF HeightInv, Level
<1> QED BY <1>13, <1>14 DEF HeightInv

\* Behind a way out nothing is asked of the static height; br_if keeps it.
LEMMA LeaveHeight ==
    ASSUME HeightInv, Shallow, Shape', Shallow',
           \/ \E n \in 0 .. MaxNesting - 1 : Br(n) \/ BrIf(n)
           \/ Return
           \/ Unreachable
    PROVE  HeightInv'
<1>1. ASSUME NEW i, NEW takes, NEW words, NEW top, WayOut(i, takes, words, top)
      PROVE  HeightInv'
  <2>1. /\ UNCHANGED <<funcs, func, blocks>> /\ height' = Here.height
        /\ ctrl' = [ctrl EXCEPT ![Len(ctrl)].dead = TRUE]
    BY <1>1 DEF WayOut, Emits, Admit
  <2>2. /\ ctrl \in Seq(Opening) /\ Len(ctrl) \in 1 .. Len(ctrl)
        /\ Here = ctrl[Len(ctrl)] /\ Here.height \in Nat
    BY CurrentHeight
  <2> DEFINE e == [ctrl[Len(ctrl)] EXCEPT !.dead = TRUE]
  <2>3. ctrl' = [ctrl EXCEPT ![Len(ctrl)] = e]
    BY <2>1
  <2>4. e.height = ctrl[Len(ctrl)].height /\ e.type = ctrl[Len(ctrl)].type /\ e.dead
    <3>1. ctrl[Len(ctrl)] \in Opening
      BY <2>2
    <3>2. \A r \in Opening : /\ [r EXCEPT !.dead = TRUE].height = r.height
                             /\ [r EXCEPT !.dead = TRUE].type = r.type
                             /\ [r EXCEPT !.dead = TRUE].dead
      BY DEF Opening
    <3> QED BY <3>1, <3>2, Zenon
  <2> HIDE DEF e
  <2>5. /\ Len(ctrl') = Len(ctrl) /\ ctrl'[Len(ctrl)] = e
        /\ \A n \in 1 .. Len(ctrl) : n < Len(ctrl) => ctrl'[n] = ctrl[n]
    BY <2>2, <2>3
  <2>6. \A n \in 1 .. Len(ctrl) :
          ctrl'[n].height = ctrl[n].height /\ ctrl'[n].type = ctrl[n].type
    <3> SUFFICES ASSUME NEW n \in 1 .. Len(ctrl)
                 PROVE  ctrl'[n].height = ctrl[n].height /\ ctrl'[n].type = ctrl[n].type
      OBVIOUS
    <3>1. n = Len(ctrl) \/ n < Len(ctrl)
      BY <2>2
    <3> QED BY <2>4, <2>5, <3>1
  <2>7. \A n \in 1 .. Len(ctrl) : n < Len(ctrl) => ctrl'[n].dead = ctrl[n].dead
    BY <2>5
  <2>8. Here.height <= height'
    BY <2>1, <2>2
  <2>9. Nested'
    BY <2>1, <2>5, <2>6, <2>7, <2>8, EntriesNested
  <2>10. Level'
    <3>1. Len(ctrl) \in DOMAIN ctrl'
      BY <2>2, <2>3
    <3>2. ctrl'[Len(ctrl)].dead
      BY <2>4, <2>5
    <3>3. Dead'
      BY <3>1, <3>2, Zenon DEF Dead
    <3> QED BY <3>3 DEF Level
  <2> QED BY <2>9, <2>10 DEF HeightInv
<1>2. ASSUME NEW n \in 0 .. MaxNesting - 1, Br(n)
      PROVE  HeightInv'
  BY <1>1, <1>2 DEF Br
<1>3. ASSUME NEW n \in 0 .. MaxNesting - 1, BrIf(n)
      PROVE  HeightInv'
  <2> DEFINE k == BranchArity(n)
             d == Above(U16(stack_top - 1), n)
             words == <<Pop(22), Group("test"), Branch("branch_eq", BrIfSkip(d))>>
                        \o Unwind(d) \o <<Jmp(Target(n).label)>>
  <2>1. Translate([op |-> "br_if", n |-> n], 1 + k, k, words, stack_top - 1) /\ Straight
    BY <1>3 DEF BrIf
  <2>2. k \in Nat /\ 1 + k \in Nat
    BY BranchArityIsBit
  <2> HIDE DEF k, words
  <2>3. stack_top - 1 = stack_top - (1 + k) + k
    BY <2>2, CurrentHeight
  <2> QED BY <2>1, <2>2, <2>3, StraightHeight
<1>4. ASSUME Return
      PROVE  HeightInv'
  BY <1>1, <1>4 DEF Return
<1>5. ASSUME Unreachable
      PROVE  HeightInv'
  BY <1>1, <1>5 DEF Unreachable
<1> QED BY <1>2, <1>3, <1>4, <1>5

\* What End_ counts, when it counts anything, is the distance.
LEMMA SurplusIsDistance ==
    \A top \in U16s, low \in 0 .. 255 :
        /\ Int16(U16(top - low)) >= 0 => Int16(U16(top - low)) = top - low
        /\ top >= low /\ top <= 255 => Int16(U16(top - low)) >= 0
<1> SUFFICES ASSUME NEW top \in U16s, NEW low \in 0 .. 255
             PROVE  /\ Int16(U16(top - low)) >= 0 => Int16(U16(top - low)) = top - low
                    /\ top >= low /\ top <= 255 => Int16(U16(top - low)) >= 0
  OBVIOUS
<1>1. top \in Nat /\ top < 65536 /\ low \in Nat /\ low <= 255
  BY SMT DEF U16s
<1>2. CASE top >= low
  <2>1. top - low \in U16s /\ top - low \in Nat
    BY <1>1, <1>2, SMT DEF U16s
  <2>2. U16(top - low) = top - low
    BY <2>1, Remainders
  <2>3. Int16(top - low) >= 0 => Int16(top - low) = top - low
    BY <1>1, <1>2, SMT DEF Int16
  <2>4. top <= 255 => Int16(top - low) >= 0
    BY <1>1, <1>2, SMT DEF Int16
  <2> QED BY <2>2, <2>3, <2>4
<1>3. CASE ~(top >= low)
  <2>1. U16(top - low) = top - low + 65536
    <3>1. (top - low) % 65536 = top - low + 65536
      BY <1>1, <1>3, SMT
    <3> QED BY <3>1 DEF U16
  <2>2. ~(Int16(top - low + 65536) >= 0)
    BY <1>1, <1>3, SMT DEF Int16
  <2> QED BY <1>3, <2>1, <2>2
<1> QED BY <1>2, <1>3

\* The end of a block finds the values above the height it noted and brings
\* stack_top back to it, if what leads to its own end is dead as well as if not.
LEMMA EndBlockHeight ==
    ASSUME HeightInv, Shallow, Shape', Shallow', "dead" \notin Liberties, EndBlock
    PROVE  HeightInv'
<1> DEFINE b == blocks[Len(blocks)]
           pops == [n \in 1 .. Surplus |-> IF n = 1 THEN Pop(22) ELSE Pop(18)]
<1>1. /\ func <= N /\ Len(blocks) \in Nat \ {0} /\ b \in Open(Len(block_pc))
      /\ UNCHANGED <<funcs, func>> /\ Results /\ EndAllowed
      /\ Surplus >= 0 => Len(pops) = Surplus
      /\ stack_top' = U16(stack_top - Len(pops) + Arity(b.type))
      /\ blocks' = Front(blocks) /\ ctrl' = Front(ctrl)
      /\ height' = Here.height + Arity(Here.type)
  BY EndBlockFacts DEF HeightInv
<1> HIDE DEF pops
<1>2. /\ Here = ctrl[Len(ctrl)] /\ Here.height \in Nat /\ stack_top \in Nat /\ height <= 255
      /\ height \in Nat /\ Here.height <= height
  BY CurrentHeight
<1>3. blocks # <<>> /\ Len(blocks) \in 1 .. Len(blocks)
  <2>1. Len(blocks) # 0 /\ Len(blocks) \in 1 .. Len(blocks)
    BY <1>1
  <2> QED BY <2>1
<1>4. /\ ctrl \in Seq(Opening) /\ ctrl # <<>> /\ blocks \in Seq(Open(Len(block_pc)))
      /\ Len(ctrl) \in Nat \ {0} /\ Len(ctrl) = Len(blocks) + 1
  BY HereFacts DEF HeightInv, Shape
<1>5. b.type = Here.type /\ (~DeadPast(Len(ctrl)) => b.stack = Here.height)
  BY <1>2, <1>3, <1>4 DEF HeightInv, Nested
<1>6. /\ b.stack \in 0 .. 255 /\ b.stack \in Nat /\ stack_top \in U16s
      /\ Surplus = Int16(U16(stack_top - b.stack))
  BY <1>1, WidthsAreNat, Zenon DEF HeightInv, Shape, Open, Surplus
<1> HIDE DEF b
<1>7. ASSUME ~DeadPast(Len(ctrl))
      PROVE  Surplus >= 0
  <2>1. CASE Here.dead
    BY <1>1, <1>3, <1>7, <2>1 DEF EndAllowed
  <2>2. CASE ~Here.dead
    <3>1. ~Dead
      <4>1. DOMAIN ctrl = 1 .. Len(ctrl) /\ Len(ctrl) \in Nat
        BY <1>4, SMTT(30)
      <4>2. \A k \in 1 .. Len(ctrl) : k = Len(ctrl) \/ k \in 1 .. Len(ctrl) - 1
        <5>1. \A l \in Nat : \A k \in 1 .. l : k = l \/ k \in 1 .. l - 1
          OBVIOUS
        <5> QED BY ONLY <4>1, <5>1
      <4> QED BY <1>2, <1>7, <2>2, <4>1, <4>2 DEF Dead, DeadPast
    <3>2. stack_top = height
      BY <3>1 DEF HeightInv, Level
    <3>3. stack_top >= b.stack /\ stack_top <= 255
      BY <1>2, <1>5, <1>7, <3>2
    <3> QED BY <1>6, <3>3, SurplusIsDistance
  <2> QED BY <2>1, <2>2
<1>8. ASSUME ~DeadPast(Len(ctrl))
      PROVE  stack_top' = height'
  <2>1. Len(pops) = stack_top - Here.height
    BY <1>1, <1>5, <1>6, <1>7, <1>8, SurplusIsDistance
  <2> DEFINE a == Arity(Here.type)
  <2>2. a \in Nat
    BY ArityIsBit
  <2>3. stack_top' = U16(stack_top - Len(pops) + a) /\ height' = Here.height + a
    BY <1>1, <1>5
  <2> HIDE DEF a
  <2>4. stack_top - Len(pops) + a = height'
    BY <1>2, <2>1, <2>2, <2>3
  <2>5. height' \in Nat /\ height' <= 255
    BY DEF Shape, Shallow
  <2> QED BY <2>3, <2>4, <2>5, ByteIsWord, Remainders
<1>9. Arity(Here.type) \in Nat
  BY ArityIsBit
<1>10. /\ Len(ctrl') = Len(ctrl) - 1 /\ \A n \in 1 .. Len(ctrl) - 1 : ctrl'[n] = ctrl[n]
       /\ Len(blocks') = Len(blocks) - 1 /\ \A n \in 1 .. Len(blocks) - 1 : blocks'[n] = blocks[n]
  BY <1>1, <1>3, <1>4, FrontFacts
<1>11. Nested'
  <2>1. ctrl'[1].height = 0 /\ (~Complete' => ctrl'[1].type = F'.result)
    <3>1. 1 \in 1 .. Len(ctrl) - 1 /\ F' = F /\ (Complete' <=> Complete)
      BY <1>1, <1>4 DEF F, Complete, N
    <3> QED BY <1>10, <3>1 DEF HeightInv, Nested
  <2>2. ASSUME NEW n \in 1 .. Len(blocks')
        PROVE  /\ blocks'[n].type = ctrl'[n + 1].type
               /\ ~DeadPast(n + 1)' => blocks'[n].stack = ctrl'[n + 1].height
    <3>1. n \in 1 .. Len(blocks) - 1 /\ n \in 1 .. Len(blocks) /\ n + 1 \in 1 .. Len(ctrl) - 1
      BY <1>1, <1>4, <1>10
    <3>2. blocks'[n] = blocks[n] /\ ctrl'[n + 1] = ctrl[n + 1]
      BY <1>10, <3>1
    <3>3. DeadPast(n + 1)' <=> DeadPast(n + 1)
      <4>1. \A k \in 1 .. n + 1 - 1 : ctrl'[k] = ctrl[k]
        BY <1>4, <1>10, <3>1
      <4> QED BY <4>1 DEF DeadPast
    <3> QED BY <3>1, <3>2, <3>3 DEF HeightInv, Nested
  <2>3. \A m, n \in 1 .. Len(ctrl') : m <= n => ctrl'[m].height <= ctrl'[n].height
    <3> SUFFICES ASSUME NEW m \in 1 .. Len(ctrl'), NEW n \in 1 .. Len(ctrl'), m <= n
                 PROVE  ctrl'[m].height <= ctrl'[n].height
      OBVIOUS
    <3>1. /\ m \in 1 .. Len(ctrl) - 1 /\ n \in 1 .. Len(ctrl) - 1
          /\ m \in 1 .. Len(ctrl) /\ n \in 1 .. Len(ctrl)
      BY <1>4, <1>10
    <3>2. ctrl[m].height <= ctrl[n].height
      BY <3>1 DEF HeightInv, Nested
    <3> QED BY <1>10, <3>1, <3>2
  <2>4. Here'.height <= height'
    <3>1. Here' = ctrl[Len(ctrl) - 1]
      <4>1. Here' = ctrl'[Len(ctrl')]
        BY DEF Here
      <4>2. Len(ctrl) - 1 \in 1 .. Len(ctrl) - 1
        BY <1>1, <1>4
      <4> QED BY <1>10, <4>1, <4>2
    <3>2. /\ Len(ctrl) - 1 \in 1 .. Len(ctrl) /\ Len(ctrl) \in 1 .. Len(ctrl)
          /\ Len(ctrl) - 1 <= Len(ctrl)
      BY <1>1, <1>4
    <3>3. ctrl[Len(ctrl) - 1].height <= Here.height
      BY <1>2, <3>2 DEF HeightInv, Nested
    <3>4. ctrl[Len(ctrl) - 1].height \in Nat
      <4>1. ctrl[Len(ctrl) - 1] \in Opening
        BY <1>4, <3>2
      <4> QED BY <4>1 DEF Opening
    <3> QED BY <1>1, <1>2, <1>9, <3>1, <3>3, <3>4, SMTT(30)
  <2> QED BY <2>1, <2>2, <2>3, <2>4 DEF Nested
<1>12. Level'
  <2>1. ~Dead' => ~DeadPast(Len(ctrl))
    <3>1. DOMAIN ctrl' = 1 .. Len(ctrl) - 1
      BY <1>1, <1>4, <1>10
    <3> QED BY <1>10, <3>1 DEF Dead, DeadPast
  <2> QED BY <1>8, <2>1 DEF Level
<1> QED BY <1>11, <1>12 DEF HeightInv

\* The body of a function begins with nothing on the operand stack and can be
\* reached.
LEMMA BodyNested ==
    ASSUME funcs \in Shapes, NEW f \in 1 .. N, ctrl = Body(f), blocks = <<>>, height = 0,
           stack_top = 0, ~Complete => f = func
    PROVE  Nested /\ Level
<1>1. /\ Len(ctrl) = 1 /\ ctrl[1].height = 0 /\ ctrl[1].type = funcs[f].result
      /\ Len(blocks) = 0
  BY BodyShape
<1>2. Here.height = 0
  BY <1>1 DEF Here
<1>3. ~Complete => ctrl[1].type = F.result
  BY <1>1 DEF F
<1>4. \A m, n \in 1 .. Len(ctrl) : m <= n => ctrl[m].height <= ctrl[n].height
  <2>1. \A m \in 1 .. Len(ctrl) : m = 1
    BY <1>1
  <2>2. ctrl[1].height <= ctrl[1].height
    BY <1>1
  <2> QED BY <2>1, <2>2
<1>5. \A n \in 1 .. Len(blocks) : FALSE
  BY <1>1
<1>6. Nested
  BY <1>1, <1>2, <1>3, <1>4, <1>5 DEF Nested
<1> QED BY <1>6 DEF Level

\* The end of a function finds its result on the stack and leaves nothing for
\* the next one.
LEMMA EndFunctionTop ==
    ASSUME HeightInv, Shallow, "dead" \notin Liberties, EndFunction
    PROVE  stack_top' = 0
<1>1. /\ func <= N /\ blocks = <<>> /\ Results /\ EndAllowed
      /\ stack_top' = U16(stack_top - Arity(F.result))
  BY DEF EndFunction
<1>2. Len(ctrl) = 1 /\ Here = ctrl[1] /\ Here.height = 0 /\ Here.type = F.result
  <2>1. Len(ctrl) = 1
    <3>1. Len(ctrl) = Len(blocks) + 1 /\ Len(blocks) = 0
      BY <1>1, HereFacts DEF HeightInv
    <3> QED BY <3>1
  <2>2. Here = ctrl[1]
    BY <2>1 DEF Here
  <2>3. ~Complete
    <3>1. func \in Int /\ N \in Int
      BY HereFacts DEF HeightInv, Shape
    <3> QED BY <1>1, <3>1 DEF Complete
  <2> QED BY <2>1, <2>2, <2>3 DEF HeightInv, Nested
<1>3. ~DeadPast(Len(ctrl))
  BY <1>2 DEF DeadPast
<1>4. stack_top = Arity(F.result)
  <2>1. CASE Here.dead
    BY <1>1, <1>3, <2>1 DEF EndAllowed
  <2>2. CASE ~Here.dead
    <3>1. ~Dead
      <4>1. \A k \in DOMAIN ctrl : k = 1
        BY <1>2, CurrentHeight
      <4> QED BY <1>2, <2>2, <4>1 DEF Dead
    <3>2. stack_top = height /\ height \in Nat
      BY <3>1, CurrentHeight DEF HeightInv, Level
    <3>3. height - 0 = Arity(F.result)
      BY <1>1, <1>2, <2>2 DEF Results, Operands
    <3> QED BY <3>2, <3>3
  <2> QED BY <2>1, <2>2
<1>5. stack_top - Arity(F.result) = 0
  BY <1>4, ArityIsBit
<1>6. U16(0) = 0
  <2>1. 0 \in Nat /\ 0 <= 255
    OBVIOUS
  <2> QED BY <2>1, ByteIsWord, Remainders
<1> QED BY <1>1, <1>5, <1>6

\* Nothing is on the stack at the beginning.
LEMMA InitHeight == Init => HeightInv
<1> SUFFICES ASSUME Init
             PROVE  HeightInv
  OBVIOUS
<1>1. /\ funcs \in Shapes /\ func = 1 /\ stack_top = 0 /\ blocks = <<>>
      /\ ctrl = Body(1) /\ height = 0
  BY DEF Init
<1>2. 1 \in 1 .. N
  BY <1>1, FunctionFacts
<1> QED BY <1>1, <1>2, BodyNested, InitShape DEF HeightInv

\* The end of a function keeps the static height.
LEMMA EndFunctionHeight ==
    ASSUME HeightInv, Shallow, Shape', "dead" \notin Liberties, EndFunction
    PROVE  HeightInv'
<1>1. /\ func <= N /\ func' = func + 1
      /\ func < N => ctrl' = Body(func + 1)
      /\ ~(func < N) => ctrl' = Body(func)
      /\ height' = 0 /\ blocks' = <<>> /\ funcs' = funcs
  BY DEF EndFunction
<1>2. N \in Nat \ {0} /\ func \in 1 .. N /\ N' = N /\ funcs \in Shapes
  BY <1>1, HereFacts DEF N, HeightInv, Shape
<1>3. stack_top' = 0
  BY EndFunctionTop
<1>4. PICK f \in 1 .. N : ctrl' = Body(f) /\ (func' <= N => f = func')
  <2>1. CASE func < N
    <3>1. func + 1 \in 1 .. N
      BY <1>2, <2>1
    <3> QED BY <1>1, <2>1, <3>1
  <2>2. CASE ~(func < N)
    <3>1. ~(func + 1 <= N)
      BY <1>2, <2>2
    <3> QED BY <1>1, <1>2, <2>2, <3>1
  <2> QED BY <2>1, <2>2
<1>5. /\ Len(ctrl') = 1 /\ ctrl'[1].height = 0 /\ ctrl'[1].type = funcs[f].result
      /\ Len(blocks') = 0
  BY <1>1, <1>2, <1>4, BodyShape
<1>6. Here'.height = 0
  BY <1>5 DEF Here
<1>7. ~Complete' => ctrl'[1].type = F'.result
  <2>1. ~Complete' => func' <= N
    <3>1. func' \in Int /\ N \in Int
      BY <1>1, <1>2
    <3> QED BY <1>2, <3>1 DEF Complete
  <2> QED BY <1>1, <1>4, <1>5, <2>1 DEF F
<1>8. \A m, n \in 1 .. Len(ctrl') : m <= n => ctrl'[m].height <= ctrl'[n].height
  <2>1. \A m \in 1 .. Len(ctrl') : m = 1
    BY <1>5
  <2>2. ctrl'[1].height <= ctrl'[1].height
    BY <1>5
  <2> QED BY <2>1, <2>2
<1>9. \A n \in 1 .. Len(blocks') : FALSE
  BY <1>5
<1>10. Nested'
  BY <1>1, <1>5, <1>6, <1>7, <1>8, <1>9 DEF Nested
<1>11. Level'
  BY <1>1, <1>3 DEF Level
<1> QED BY <1>10, <1>11 DEF HeightInv

\* Every step keeps the static height.
LEMMA NextHeight ==
    ASSUME "dead" \notin Liberties
    PROVE  HeightInv /\ Shallow /\ Shallow' /\ [Next]_vars => HeightInv'
<1> SUFFICES ASSUME HeightInv, Shallow, Shallow', [Next]_vars
             PROVE  HeightInv'
  OBVIOUS
<1>1. Shape'
  BY NextShape DEF HeightInv
<1>2. CASE (\E v \in 0 .. Modulus - 1 : Const(v)) \/ Drop \/ Sub \/ Eqz \/ Select \/ Nop
  BY <1>1, <1>2, ComputeHeight
<1>3. CASE \E i \in LocalIndex : LocalGet(i) \/ \E op \in {"set", "tee"} : LocalStore(op, i)
  BY <1>1, <1>3, LocalHeight
<1>4. CASE \E f \in 1 - Len(Imports) .. N - 1 : Call(f)
  BY <1>1, <1>4, CallHeight
<1>5. CASE \E op \in {"block", "loop"}, t \in Types : Block(op, t)
  BY <1>1, <1>5, BlockHeight
<1>6. CASE EndBlock
  BY <1>1, <1>6, EndBlockHeight
<1>7. CASE EndFunction
  BY <1>1, <1>7, EndFunctionHeight
<1>8. CASE \/ \E n \in 0 .. MaxNesting - 1 : Br(n) \/ BrIf(n)
           \/ Return
           \/ Unreachable
  BY <1>1, <1>8, LeaveHeight
<1>9. CASE UNCHANGED vars
  <2>1. UNCHANGED <<funcs, func, stack_top, blocks, ctrl, height>>
    BY <1>9 DEF vars
  <2> QED BY <1>1, <2>1 DEF HeightInv, Nested, Level, Here, F, N, Complete, Dead, DeadPast
<1> QED BY <1>2, <1>3, <1>4, <1>5, <1>6, <1>7, <1>8, <1>9 DEF Next, Types

\* The invariant contains the property, and no open block is above the operands.
LEMMA HeightIsKnown == HeightInv => StackTopIsHeight /\ BalancedBlocks
<1> SUFFICES ASSUME HeightInv
             PROVE  StackTopIsHeight /\ BalancedBlocks
  OBVIOUS
<1>1. DOMAIN blocks = 1 .. Len(blocks)
  BY DEF HeightInv, Shape
<1>2. StackTopIsHeight
  BY <1>1 DEF HeightInv, Nested, Level, StackTopIsHeight
<1>3. ASSUME ~Dead, NEW n \in DOMAIN blocks
      PROVE  stack_top >= blocks[n].stack
  <2>1. /\ Len(blocks) \in Nat /\ Len(ctrl) \in Nat \ {0} /\ Here.height \in Nat
        /\ Len(ctrl) = Len(blocks) + 1 /\ ctrl \in Seq(Opening)
    BY HereFacts DEF HeightInv, Shape
  <2>2. /\ n \in 1 .. Len(blocks) /\ n + 1 \in 1 .. Len(ctrl) /\ Len(ctrl) \in 1 .. Len(ctrl)
        /\ n + 1 <= Len(ctrl)
    BY <1>1, <2>1
  <2>3. ctrl[n + 1].height <= Here.height
    BY <2>2 DEF HeightInv, Nested, Here
  <2>4. ctrl[n + 1].height \in Nat
    <3>1. ctrl[n + 1] \in Opening
      BY <2>1, <2>2
    <3> QED BY <3>1 DEF Opening
  <2>5. Here.height <= height /\ stack_top = height /\ height \in Nat
    BY <1>3 DEF HeightInv, Nested, Level, Shape
  <2>6. blocks[n].stack = ctrl[n + 1].height
    <3>1. \A k \in 1 .. (n + 1) - 1 : k \in DOMAIN ctrl
      BY <2>1, <2>2
    <3>2. ~DeadPast(n + 1)
      <4>1. \A k \in DOMAIN ctrl : ~ctrl[k].dead
        BY <1>3, Zenon DEF Dead
      <4>2. \A k \in 1 .. (n + 1) - 1 : ~ctrl[k].dead
        BY ONLY <3>1, <4>1, Zenon
      <4> QED BY ONLY <4>2, Zenon DEF DeadPast
    <3> QED BY <2>2, <3>2 DEF HeightInv, Nested
  <2> QED BY <2>1, <2>3, <2>4, <2>5, <2>6
<1> QED BY <1>2, <1>3 DEF BalancedBlocks

\* For every module and every program, code that cannot be reached included,
\* ts.stack_top is the height of the operand stack wherever the code can be
\* reached, and each block that is opened there has noted the height it began at
\* (all cases of emit_single_instruction).  Two things are asked of the program:
\* the operand stack is never deeper than the u8 of block_stack can count, and,
\* by EndAllowed, where an end leads from dead code back to reachable code, the
\* dead code has not taken stack_top below the height that End_ restores, nor,
\* at the end of a function, left anything there but the result.  No more is
\* asked of the dead code itself.
THEOREM HeightIsExact ==
    ASSUME "dead" \notin Liberties
    PROVE  Spec /\ []Shallow => []StackTopIsHeight
<1>1. Spec /\ []Shallow => []HeightInv
  BY InitHeight, NextHeight, PTL DEF Spec
<1> QED BY <1>1, HeightIsKnown, PTL

\* Under the same two conditions the assertion "stack not balanced!" of BrIf
\* holds at every place of the code that can be reached.
THEOREM BlocksAreBalanced ==
    ASSUME "dead" \notin Liberties
    PROVE  Spec /\ []Shallow => []BalancedBlocks
<1>1. Spec /\ []Shallow => []HeightInv
  BY InitHeight, NextHeight, PTL DEF Spec
<1> QED BY <1>1, HeightIsKnown, PTL
=============================================================================
