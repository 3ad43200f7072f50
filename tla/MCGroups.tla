------------------------------ MODULE MCGroups ------------------------------
(* Functions that bring the instructions together with the operands that are *)
(* hard for them: either sign, a carry and a borrow through every byte, the  *)
(* ends of the range; small frames, and frames out of the reach of LDD and    *)
(* SBIW.                                                                    *)
EXTENDS Groups

Smallest == -2147483647 - 1
Numbers  == {0, 1, 2, -1, 128, 256, -65536, 2147483647, Smallest, 305419896}

Pairwise == {"i32.const", "compare", "i32.add", "i32.sub", "i32.and", "i32.or", "i32.xor",
             "i32.mul", "i32.div"}
OneByOne == {"i32.const", "i32.eqz", "i32.clz", "drop", "i32.add"}

Function(args, n, size, ops, values) ==
    [args |-> args, locals |-> n, result |-> TRUE, entry |-> FALSE, globals |-> 0,
     size |-> size, ops |-> ops, values |-> values, wides |-> {}, offsets |-> {}]

Accesses == {"i32.const", "i32.load", "i32.store"}
Variables == {"i32.const", "local.get", "local.set", "local.tee", "return"}

\* The first four compute, two with their operands on the stack alone and two
\* with them in parameters; then memory, frames and the entry function.
SomeFunctions ==
    { Function(<<>>, 0, 3, Pairwise, Numbers),
      Function(<<>>, 0, 3, OneByOne, Numbers \cup {65536, 8388608, -305419896}),
      Function(<<>>, 0, 4, {"i32.const", "select", "drop"}, {0, -1, 256}),
      Function(<<>>, 0, 3, {"i32.const", "i32.shl", "i32.shr_u", "i32.shr_s"},
               {0, 1, 7, 8, 31, -2, Smallest, 305419896}),
      [Function(<<>>, 0, 3, Accesses, {0, 127, 4096, -2}) EXCEPT !.offsets = {0, 300}],
      [Function(<<>>, 1, 3, Accesses \cup {"i64.const", "i64.store", "global.get"}, {0, 40})
          EXCEPT !.offsets = {3, 30}, !.wides = {<<-2, 1>>, <<1, Smallest>>}, !.globals = 1,
                 !.result = FALSE, !.entry = TRUE],
      Function(<<7, -8>>, 1, 4, Variables, {-2}),
      Function(<<7, -8>>, 15, 3, Variables, {-2}),
      [Function(<<>>, 17, 2, Variables, {-2}) EXCEPT !.entry = TRUE],
      Function(<<305419896>>, 30, 3, {"i32.const", "local.get", "local.set"}, {-2}),
      [Function(<<>>, 1, 3, {"i32.const", "global.get", "global.set"}, {-2})
          EXCEPT !.globals = 18] }

\* Bytes of either sign at every second address.
SomeBytes(a) == (a * 37 + 128 * (a % 2)) % 256
=============================================================================
