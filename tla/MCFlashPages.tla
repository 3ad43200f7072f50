---------------------------- MODULE MCFlashPages ----------------------------
(* A small flash: pages of two cells, a code space of two and a half pages  *)
(* that begins in the middle of a page the host program ends in.            *)
EXTENDS FlashPages

Blank == [a \in Addr |-> IF a < CodeStart THEN "word" ELSE Erased]

MCInit == Init /\ flash = Blank
MCSpec == MCInit /\ [][Next]_vars /\ WF_vars(Step)
=============================================================================
