--------------------------- MODULE MCCodeEmitter ---------------------------
(* Values of two registers, so pairs of four words, in a buffer of ten.     *)
EXTENDS CodeEmitter
=============================================================================
