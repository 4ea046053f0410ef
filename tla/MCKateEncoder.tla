--------------------------- MODULE MCKateEncoder ---------------------------
(* Instances of KateEncoder for TLC.                                         *)
EXTENDS KateEncoder, Bitwise

(* The C operator | on the small integers of an instance.                    *)
MCBitOr(a, b) == a | b
=============================================================================
