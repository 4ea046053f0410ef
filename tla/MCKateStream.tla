---------------------------- MODULE MCKateStream ----------------------------
(* Instances of KateStream for TLC.                                          *)
EXTENDS KateStream, Bitwise

(* The C operator | on the small integers of an instance.                    *)
MCBitOr(a, b) == a | b
=============================================================================
