--------------------------- MODULE MCKateConvert ---------------------------
(* An instance of KateConvert for TLC.                                       *)
EXTENDS KateConvert, Bitwise

MCBitOr(a, b) == a | b

(* Events that overlap, one without duration, and one that ends too soon.    *)
MCCueTimes == {<<0, 3>>, <<1, 2>>, <<3, 3>>, <<2, 1>>}

MCLines == [srt |-> 7, lrc |-> 4]
=============================================================================
