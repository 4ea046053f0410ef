--------------------------- MODULE MCKateHeaders ---------------------------
(* Streams of this version, and of a later one with one more header.         *)
EXTENDS KateHeaders

NineOrTen == {9, 10}
AllButId == 1 .. 9
All == 0 .. 9
Nothing == {}
=============================================================================
