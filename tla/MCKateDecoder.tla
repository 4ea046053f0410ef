--------------------------- MODULE MCKateDecoder ---------------------------
(* An instance of KateDecoderList for TLC.                                   *)
EXTENDS KateDecoderList

(* Events of three ids and of none, at any of four granules, and a keepalive.*)
MCPackets ==
  {p \in [first : {"text", "repeat", "keepalive"}, clean : BOOLEAN,
          id : {-1, 0, 1, 2}, start : 0 .. 3, end : 0 .. 3] : p.start <= p.end}
=============================================================================
