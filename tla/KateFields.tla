----------------------------- MODULE KateFields -----------------------------
(***************************************************************************)
(* What the codec writes to a pack buffer, and reads back: a packet is the *)
(* sequence of the fields written to it, a field its width in bits and its *)
(* value.  A parser takes a packet and returns [ok, v, p]: whether it      *)
(* succeeded, what it read, and what is left of the packet.                *)
(*                                                                         *)
(* A read past the end returns -1 and leaves the buffer past its end for   *)
(* good; so does, here, a read that is not of the width that was written.  *)
(* This module is evaluated by TLC only: its recursion is over packets.    *)
(***************************************************************************)
EXTENDS Integers, Sequences, SequencesExt, FiniteSetsExt

-----------------------------------------------------------------------------
(* Fixed widths, and buffers of bytes.                                       *)

(* kate_pack_write: the low w bits of v.  A field of 31 bits and more keeps  *)
(* its value: it is wider than what the runs put into it.                    *)
U(w, v) == << <<w, IF w < 31 THEN v % 2^w ELSE v>> >>

Past == << <<0, -1>> >>

Get(w, p) ==
  IF p # <<>> /\ p[1][1] = w /\ p # Past
  THEN [ok |-> TRUE, v |-> p[1][2], p |-> Tail(p)]
  ELSE [ok |-> TRUE, v |-> -1, p |-> Past]

(* kate_writebuf and kate_readbuf: a buffer too short is refused, unread.    *)
Buf(s) == IF s = <<>> THEN <<>> ELSE << <<8 * Len(s), s>> >>

GetBuf(n, p) ==
  IF n = 0 THEN [ok |-> TRUE, v |-> <<>>, p |-> p]
  ELSE IF n > 0 /\ p # <<>> /\ p # Past /\ p[1][1] = 8 * n
  THEN [ok |-> TRUE, v |-> p[1][2], p |-> Tail(p)]
  ELSE [ok |-> FALSE, v |-> <<>>, p |-> p]

Failed(p) == [ok |-> FALSE, v |-> <<>>, p |-> p]

BitsOf(p) == FoldLeft(LAMBDA n, f: n + f[1], 0, p)

-----------------------------------------------------------------------------
(* kate_write32v and kate_read32v: four bits up to 14, else a sign, a length *)
(* and that many bits.                                                       *)

(* A slip: one bit too few for a power of two.                               *)
BitLengthLess(n) == Min({b \in 1 .. 31 : b = 31 \/ n <= 2^b})

BitLength(n) == Min({b \in 1 .. 31 : b = 31 \/ n < 2^b})

V(v) ==
  IF v \in 0 .. 14 THEN U(4, v)
  ELSE LET magnitude == IF v < 0 THEN -v ELSE v
           bits == BitLength(magnitude)
       IN U(4, 15) \o U(1, IF v < 0 THEN 1 ELSE 0)
          \o U(5, bits - 1) \o U(bits, magnitude)

(* A number cut after its first four bits is read as 1 or -1, not as an      *)
(* error: the sign read past the end counts as set.                          *)
GetMagnitude(p, sign) ==
  LET bits == Get(5, p)
      v == Get(bits.v + 1, bits.p)
  IN [v EXCEPT !.v = IF sign # 0 THEN -@ ELSE @]
GetSigned(sign) == GetMagnitude(sign.p, sign.v)
GetLong(small) == IF small.v # 15 THEN small ELSE GetSigned(Get(1, small.p))
GetV(p) == GetLong(Get(4, p))

-----------------------------------------------------------------------------
(* Warps: a size in bits, and what a reader that does not know it may skip.  *)

Warp(p) == V(BitsOf(p)) \o p

NoWarp == V(0)

RECURSIVE Skip(_, _)
Skip(bits, p) ==
  IF bits <= 0 THEN p
  ELSE IF p = <<>> \/ p = Past THEN Past
  ELSE Skip(bits - p[1][1], Tail(p))

(* A slip: a size that could not be read ends the warps.                     *)
RECURSIVE SkipWarpsLax(_)
SkipWarpsLax(p) ==
  LET size == GetV(p)
  IN IF size.v <= 0 THEN [ok |-> TRUE, v |-> <<>>, p |-> size.p]
     ELSE SkipWarpsLax(Skip(size.v, size.p))

RECURSIVE SkipWarps(_)
SkipWarps(p) ==
  LET size == GetV(p)
  IN IF size.v = 0 THEN [ok |-> TRUE, v |-> <<>>, p |-> size.p]
     ELSE IF size.v < 0 THEN Failed(size.p)
     ELSE SkipWarps(Skip(size.v, size.p))

(* kate_check_eop, after the padding of the last byte.                       *)
AtEnd(p) == p = <<>>

-----------------------------------------------------------------------------
(* Several fields in a row: Nums reads fields of the widths given, 0 for a   *)
(* number of variable length; Many applies a parser n times, as the loops of *)
(* the header decoders do, and stops at a failure or past the end.           *)

Nums(widths, p) ==
  FoldLeft(LAMBDA a, w:
             LET f == IF w = 0 THEN GetV(a.p) ELSE Get(w, a.p)
             IN [ok |-> TRUE, v |-> Append(a.v, f.v), p |-> f.p],
           [ok |-> TRUE, v |-> <<>>, p |-> p], widths)

Many(n, Parse(_), p) ==
  FoldLeft(LAMBDA a, i:
             IF ~a.ok THEN a
             ELSE LET r == Parse(a.p)
                  IN IF r.ok /\ r.p # Past
                     THEN [ok |-> TRUE, v |-> Append(a.v, r.v), p |-> r.p]
                     ELSE Failed(r.p),
           [ok |-> TRUE, v |-> <<>>, p |-> p], [i \in 1 .. n |-> i])

(* The encodings of a sequence of things, one after the other.               *)
Each(Encode(_), things) ==
  FlattenSeq([i \in DOMAIN things |-> Encode(things[i])])
=============================================================================
