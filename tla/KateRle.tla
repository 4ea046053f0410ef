------------------------------ MODULE KateRle ------------------------------
(***************************************************************************)
(* The compression of paletted bitmaps (kate_rle.c).  A bitmap is coded    *)
(* line by line, each line by the shortest of seven codings.  RunBits      *)
(* gives the widths of the run lengths: the macros of kate_rle.c, small in *)
(* the runs so that short lines meet every limit.                          *)
(***************************************************************************)
EXTENDS KateFields

CONSTANT RunBits   (* [basic, zero, nonZero, startEnd, start, end, stop,     *)
                   (*  stopStart, delta, basicInDelta, deltaStop,            *)
                   (*  basicInDeltaStop -> Nat \ {0}]                        *)

Drop(v, n) == SubSeq(v, n + 1, Len(v))

(* The longest run of at most max pixels that P holds of, from lo on: the    *)
(* first lo pixels are taken without a look.                                 *)
LongestRun(v, lo, max, P(_)) ==
  LET limit == Min({max, Len(v)})
  IN Max({lo} \cup {r \in lo .. limit : \A i \in lo + 1 .. r : P(i)})

SameRun(v, max) == LongestRun(v, 1, max, LAMBDA i: v[i] = v[1])
CopyRun(v, prev, zero, max) ==
  LongestRun(v, 0, max, LAMBDA i: v[i] = (IF prev = <<>> THEN zero ELSE prev[i]))
ZeroRun(v, zero, max) == LongestRun(v, 1, max, LAMBDA i: v[i] = zero)
ZeroRunBack(v, zero, max) ==
  LongestRun(v, 0, max, LAMBDA i: v[Len(v) + 1 - i] = zero)

AllZero(v, zero) == \A i \in DOMAIN v : v[i] = zero

-----------------------------------------------------------------------------
(* The codings of a line v of pixels of the given width, after line prev.    *)

RECURSIVE EncRuns(_, _, _)
EncRuns(v, w, bits) ==
  IF v = <<>> THEN <<>>
  ELSE LET r == SameRun(v, 2^w)
       IN U(w, r - 1) \o U(bits, v[1]) \o EncRuns(Drop(v, r), w, bits)

RECURSIVE EncBasicZero(_, _, _)
EncBasicZero(v, zero, bits) ==
  IF v = <<>> THEN <<>>
  ELSE LET w == IF v[1] = zero THEN RunBits.zero ELSE RunBits.nonZero
           r == SameRun(v, 2^w)
       IN U(bits, v[1]) \o U(w, r - 1) \o EncBasicZero(Drop(v, r), zero, bits)

EncStartEnd(v, zero, bits) ==
  LET s == ZeroRun(v, zero, 2^RunBits.start - 1)
      rest == Drop(v, s)
      e == ZeroRunBack(rest, zero, 2^RunBits.end - 1)
  IN U(RunBits.start, s) \o U(RunBits.end, e)
     \o EncRuns(SubSeq(rest, 1, Len(rest) - e), RunBits.startEnd, bits)

RECURSIVE EncToStop(_, _, _)
EncToStop(v, zero, bits) ==
  IF v = <<>> THEN <<>>
  ELSE IF AllZero(v, zero) THEN U(RunBits.stop, 0)
  ELSE LET r == SameRun(v, 2^RunBits.stop - 1)
       IN U(RunBits.stop, r) \o U(bits, v[1])
          \o EncToStop(Drop(v, r), zero, bits)

EncStop(v, zero, bits) ==
  LET s == ZeroRun(v, zero, 2^RunBits.stopStart - 1)
  IN U(RunBits.stopStart, s) \o EncToStop(Drop(v, s), zero, bits)

RECURSIVE EncDelta(_, _, _, _)
EncDelta(v, prev, zero, bits) ==
  LET d == CopyRun(v, prev, zero, 2^RunBits.delta)
      b == SameRun(v, 2^RunBits.basicInDelta)
  IN IF v = <<>> THEN <<>>
     ELSE IF d > b
     THEN U(1, 1) \o U(RunBits.delta, d - 1)
          \o EncDelta(Drop(v, d), Drop(prev, d), zero, bits)
     ELSE U(1, 0) \o U(RunBits.basicInDelta, b - 1) \o U(bits, v[1])
          \o EncDelta(Drop(v, b), Drop(prev, b), zero, bits)

RECURSIVE EncDeltaStop(_, _, _, _)
EncDeltaStop(v, prev, zero, bits) ==
  LET d == CopyRun(v, prev, zero, 2^RunBits.deltaStop)
      b == SameRun(v, 2^RunBits.basicInDeltaStop - 1)
  IN IF v = <<>> THEN <<>>
     ELSE IF AllZero(v, zero) THEN U(1, 0) \o U(RunBits.basicInDeltaStop, 0)
     ELSE IF d > b
     THEN U(1, 1) \o U(RunBits.deltaStop, d - 1)
          \o EncDeltaStop(Drop(v, d), Drop(prev, d), zero, bits)
     ELSE U(1, 0) \o U(RunBits.basicInDeltaStop, b) \o U(bits, v[1])
          \o EncDeltaStop(Drop(v, b), Drop(prev, b), zero, bits)

(* Coding 0 is refused for a line that is not of the zero colour: of its     *)
(* pixels but the first, which get_run_length_zero takes without a look.     *)
EmptyFits(v, zero) == ZeroRun(v, zero, Len(v)) = Len(v)

(* kate_rle_try_encoding, over the codings in the order they are tried.      *)
Codings(v, prev, zero, bits) ==
  (IF EmptyFits(v, zero) THEN << <<0, <<>> >> >> ELSE <<>>)
  \o << <<2, EncDelta(v, prev, zero, bits)>>,
        <<1, EncRuns(v, RunBits.basic, bits)>>,
        <<4, EncStartEnd(v, zero, bits)>>,
        <<3, EncStop(v, zero, bits)>>,
        <<5, EncDeltaStop(v, prev, zero, bits)>>,
        <<6, EncBasicZero(v, zero, bits)>> >>

Shortest(codings) ==
  FoldLeft(LAMBDA best, c: IF BitsOf(c[2]) < BitsOf(best[2]) THEN c ELSE best,
           Head(codings), Tail(codings))

(* get_zero: the most frequent colour, the lowest of them.                   *)
ZeroOf(image) ==
  LET Count(c) == Cardinality({x \in (DOMAIN image) \X (DOMAIN image[1]) :
                                 image[x[1]][x[2]] = c})
      colours == {image[i][j] : i \in DOMAIN image, j \in DOMAIN image[1]}
  IN Min({c \in colours : \A d \in colours : Count(d) <= Count(c)})

RleEncode(image, bits) ==
  LET zero == ZeroOf(image)
      Line(i) == LET prev == IF i = 1 THEN <<>> ELSE image[i - 1]
                     best == Shortest(Codings(image[i], prev, zero, bits))
                 IN U(3, best[1]) \o best[2]
  IN U(bits, zero) \o Each(Line, [i \in DOMAIN image |-> i])

-----------------------------------------------------------------------------
(* Reading count pixels back.  A run that is longer than what is left of the *)
(* line is refused.                                                          *)

Pixels(n, v) == [i \in 1 .. n |-> v % 256]
More(run, r) == IF r.ok THEN [r EXCEPT !.v = run \o @] ELSE r
Line0(p) == [ok |-> TRUE, v |-> <<>>, p |-> p]

(* Where a decoder is that reads runs of no pixels for ever.                 *)
Spinning == << <<0, -2>> >>

(* Runs up to count pixels; past says what a read past the end comes to.     *)
RECURSIVE DecRuns(_, _, _, _, _)
DecRuns(count, w, bits, past, p) ==
  LET n == Get(w, p)
      c == Get(bits, n.p)
      r == n.v + 1
  IN IF count = 0 THEN Line0(p)
     ELSE IF r = 0 THEN Failed(past)
     ELSE IF r > count THEN Failed(n.p)
     ELSE More(Pixels(r, c.v), DecRuns(count - r, w, bits, past, c.p))

RECURSIVE DecBasicZero(_, _, _, _)
DecBasicZero(count, zero, bits, p) ==
  LET c == Get(bits, p)
      n == Get(IF c.v = zero THEN RunBits.zero ELSE RunBits.nonZero, c.p)
      r == n.v + 1
  IN IF count = 0 THEN Line0(p)
     ELSE IF r = 0 \/ r > count THEN Failed(n.p)
     ELSE More(Pixels(r, c.v), DecBasicZero(count - r, zero, bits, n.p))

(* kate_rle_decode_line_basic_startend tests run_length_bits for zero where  *)
(* its siblings test run_length: past the end, its loop has no end.          *)
StartEndPast == Spinning

DecStartEnd(count, zero, bits, p) ==
  LET s == Get(RunBits.start, p)
      e == Get(RunBits.end, s.p)
      middle == DecRuns(count - s.v - e.v, RunBits.startEnd, bits, StartEndPast,
                        e.p)
  IN IF s.v \notin 0 .. count \/ e.v \notin 0 .. count - s.v THEN Failed(e.p)
     ELSE More(Pixels(s.v, zero),
               IF middle.ok THEN [middle EXCEPT !.v = @ \o Pixels(e.v, zero)]
               ELSE middle)

RECURSIVE DecToStop(_, _, _, _)
DecToStop(count, zero, bits, p) ==
  LET n == Get(RunBits.stop, p)
      c == Get(bits, n.p)
  IN IF count = 0 THEN Line0(p)
     ELSE IF n.v \notin 0 .. count THEN Failed(n.p)
     ELSE IF n.v = 0 THEN More(Pixels(count, zero), Line0(n.p))
     ELSE More(Pixels(n.v, c.v), DecToStop(count - n.v, zero, bits, c.p))

DecStop(count, zero, bits, p) ==
  LET s == Get(RunBits.stopStart, p)
  IN IF s.v \notin 0 .. count THEN Failed(s.p)
     ELSE More(Pixels(s.v, zero), DecToStop(count - s.v, zero, bits, s.p))

(* The next n pixels of the line above, or of the zero colour if none.       *)
Above(n, prev, zero) == IF prev = <<>> THEN Pixels(n, zero) ELSE SubSeq(prev, 1, n)

RECURSIVE DecDelta(_, _, _, _, _)
DecDelta(count, prev, zero, bits, p) ==
  LET type == Get(1, p)
      n == Get(IF type.v # 0 THEN RunBits.delta ELSE RunBits.basicInDelta, type.p)
      c == Get(bits, n.p)
      r == n.v + 1
      Rest(q) == DecDelta(count - r, Drop(prev, r), zero, bits, q)
  IN IF count = 0 THEN Line0(p)
     ELSE IF r = 0 \/ r > count THEN Failed(n.p)
     ELSE IF type.v # 0 THEN More(Above(r, prev, zero), Rest(n.p))
     ELSE More(Pixels(r, c.v), Rest(c.p))

RECURSIVE DecDeltaStop(_, _, _, _, _)
DecDeltaStop(count, prev, zero, bits, p) ==
  LET type == Get(1, p)
      n == Get(IF type.v # 0 THEN RunBits.deltaStop ELSE RunBits.basicInDeltaStop,
               type.p)
      c == Get(bits, n.p)
      r == IF type.v # 0 THEN n.v + 1 ELSE n.v
      Rest(q) == DecDeltaStop(count - r, Drop(prev, r), zero, bits, q)
  IN IF count = 0 THEN Line0(p)
     ELSE IF type.v = 0 /\ r = 0 THEN More(Pixels(count, zero), Line0(n.p))
     ELSE IF r \notin 1 .. count THEN Failed(n.p)
     ELSE IF type.v # 0 THEN More(Above(r, prev, zero), Rest(n.p))
     ELSE More(Pixels(r, c.v), Rest(c.p))

DecLine(type, count, prev, zero, bits, p) ==
  CASE type = 0 -> More(Pixels(count, zero), Line0(p))
    [] type = 1 -> DecRuns(count, RunBits.basic, bits, Past, p)
    [] type = 2 -> DecDelta(count, prev, zero, bits, p)
    [] type = 3 -> DecStop(count, zero, bits, p)
    [] type = 4 -> DecStartEnd(count, zero, bits, p)
    [] type = 5 -> DecDeltaStop(count, prev, zero, bits, p)
    [] type = 6 -> DecBasicZero(count, zero, bits, p)
    [] OTHER -> Failed(p)

RleDecode(width, height, bits, p) ==
  LET zero == Get(bits, p)
  IN FoldLeft(LAMBDA a, i:
                LET type == Get(3, a.p)
                    prev == IF i = 1 THEN <<>> ELSE Last(a.v)
                    r == DecLine(type.v, width, prev, zero.v % 256, bits, type.p)
                IN IF ~a.ok THEN a
                   ELSE IF ~r.ok THEN Failed(r.p)
                   ELSE [ok |-> TRUE, v |-> Append(a.v, r.v), p |-> r.p],
              Line0(zero.p), [i \in 1 .. height |-> i])
=============================================================================
