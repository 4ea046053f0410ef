------------------------------ MODULE KateText ------------------------------
(***************************************************************************)
(* Text and numbers: UTF-8 (kate_text.c), the removal of markup, the       *)
(* fixed point values (kate_fp.c) and the canvas sizes of the ID header.   *)
(* A build without ENABLE_CODE_POINTS_ABOVE_0x10ffff.                      *)
(***************************************************************************)
EXTENDS KateFields

CONSTANT FpBits    (* the width of a kate_fp: 32 in libkate, 16 in the runs, *)
                   (* whose integers have 32 bits                            *)

-----------------------------------------------------------------------------
(* UTF-8.                                                                    *)

ValidCodePoint(c) == c \in 0 .. 1114111 /\ c \notin 55296 .. 57343
                     /\ c \notin {65534, 65535}

(* kate_text_utf8_write: the bytes of a code point, none for an invalid one. *)
Utf8(c) ==
  LET Continue(n) == 128 + ((c \div 64^n) % 64)
  IN CASE ~ValidCodePoint(c) -> <<>>
       [] c <= 127 -> <<c>>
       [] c \in 128 .. 2047 -> <<192 + (c \div 64), Continue(0)>>
       [] c \in 2048 .. 65535 -> <<224 + (c \div 64^2), Continue(1), Continue(0)>>
       [] OTHER -> <<240 + (c \div 64^3), Continue(2), Continue(1), Continue(0)>>

(* kate_text_utf8_read: [n, c], the bytes read and the code point; n = 0 is  *)
(* KATE_E_TEXT.  A text is followed by a NUL.                                *)
Utf8Read(s) ==
  LET Byte(i) == IF i <= Len(s) THEN s[i] ELSE 0
      bytes == CASE Byte(1) < 128 -> 1
                 [] Byte(1) \in 192 .. 223 -> 2
                 [] Byte(1) \in 224 .. 239 -> 3
                 [] Byte(1) \in 240 .. 247 -> 4
                 [] OTHER -> 0
      lead == <<Byte(1), Byte(1) % 32, Byte(1) % 16, Byte(1) % 8>>
      floor == <<-1, 127, 2047, 65535>>
      c == FoldLeft(LAMBDA a, i: a * 64 + (Byte(i) % 64), lead[bytes],
                    [i \in 1 .. bytes - 1 |-> i + 1])
  IN IF bytes # 0 /\ (\A i \in 2 .. bytes : Byte(i) \in 128 .. 191)
        /\ c > floor[bytes]
     THEN [n |-> bytes, c |-> c] ELSE [n |-> 0, c |-> 0]

(* kate_text_get_character: the code points up to the first NUL or error,    *)
(* as kate_tracker_init counts glyphs.                                       *)
RECURSIVE Glyphs(_)
Glyphs(s) ==
  LET r == Utf8Read(s)
  IN IF s = <<>> \/ r.n = 0 \/ r.n > Len(s) \/ r.c = 0 THEN <<>>
     ELSE <<r.c>> \o Glyphs(SubSeq(s, r.n + 1, Len(s)))

RECURSIVE TextValidate(_)
TextValidate(s) ==
  \/ s = <<>>
  \/ LET r == Utf8Read(s)
     IN /\ r.n # 0 /\ ValidCodePoint(r.c) /\ r.n <= Len(s)
        /\ TextValidate(SubSeq(s, r.n + 1, Len(s)))

-----------------------------------------------------------------------------
(* kate_text_remove_markup, over code points: what is kept of a text, up to *)
(* its first NUL, and the size it leaves in len0, which does not count a NUL.*)

Lt == 60
Gt == 62
Newline == 10
Br == <<98, 114, Gt>>

BeforeNul(s) ==
  IF 0 \in ToSet(s) THEN SubSeq(s, 1, Min({i \in DOMAIN s : s[i] = 0}) - 1) ELSE s

HasAt(s, i, w) == i + Len(w) - 1 <= Len(s) /\ SubSeq(s, i, i + Len(w) - 1) = w

(* A slip: within a tag or not, whatever tags are open.                      *)
KeptTextFlat(s) ==
  LET Step(a, i) ==
        LET depth == IF s[i] = Lt THEN 1 ELSE a.depth
            br == s[i] = Lt /\ HasAt(s, i + 1, Br)
        IN [depth |-> IF s[i] = Gt THEN 0 ELSE depth,
            text |-> a.text \o (IF br THEN <<Newline>> ELSE <<>>)
                     \o (IF depth = 0 THEN <<s[i]>> ELSE <<>>)]
  IN FoldLeftDomain(Step, [depth |-> 0, text |-> <<>>], s).text

KeptText(s) ==
  LET Step(a, i) ==
        LET depth == IF s[i] = Lt THEN a.depth + 1 ELSE a.depth
            br == s[i] = Lt /\ HasAt(s, i + 1, Br)
            kept == depth = 0
        IN [depth |-> IF s[i] = Gt THEN depth - 1 ELSE depth,
            text |-> a.text \o (IF br THEN <<Newline>> ELSE <<>>)
                     \o (IF kept THEN <<s[i]>> ELSE <<>>)]
  IN FoldLeftDomain(Step, [depth |-> 0, text |-> <<>>], s).text

RemoveMarkup(s) ==
  LET kept == KeptText(BeforeNul(s)) IN [text |-> kept, len0 |-> Len(kept)]

-----------------------------------------------------------------------------
(* Fixed point.  Numbers are in sixteenths, and a kate_fp counts halves:     *)
(* FLOAT_SCALE is 2 here, 2^16 in libkate.  f2kfp converts as C does,        *)
(* towards zero, and kfp2f is its reverse.                                   *)

Towards0(n, d) == IF n < 0 THEN -((-n) \div d) ELSE n \div d

ToFixed(x) ==
  IF Towards0(x, 4) % 2 = 1 THEN Towards0(x + 4, 8) ELSE Towards0(x, 8)

(* kate_fp_scan: the high and low bits that are zero in every value, as many *)
(* as the four bits of their fields can say.                                 *)
FpCut == FpBits \div 2 - 1
FpCutBits == BitLength(FpCut)

Magnitude(v) == IF v < 0 THEN -v ELSE v
FpHead(values) ==
  Min({FpCut} \cup {IF v = 0 THEN FpCut ELSE FpBits - BitLength(Magnitude(v)) :
                      v \in ToSet(values)})
FpTail(values) ==
  Max({t \in 0 .. FpCut : \A v \in ToSet(values) : v % 2^t = 0})

FpEncode(numbers) ==
  LET values == [i \in DOMAIN numbers |-> ToFixed(numbers[i])]
      head == FpHead(values)
      tail == FpTail(values)
      Value(v) == IF head > 0
                  THEN U(1, IF v < 0 THEN 1 ELSE 0)
                       \o U(FpBits - head - tail, Magnitude(v) \div 2^tail)
                  ELSE U(FpBits - head - tail, v \div 2^tail)
  IN U(FpCutBits, head) \o U(FpCutBits, tail) \o Each(Value, values)

Wrap(v) == ((v + 2^(FpBits - 1)) % 2^FpBits) - 2^(FpBits - 1)

FpDecode(count, p) ==
  LET head == Get(FpCutBits, p)
      tail == Get(FpCutBits, head.p)
      Value(q) == LET sign == IF head.v > 0 THEN Get(1, q) ELSE [v |-> 0, p |-> q]
                      v == Get(FpBits - head.v - tail.v, sign.p)
                      m == Wrap(v.v * 2^Max({0, tail.v}))
                  IN [v |-> 8 * (IF sign.v # 0 THEN Wrap(-m) ELSE m), p |-> v.p]
  IN FoldLeft(LAMBDA a, i: LET r == Value(a.p)
                           IN [ok |-> TRUE, v |-> Append(a.v, r.v), p |-> r.p],
              [ok |-> TRUE, v |-> <<>>, p |-> tail.p], [i \in 1 .. count |-> i])

(* kate_fp_encode_kate_float and its reverse, for count values of each of    *)
(* several streams, interleaved.  The encoder merges the streams into one;   *)
(* the format, and a build without MERGE_STREAMS, also keep them apart.      *)
OneStream(values, s, streams) ==
  [n \in 1 .. Len(values) \div streams |-> values[(n - 1) * streams + s]]

FloatsEncode(values, streams, merge) ==
  IF values = <<>> THEN <<>>
  ELSE IF streams = 1 THEN FpEncode(values)
  ELSE IF merge THEN U(1, 1) \o FpEncode(values)
  ELSE U(1, 0) \o Each(LAMBDA s: FpEncode(OneStream(values, s, streams)),
                       [s \in 1 .. streams |-> s])

FloatsDecode(count, streams, p) ==
  LET merged == IF streams > 1 THEN Get(1, p) ELSE [v |-> 1, p |-> p]
      apart == FoldLeft(LAMBDA a, s: LET r == FpDecode(count, a.p)
                                     IN [v |-> Append(a.v, r.v), p |-> r.p],
                        [v |-> <<>>, p |-> merged.p], [s \in 1 .. streams |-> s])
  IN IF count * streams = 0 THEN [ok |-> TRUE, v |-> <<>>, p |-> p]
     ELSE IF merged.v # 0 THEN FpDecode(count * streams, merged.p)
     ELSE [ok |-> TRUE, p |-> apart.p,
           v |-> [i \in 1 .. count * streams |->
                    apart.v[((i - 1) % streams) + 1][((i - 1) \div streams) + 1]]]

-----------------------------------------------------------------------------
(* Canvas sizes: twelve bits and a shift, refused if bits would be lost.     *)

CanvasShift(size) == Min({s \in 0 .. 31 : s = 31 \/ size \div 2^s < 4096})

CanvasFits(size) ==
  CanvasShift(size) < 16 /\ size % 2^CanvasShift(size) = 0

CanvasEncode(size) ==
  LET base == size \div 2^CanvasShift(size)
  IN U(4, CanvasShift(size)) \o U(4, base % 16) \o U(8, base \div 16)

CanvasDecode(p) ==
  LET f == Nums(<<4, 4, 8>>, p)
  IN [ok |-> TRUE, p |-> f.p,
      v |-> IF f.p = Past THEN 0 ELSE (f.v[2] + 16 * f.v[3]) * 2^f.v[1]]
=============================================================================
