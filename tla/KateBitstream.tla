---------------------------- MODULE KateBitstream ----------------------------
(***************************************************************************)
(* The layout of the packets: what kate_encode.c writes, field by field,   *)
(* and what kate_decode.c makes of it.                                     *)
(*                                                                         *)
(* An encoder takes ver = [minor, later]: the bitstream version 0.minor it *)
(* writes, which decides what additions it makes, and whether a later one  *)
(* adds what this decoder does not know.  libkate writes 0.7 and adds      *)
(* nothing later; the others are the encoders its decoder provides for.    *)
(* A decoder takes ki = [minor, size, noLimits, remove]: what the headers  *)
(* said, size giving the number of items of each table.                    *)
(* NULL or an item is a sequence of length 0 or 1; a reference to an item  *)
(* is [idx], its place in its table, or [own], the item written in full.   *)
(***************************************************************************)
EXTENDS KateRle, KateMotion

CONSTANT Limit     (* KATE_LIMIT_*: how many items a decoder takes           *)
ASSUME LimitIsNat == Limit \in Nat

Null == <<>>
Result(ok, v, p) == IF ok THEN [ok |-> TRUE, v |-> v, p |-> p] ELSE Failed(p)
Read(v, p) == [ok |-> TRUE, v |-> v, p |-> p]

(* What comes next, if what comes first could be read.                       *)
Then(r, Next(_)) == IF r.ok THEN Next(r) ELSE r

(* An addition of version 0.minor, and what ends every item.                 *)
Since(minor, ver, p) == IF ver.minor >= minor THEN Warp(p) ELSE <<>>
Close(ver) == (IF ver.later THEN Warp(U(5, 9)) ELSE <<>>) \o NoWarp

GetSince(minor, ki, Parse(_), default, p) ==
  IF ki.minor >= minor THEN Parse(GetV(p).p) ELSE Read(default, p)

Flag(cond, p) == IF cond THEN U(1, 1) \o p ELSE U(1, 0)
(* READ_OVERRIDE: a bit read past the end counts as set.                     *)
GetFlag(Parse(_), default, p) ==
  Then(Get(1, p), LAMBDA flag:
    IF flag.v # 0 THEN Parse(flag.p) ELSE Read(default, flag.p))

IsIdx(o) == o # Null /\ DOMAIN o[1] = {"idx"}
IsOwn(o) == o # Null /\ DOMAIN o[1] = {"own"}

(* A slip: an index may be the size of its table.                            *)
GetIdxByOne(count, p) ==
  Then(GetV(p), LAMBDA i: Result(i.v \in 0 .. count, [idx |-> i.v], i.p))

GetIdx(count, p) ==
  Then(GetV(p), LAMBDA i: Result(i.v \in 0 .. count - 1, [idx |-> i.v], i.p))
Own(r) == Then(r, LAMBDA x: Read([own |-> x.v], x.p))
Some(r) == Then(r, LAMBDA x: Read(<<x.v>>, x.p))

(* A reference in a list: a bit, and an index or the item.                   *)
PutRef(Encode(_), r) ==
  Flag(DOMAIN r = {"idx"}, V(r.idx)) \o (IF DOMAIN r = {"own"} THEN Encode(r.own)
                                         ELSE <<>>)
GetRef(count, Parse(_), p) ==
  Then(Get(1, p), LAMBDA flag:
    IF flag.v # 0 THEN GetIdx(count, flag.p) ELSE Own(Parse(flag.p)))

(* An override by index, then one by value, which wins.                      *)
PutOverride(Encode(_), o) ==
  Flag(IsIdx(o), V(o[1].idx)) \o Flag(IsOwn(o), Encode(o[1].own))
GetOverride(count, Parse(_), p) ==
  Then(GetFlag(LAMBDA q: Some(GetIdx(count, q)), Null, p), LAMBDA idx:
  Then(GetFlag(LAMBDA q: Some(Own(Parse(q))), Null, idx.p), LAMBDA own:
    Read(IF own.v # Null THEN own.v ELSE idx.v, own.p)))

(* A count and that many items, if there are not too many.                   *)
TooMany(ki, n) == n < 0 \/ (~ki.noLimits /\ n > Limit)

GetList(ki, Parse(_), p) ==
  Then(GetV(p), LAMBDA n:
    IF TooMany(ki, n.v) THEN Failed(n.p) ELSE Many(n.v, Parse, n.p))

GetString(ki, p) ==
  Then(GetV(p), LAMBDA n:
    IF TooMany(ki, n.v) THEN Failed(n.p) ELSE GetBuf(n.v, n.p))

PutString(s) == V(Len(s)) \o Buf(s)

-----------------------------------------------------------------------------
(* Metadata.  What is read of a tag is not looked at: a tag cut short leaves *)
(* the buffer past its end, which the next size read refuses.                *)

Metadata(meta, ver) ==
  Flag(meta # Null,
       V(Len(meta[1]))
       \o Each(LAMBDA m: PutString(m.tag) \o PutString(m.value) \o Close(ver),
               meta[1])
       \o Close(ver))

GetTag(p) ==
  Then(GetV(p), LAMBDA n:
    IF n.v <= 0 THEN Failed(n.p) ELSE [GetBuf(n.v, n.p) EXCEPT !.ok = TRUE])

GetLeaf(p) ==
  Then(GetTag(p), LAMBDA tag:
  Then(GetTag(tag.p), LAMBDA value:
    Read([tag |-> tag.v, value |-> value.v], SkipWarps(value.p).p)))

GetLeaves(p) ==
  Then(GetV(p), LAMBDA n: IF n.v < 0 THEN Failed(n.p) ELSE Many(n.v, GetLeaf, n.p))

(* kate_read_metadata, which does not look at what its warp returns.         *)
GetMetadata(p) ==
  GetFlag(LAMBDA q: Then(Some(GetLeaves(q)), LAMBDA m: Read(m.v, SkipWarps(m.p).p)),
          Null, p)

-----------------------------------------------------------------------------
(* Regions and styles.                                                       *)

Region(r, ver) ==
  U(8, r.metric) \o Each(V, r.box) \o V(r.style)
  \o Since(2, ver, U(1, r.clip)) \o Since(6, ver, Metadata(r.meta, ver))
  \o Close(ver)

GetRegion(ki, p) ==
  Then(Nums(<<8, 0, 0, 0, 0, 0>>, p), LAMBDA f:
  Then(GetSince(2, ki, LAMBDA q: Get(1, q), 0, f.p), LAMBDA clip:
  Then(GetSince(6, ki, GetMetadata, Null, clip.p), LAMBDA meta:
  Then(SkipWarps(meta.p), LAMBDA end:
    Read([metric |-> f.v[1], box |-> SubSeq(f.v, 2, 5), style |-> f.v[6],
          clip |-> clip.v, meta |-> meta.v], end.p)))))

Color(c) == Each(LAMBDA n: U(8, n), c)
GetColor(p) == Nums(<<8, 8, 8, 8>>, p)

Style(s, ver) ==
  FloatsEncode(s.floats, 1, TRUE) \o Each(Color, s.colors)
  \o Each(LAMBDA n: U(8, n), s.metrics) \o Each(LAMBDA n: U(1, n), s.faces)
  \o Since(2, ver, U(1, s.justify) \o PutString(s.font))
  \o Since(4, ver, V(s.wrap))
  \o Since(6, ver, Metadata(s.meta, ver)) \o Close(ver)

GetFont(p) ==
  Then(Get(1, p), LAMBDA justify:
  Then(GetString([noLimits |-> TRUE], justify.p), LAMBDA name:
    Read(<<justify.v, name.v>>, name.p)))

GetStyle(ki, p) ==
  Then(FloatsDecode(8, 1, p), LAMBDA floats:
  Then(Many(3, GetColor, floats.p), LAMBDA colors:
  Then(Nums(<<8, 8, 1, 1, 1, 1>>, colors.p), LAMBDA f:
  Then(GetSince(2, ki, GetFont, <<0, <<>> >>, f.p), LAMBDA font:
  Then(GetSince(4, ki, GetV, 0, font.p), LAMBDA wrap:
  Then(GetSince(6, ki, GetMetadata, Null, wrap.p), LAMBDA meta:
  Then(SkipWarps(meta.p), LAMBDA end:
    Read([floats |-> floats.v, colors |-> colors.v,
          metrics |-> SubSeq(f.v, 1, 2), faces |-> SubSeq(f.v, 3, 6),
          justify |-> font.v[1], font |-> font.v[2], wrap |-> wrap.v,
          meta |-> meta.v], end.p))))))))

-----------------------------------------------------------------------------
(* Curves and motions.                                                       *)

Curve(c, ver) ==
  U(8, c.type) \o V(Len(c.pts) \div 2) \o Close(ver)
  \o FloatsEncode(c.pts, 2, TRUE)

GetCurve(ki, p) ==
  Then(Nums(<<8, 0>>, p), LAMBDA f:
  Then(SkipWarps(f.p), LAMBDA end:
    IF TooMany(ki, f.v[2]) THEN Failed(end.p)
    ELSE Then(FloatsDecode(f.v[2], 2, end.p), LAMBDA pts:
           Read([type |-> f.v[1], pts |-> pts.v], pts.p))))

Motion(m, ver) ==
  V(Len(m.curves)) \o Each(LAMBDA r: PutRef(LAMBDA c: Curve(c, ver), r), m.curves)
  \o FloatsEncode(m.durations, 1, TRUE)
  \o Each(LAMBDA n: U(8, n), m.mapping) \o U(1, m.periodic)
  \o Since(6, ver, Metadata(m.meta, ver)) \o Close(ver)

GetMotion(ki, p) ==
  Then(GetList(ki, LAMBDA q: GetRef(ki.size.curves, LAMBDA r: GetCurve(ki, r), q), p),
       LAMBDA curves:
  Then(FloatsDecode(Len(curves.v), 1, curves.p), LAMBDA durations:
  Then(Nums(<<8, 8, 8, 1>>, durations.p), LAMBDA f:
  Then(GetSince(6, ki, GetMetadata, Null, f.p), LAMBDA meta:
  Then(SkipWarps(meta.p), LAMBDA end:
    Read([curves |-> curves.v, durations |-> durations.v,
          mapping |-> SubSeq(f.v, 1, 3), periodic |-> f.v[4], meta |-> meta.v],
         end.p))))))

-----------------------------------------------------------------------------
(* Palettes and bitmaps.  A palette whose colours are read past the end is   *)
(* no failure: it is left undefined, the buffer past its end.                *)

PaletteFits(c) == Len(c.colors) \in 1 .. 256

Palette(c, ver) ==
  U(8, Len(c.colors) - 1) \o Each(Color, c.colors)
  \o Since(6, ver, Metadata(c.meta, ver)) \o Close(ver)

GetPalette(ki, p) ==
  Then(Get(8, p), LAMBDA n:
    LET colors == Many(n.v + 1, GetColor, n.p)
    IN IF ~colors.ok THEN Read([colors |-> <<>>, meta |-> Null], Past)
       ELSE Then(GetSince(6, ki, GetMetadata, Null, colors.p), LAMBDA meta:
            Then(SkipWarps(meta.p), LAMBDA end:
              Read([colors |-> colors.v, meta |-> meta.v], end.p))))

(* A bitmap is [type, width, height, bpp, palette, pixels, offset, meta]; of *)
(* a PNG, pixels is the file, and bpp and palette mean nothing.              *)
Paletted == 0
Png == 1

Bitmap(b, ver) ==
  V(b.width) \o V(b.height) \o U(8, 0)
  \o (IF b.type = Paletted
      THEN U(8, Paletted) \o U(8, 1) \o V(b.bpp) \o V(b.palette)
           \o RleEncode(b.pixels, b.bpp)
      ELSE U(8, Png) \o U(32, Len(b.pixels)) \o Buf(b.pixels))
  \o Since(4, ver, Each(V, b.offset))
  \o Since(6, ver, Metadata(b.meta, ver)) \o Close(ver)

(* The pixels of a bitmap, as [type, bpp, palette, pixels].                  *)
GetPaletted(width, height, p) ==
  Then(Nums(<<8, 0, 0>>, p), LAMBDA f:
    IF f.v[1] # 1 THEN Failed(f.p)
    ELSE Then(RleDecode(width, height, f.v[2], f.p), LAMBDA rle:
           Read([type |-> Paletted, bpp |-> f.v[2], palette |-> f.v[3],
                 pixels |-> rle.v], rle.p)))

GetPng(ki, p) ==
  Then(Get(32, p), LAMBDA size:
    IF TooMany(ki, size.v) THEN Failed(size.p)
    ELSE Then(GetBuf(size.v, size.p), LAMBDA data:
           Read([type |-> Png, bpp |-> 0, palette |-> -1, pixels |-> data.v], data.p)))

GetPixels(ki, width, height, p) ==
  Then(Get(8, p), LAMBDA type:
    CASE type.v = Paletted -> GetPaletted(width, height, type.p)
      [] type.v = Png -> GetPng(ki, type.p)
      [] OTHER -> Failed(type.p))

GetSize(ki, p) ==
  Then(Nums(<<0, 0, 8>>, p), LAMBDA f:
    Result(/\ \A i \in 1 .. 2 : f.v[i] > 0 /\ ~TooMany(ki, f.v[i])
           /\ f.v[3] = 0, f.v, f.p))

GetBitmap(ki, p) ==
  Then(GetSize(ki, p), LAMBDA f:
  Then(GetPixels(ki, f.v[1], f.v[2], f.p), LAMBDA pixels:
  Then(GetSince(4, ki, LAMBDA q: Nums(<<0, 0>>, q), <<0, 0>>, pixels.p), LAMBDA offset:
  Then(GetSince(6, ki, GetMetadata, Null, offset.p), LAMBDA meta:
  Then(SkipWarps(meta.p), LAMBDA end:
    Read([width |-> f.v[1], height |-> f.v[2], offset |-> offset.v, meta |-> meta.v]
         @@ pixels.v, end.p))))))

-----------------------------------------------------------------------------
(* Font ranges and mappings.                                                 *)

FontRange(r, ver) == V(r.first) \o V(r.last) \o V(r.bitmap) \o Close(ver)

GetFontRange(p) ==
  Then(Nums(<<0, 0, 0>>, p), LAMBDA f:
  Then(SkipWarps(f.p), LAMBDA end:
    Read([first |-> f.v[1], last |-> f.v[2], bitmap |-> f.v[3]], end.p)))

FontMapping(m, ver) ==
  V(Len(m)) \o Each(LAMBDA r: PutRef(LAMBDA f: FontRange(f, ver), r), m)

GetFontMapping(ki, nranges, p) ==
  GetList(ki, LAMBDA q: GetRef(nranges, GetFontRange, q), p)
=============================================================================
