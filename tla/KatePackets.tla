----------------------------- MODULE KatePackets -----------------------------
(***************************************************************************)
(* Whole packets: the nine headers and the text packet.  A decoder returns *)
(* [ok, v, p] as the parsers do, v being Null when the packet is accepted  *)
(* and stores nothing.  What the decoder and the encoder states do with a  *)
(* packet is in KateDecoder, KateHeaders and KateEncoder.                  *)
(***************************************************************************)
EXTENDS KateBitstream

Magic == <<107, 97, 116, 101, 0, 0, 0>>

Start(id) == U(8, 128 + id) \o Buf(Magic) \o U(8, 0)

GetStart(p) ==
  Then(Get(8, p), LAMBDA number:
  Then(GetBuf(7, number.p), LAMBDA magic:
  Then(Get(8, magic.p), LAMBDA reserved:
    Result(magic.v = Magic /\ reserved.v = 0, number.v - 128, reserved.p))))

-----------------------------------------------------------------------------
(* The ID header and the comments.                                           *)

Padded(s) == s \o [i \in 1 .. 16 - Len(s) |-> 0]
InfoFits(v) == /\ \A i \in 1 .. 2 : CanvasFits(v.canvas[i])
               /\ Len(v.language) <= 15 /\ Len(v.category) <= 15

Info(v, ver) ==
  U(8, 0) \o U(8, ver.minor) \o U(8, v.headers) \o U(8, v.encoding)
  \o U(8, v.directionality) \o U(8, IF ver.later THEN 1 ELSE 0) \o U(8, v.shift)
  \o Each(CanvasEncode, v.canvas) \o U(32, IF ver.later THEN 1 ELSE 0)
  \o U(32, v.rate[1]) \o U(32, v.rate[2])
  \o Buf(Padded(v.language)) \o Buf(Padded(v.category))

Old(f) == f.v[1] = 0 /\ f.v[2] < 3

GetName(p) ==
  Then(GetBuf(16, p), LAMBDA s: Result(s.v[16] = 0, BeforeNul(s.v), s.p))

GetInfo(p) ==
  Then(Nums(<<8, 8, 8, 8, 8, 8, 8>>, p), LAMBDA f:
  Then(CanvasDecode(f.p), LAMBDA width:
  Then(CanvasDecode(width.p), LAMBDA height:
  Then(Nums(<<32, 32, 32>>, height.p), LAMBDA rate:
  Then(GetName(rate.p), LAMBDA language:
  Then(GetName(language.p), LAMBDA category:
    Result(/\ f.v[1] <= 0 /\ f.v[3] >= 1
           /\ Old(f) => f.v[6] = 0 /\ rate.v[1] = 0
           /\ f.v[7] < 64 /\ rate.v[2] # 0 /\ rate.v[3] # 0
           /\ AtEnd(category.p),
           << [minor |-> f.v[2], headers |-> f.v[3], encoding |-> f.v[4],
               directionality |-> f.v[5], shift |-> f.v[7],
               canvas |-> <<width.v, height.v>>, rate |-> Tail(rate.v),
               language |-> language.v, category |-> category.v] >>, category.p)))))))

Text32(s) == U(32, Len(s)) \o Buf(s)

GetText32(ki, p) ==
  Then(Get(32, p), LAMBDA n:
    IF TooMany(ki, n.v) THEN Failed(n.p) ELSE GetBuf(n.v, n.p))

Comments(v) ==
  Text32(v.vendor) \o U(32, Len(v.comments)) \o Each(Text32, v.comments)

(* The limit on their number is compared with the length of the vendor.      *)
GetComments(ki, p) ==
  Then(GetText32(ki, p), LAMBDA vendor:
  Then(Get(32, vendor.p), LAMBDA n:
    IF n.v < 0 THEN Failed(n.p)
    ELSE Then(Many(n.v, LAMBDA q: GetText32(ki, q), n.p), LAMBDA comments:
           Result(AtEnd(comments.p),
                  << [vendor |-> vendor.v, comments |-> comments.v] >>, comments.p))))

-----------------------------------------------------------------------------
(* The headers that hold a table, and the fonts.                             *)

Table(Encode(_), items, ver) == V(Len(items)) \o Each(Encode, items) \o Close(ver)

Whole(v, p) ==
  Then(SkipWarps(p), LAMBDA end: Result(AtEnd(end.p), <<v>>, end.p))

GetTable(ki, Parse(_), p) ==
  Then(GetList(ki, Parse, p), LAMBDA items: Whole(items.v, items.p))

(* A palette that is cut is refused with no error: nothing is stored, and    *)
(* the header counts as read.                                                *)
GetPalettes(ki, p) ==
  Then(GetV(p), LAMBDA n:
    IF TooMany(ki, n.v) THEN Failed(n.p)
    ELSE Then(FoldLeft(LAMBDA a, i: IF ~a.ok \/ a.p = Past THEN a
                                    ELSE Then(GetPalette(ki, a.p), LAMBDA r:
                                           Read(Append(a.v, r.v), r.p)),
                       Read(<<>>, n.p), [i \in 1 .. n.v |-> i]), LAMBDA items:
           IF items.v # <<>> /\ items.p = Past THEN Read(Null, Past)
           ELSE Whole(items.v, items.p)))

Fonts(v, ver) ==
  V(Len(v.ranges)) \o Each(LAMBDA r: FontRange(r, ver), v.ranges)
  \o V(Len(v.mappings)) \o Each(LAMBDA m: FontMapping(m, ver), v.mappings)
  \o Close(ver)
FontsFit(v, nbitmaps) ==
  /\ \A r \in ToSet(v.ranges) : RangeAccepted(r, nbitmaps)
  /\ \A m \in ToSet(v.mappings) : \A r \in ToSet(m) :
       DOMAIN r = {"own"} => RangeAccepted(r.own, nbitmaps)

GetFonts(ki, p) ==
  Then(GetList(ki, GetFontRange, p), LAMBDA ranges:
  Then(GetList(ki, LAMBDA q: GetFontMapping(ki, Len(ranges.v), q), ranges.p),
       LAMBDA mappings:
    Whole([ranges |-> ranges.v, mappings |-> mappings.v], mappings.p)))

(* kate_encode_headers and kate_decode_headerin, of the header of the given  *)
(* number.                                                                   *)
Header(id, v, ver) ==
  Start(id) \o
  CASE id = 0 -> Info(v, ver)
    [] id = 1 -> Comments(v)
    [] id = 2 -> Table(LAMBDA x: Region(x, ver), v, ver)
    [] id = 3 -> Table(LAMBDA x: Style(x, ver), v, ver)
    [] id = 4 -> Table(LAMBDA x: Curve(x, ver), v, ver)
    [] id = 5 -> Table(LAMBDA x: Motion(x, ver), v, ver)
    [] id = 6 -> Table(LAMBDA x: Palette(x, ver), v, ver)
    [] id = 7 -> Table(LAMBDA x: Bitmap(x, ver), v, ver)
    [] OTHER -> Fonts(v, ver)

GetHeader(ki, number, p) ==
  CASE number = 0 -> GetInfo(p)
    [] number = 1 -> GetComments(ki, p)
    [] number = 2 -> GetTable(ki, LAMBDA q: GetRegion(ki, q), p)
    [] number = 3 -> GetTable(ki, LAMBDA q: GetStyle(ki, q), p)
    [] number = 4 -> GetTable(ki, LAMBDA q: GetCurve(ki, q), p)
    [] number = 5 -> GetTable(ki, LAMBDA q: GetMotion(ki, q), p)
    [] number = 6 -> GetPalettes(ki, p)
    [] number = 7 -> GetTable(ki, LAMBDA q: GetBitmap(ki, q), p)
    [] number = 8 -> GetFonts(ki, p)
    [] OTHER -> Failed(p)

HeaderIn(ki, p) ==
  Then(GetStart(p), LAMBDA start: GetHeader(ki, start.v, start.p))

-----------------------------------------------------------------------------
(* The text packet.  ki also holds what the encoder and the decoder take for *)
(* granted: [encoding, directionality, markup].                              *)

(* The second warp of the overrides.  A palette or a bitmap that cannot be   *)
(* written leaves its flag set, clears those that follow, and leaves the     *)
(* later warps out; kate_encode_text does not look at the result.            *)
Pictures(ev, ki, ver) ==
  LET fits == IsOwn(ev.palette) => PaletteFits(ev.palette[1].own)
  IN Flag(ev.palette # Null \/ ev.bitmap # Null \/ ev.markup # ki.markup,
          IF fits
          THEN PutOverride(LAMBDA x: Palette(x, ver), ev.palette)
               \o PutOverride(LAMBDA x: Bitmap(x, ver), ev.bitmap)
               \o Flag(ev.markup # ki.markup, U(8, ev.markup))
          ELSE U(1, 0) \o U(1, 1) \o U(1, 0) \o U(1, 0) \o U(1, 0))

EventFits(ev) == IsOwn(ev.palette) => PaletteFits(ev.palette[1].own)

Overrides(ev, ki, ver) ==
  LET Region1(x) == Region(x, ver)
      Style1(x) == Style(x, ver)
  IN Flag(\/ ev.language # Null \/ ev.encoding # ki.encoding
          \/ ev.directionality # ki.directionality
          \/ \E o \in {ev.region, ev.style, ev.secondary, ev.mapping} : o # Null,
          Flag(ev.encoding # ki.encoding, U(8, ev.encoding))
          \o Flag(ev.directionality # ki.directionality, U(8, ev.directionality))
          \o Flag(ev.language # Null, PutString(ev.language[1]))
          \o PutOverride(Region1, ev.region)
          \o PutOverride(Style1, ev.style)
          \o PutOverride(Style1, ev.secondary)
          \o Flag(ev.mapping # Null, V(ev.mapping[1].idx)))
     \o Since(2, ver, Pictures(ev, ki, ver))
     \o (IF EventFits(ev)
         THEN Since(4, ver, V(Len(ev.bitmaps))
                    \o Each(LAMBDA r: PutRef(LAMBDA b: Bitmap(b, ver), r), ev.bitmaps))
              \o Since(6, ver, Metadata(ev.meta, ver))
         ELSE <<>>)
     \o Close(ver)

TextPacket(ev, ki, ver) ==
  U(8, 0) \o Each(LAMBDA t: U(64, t), ev.times) \o Text32(ev.text)
  \o Flag(ev.id >= 0, V(ev.id))
  \o Flag(ev.motions # <<>>,
          V(Len(ev.motions))
          \o Each(LAMBDA r: PutRef(LAMBDA m: Motion(m, ver), r), ev.motions))
  \o Overrides(ev, ki, ver)

(* kate_decode_text_packet, of a packet that is not a repeat: the overrides, *)
(* in the order they are written; a name tells them apart.                   *)
GetLanguage(ki, p) ==
  Then(GetString(ki, p), LAMBDA s: Read(IF s.v = <<>> THEN Null ELSE <<s.v>>, s.p))

GetOverrides(ki, p) ==
  LET Region1(q) == GetRegion(ki, q)
      Style1(q) == GetStyle(ki, q)
  IN Then(GetFlag(LAMBDA q: Get(8, q), ki.encoding, p), LAMBDA encoding:
     Then(GetFlag(LAMBDA q: Get(8, q), ki.directionality, encoding.p), LAMBDA direction:
     Then(GetFlag(LAMBDA q: GetLanguage(ki, q), Null, direction.p), LAMBDA language:
     Then(GetOverride(ki.size.regions, Region1, language.p), LAMBDA region:
     Then(GetOverride(ki.size.styles, Style1, region.p), LAMBDA style:
     Then(GetOverride(ki.size.styles, Style1, style.p), LAMBDA secondary:
     Then(GetFlag(LAMBDA q: Some(GetIdx(ki.size.mappings, q)), Null, secondary.p),
          LAMBDA mapping:
       Read([encoding |-> encoding.v, directionality |-> direction.v,
             language |-> language.v, region |-> region.v, style |-> style.v,
             secondary |-> secondary.v, mapping |-> mapping.v], mapping.p))))))))

NoOverrides(ki) ==
  [encoding |-> ki.encoding, directionality |-> ki.directionality,
   language |-> Null, region |-> Null, style |-> Null, secondary |-> Null,
   mapping |-> Null]

GetPictures(ki, p) ==
  Then(GetOverride(ki.size.palettes, LAMBDA q: GetPalette(ki, q), p), LAMBDA palette:
  Then(GetOverride(ki.size.bitmaps, LAMBDA q: GetBitmap(ki, q), palette.p),
       LAMBDA bitmap:
  Then(GetFlag(LAMBDA q: Get(8, q), ki.markup, bitmap.p), LAMBDA markup:
    Read([palette |-> palette.v, bitmap |-> bitmap.v, markup |-> markup.v],
         markup.p))))
NoPictures(ki) == [palette |-> Null, bitmap |-> Null, markup |-> ki.markup]

(* The text as it is handed out: with its markup removed if there is any and *)
(* it was asked for.  remove_markup leaves a length that does not count the  *)
(* NUL, of which the four bytes of the terminator are taken.                 *)
TextOut(ki, text, markup) ==
  LET plain == RemoveMarkup(text)
  IN IF markup = 0 \/ ~ki.remove
     THEN [ok |-> TRUE, text |-> text, len |-> Len(text), markup |-> markup]
     ELSE [ok |-> plain.len0 >= 4, text |-> plain.text, len |-> plain.len0 - 4,
           markup |-> 0]

(* A region's own style is the event's, for want of another.                 *)
DefaultStyle(ki, o) ==
  LET style == IF IsOwn(o.region) THEN o.region[1].own.style
               ELSE IF IsIdx(o.region) THEN ki.regionStyles[o.region[1].idx + 1] ELSE -1
  IN IF o.style = Null /\ style \in 0 .. ki.size.styles - 1
     THEN << [idx |-> style] >> ELSE o.style

GetRefs(ki, table, Parse(_), p) ==
  GetList(ki, LAMBDA q: GetRef(ki.size[table], Parse, q), p)

GetTimes(p) ==
  Then(Nums(<<8, 64, 64, 64>>, p), LAMBDA f:
    Result(/\ f.v[1] = 0 /\ f.v[2] >= 0 /\ f.v[3] >= 0 /\ f.v[4] \in 0 .. f.v[2],
           Tail(f.v), f.p))

GetMotions(ki, p) ==
  Then(GetRefs(ki, "motions", LAMBDA q: GetMotion(ki, q), p), LAMBDA l:
    Result(l.v # <<>>, l.v, l.p))

GetTextPacket(ki, p) ==
  Then(GetTimes(p), LAMBDA times:
  Then(GetText32(ki, times.p), LAMBDA text:
  Then(GetFlag(GetV, -1, text.p), LAMBDA number:
  Then(GetFlag(LAMBDA q: GetMotions(ki, q), <<>>, number.p), LAMBDA motions:
  Then(GetFlag(LAMBDA q: GetOverrides(ki, q), NoOverrides(ki), motions.p), LAMBDA over:
  Then(GetSince(2, ki, LAMBDA q: GetFlag(LAMBDA r: GetPictures(ki, r),
                                         NoPictures(ki), q),
                NoPictures(ki), over.p), LAMBDA pictures:
  Then(GetSince(4, ki, LAMBDA q: GetRefs(ki, "bitmaps", LAMBDA r: GetBitmap(ki, r), q),
                <<>>, pictures.p), LAMBDA bitmaps:
  Then(GetSince(6, ki, GetMetadata, Null, bitmaps.p), LAMBDA meta:
  Then(SkipWarps(meta.p), LAMBDA end:
    LET plain == TextOut(ki, text.v, pictures.v.markup)
    IN Result(over.v.encoding = 0 /\ TextValidate(text.v) /\ plain.ok,
              << [times |-> times.v, text |-> plain.text, len |-> plain.len,
                  id |-> number.v, motions |-> motions.v, bitmaps |-> bitmaps.v,
                  meta |-> meta.v]
                 @@ [over.v EXCEPT !.style = DefaultStyle(ki, over.v)]
                 @@ [pictures.v EXCEPT !.markup = plain.markup] >>, end.p))))))))))
=============================================================================
