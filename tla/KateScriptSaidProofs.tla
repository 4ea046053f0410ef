------------------------ MODULE KateScriptSaidProofs ------------------------
(* That an event is sent as its own statements say it, and a karaoke at the   *)
(* times it says (KateScript), from the inductive invariant of               *)
(* KateScriptProofs.                                                         *)
EXTENDS KateScriptProofs, FiniteSetTheorems

-----------------------------------------------------------------------------
(* What an event says, and what the parser holds of it.                      *)

(* The leaves of an item, and whether its list is none of the headers'.      *)
Held(v, metas) == IF v.meta = 0 THEN <<>> ELSE metas[v.meta]
Bound(v, p) == v.meta \in 0 .. Len(p.metas)
Private(v) ==
  v.meta = 0 \/ \A k \in AllKinds : \A i \in DOMAIN info[k] : HasMeta(k) => info[k][i].meta # v.meta
(* The lists that the overrides of an event are kept with.                   *)
Alone(slot, p) == slot.at \in {"own", "local"} => Bound(slot.own, p) /\ Private(slot.own)
Lists(p) ==
  /\ Bound(p.kstyle, p) /\ Bound(p.kregion, p)
  /\ Alone(p.pending.palette, p) /\ Alone(p.pending.bitmap, p)
  /\ \A i \in DOMAIN p.pending.bitmaps : Alone(p.pending.bitmaps[i], p)
  /\ \A i \in DOMAIN p.pending.motions : Alone(p.pending.motions[i], p)

(* The same item, or but for its metadata.                                   *)
Same(slot, other, but) == IF but THEN WithoutMeta(slot) = WithoutMeta(other) ELSE slot = other

OverFields ==
  {"region", "style", "secondary", "palette", "bitmap", "mapping", "bitmaps", "motions",
   "language", "direction", "markup", "meta"}
Shaped(sd) ==
  /\ DOMAIN sd = {"over", "times", "pieces", "words", "marks", "latest"} /\ DOMAIN sd.over = OverFields
  /\ DOMAIN sd.times = {"t0", "t1", "for"}
PlainHeard(sd, p) ==
  /\ \A f \in {"t0", "t1", "for"} : sd.times[f] = p.event[f]
  /\ sd.over.markup = p.event.markup
  /\ \A f \in {"mapping", "language", "direction", "meta"} : sd.over[f] = p.pending[f]
ListHeard(list, pending, p, kind) ==
  /\ list = [i \in DOMAIN pending |-> list[i]]
  /\ \A i \in DOMAIN pending : list[i] = Encoded(p, pending[i], kind)
OwnsHeard(sd, p) ==
  /\ \A slot \in {"palette", "bitmap"} : sd.over[slot] = Encoded(p, p.pending[slot], slot)
  /\ ListHeard(sd.over.bitmaps, p.pending.bitmaps, p, "bitmap")
  /\ ListHeard(sd.over.motions, p.pending.motions, p, "motion")
RegionHeard(sd, p, but) == Same(sd.over.region, Encoded(p, p.pending.region, "region"), but)
(* The style and the secondary style are read into the same variable.        *)
StyleHeard(sd, p, but, slot, other) ==
  IF p.pending[slot].at = "static"
  THEN /\ sd.over[slot].at = "own"
       /\ Same(Own(sd.latest), Encoded(p, p.pending[slot], "style"), but)
       /\ p.pending[other].at # "static" => sd.over[slot] = Own(sd.latest)
  ELSE sd.over[slot] = p.pending[slot]
Heard(sd, p, but) ==
  /\ Shaped(sd) /\ PlainHeard(sd, p) /\ OwnsHeard(sd, p) /\ RegionHeard(sd, p, but)
  /\ StyleHeard(sd, p, but, "style", "secondary") /\ StyleHeard(sd, p, but, "secondary", "style")

(* An item as it was sent has the metadata that it has still, if no event    *)
(* added any to it.                                                          *)
SentItem(v, w, p, but) ==
  /\ v.meta \in Seq(Leaf) /\ v = [w EXCEPT !.meta = v.meta]
  /\ ~but => v.meta = Held(w, p.metas)
HeaderHeld(p, but) ==
  header # <<>> =>
    \A k \in AllKinds : \A i \in DOMAIN info[k] :
      IF HasMeta(k) THEN SentItem(header.items[k][i], info[k][i], p, but)
      ELSE header.items[k][i] = info[k][i]

(* An event that was sent is as it was said.                                 *)
Told(entry, ev, but) ==
  LET want == EventSaid(entry)
      got == [f \in DOMAIN want |-> ev[f]]
  IN IF but THEN Bare(got) = Bare(want) ELSE got = want

(* As long as no error was told, and no name was spoilt.                     *)
Intact(p, sd, but) ==
  /\ p.phase # "defs" => header # <<>>
  /\ Lists(p) /\ HeaderHeld(p, but)
  /\ p.phase \in {"defs", "events"} => p.pending = Pending0
  /\ p.phase = "event" => Heard(sd, p, but)
AllTold ==
  /\ Len(saidlog) = Len(sent)
  /\ \A n \in DOMAIN saidlog : Told(saidlog[n], sent[n], shared)
Retold ==
  /\ parser.phase = "defs" => saidlog = <<>> /\ sent = <<>>
  /\ ~parser.wrong /\ names = declared => Intact(parser, said, shared) /\ AllTold

-----------------------------------------------------------------------------
(* The same body makes the same item of an initial value, whatever the lists *)
(* that were created before.                                                 *)

Marked4 == {"style", "region", "palette", "bitmap"}
Kin(kind) == {p \in Parsers(Val(kind)) : p.v.meta <= Len(p.metas)}

LEMMA MetaHas ==
  ASSUME NEW kind \in Marked4, NEW v \in Val(kind)
  PROVE  /\ v.meta \in Nat /\ HasMeta(kind) /\ "meta" \in DOMAIN v
         /\ \A m \in Nat : [v EXCEPT !.meta = m] \in Val(kind) /\ [v EXCEPT !.meta = m].meta = m
         /\ \A m, n : [[v EXCEPT !.meta = m] EXCEPT !.meta = n] = [v EXCEPT !.meta = n]
         /\ [v EXCEPT !.meta = v.meta] = v
<1>1. CASE kind = "style"
  BY <1>1 DEF Val, StyleVal, HasMeta
<1>2. CASE kind = "region"
  BY <1>2 DEF Val, RegionVal, HasMeta
<1>3. CASE kind = "palette"
  BY <1>3 DEF Val, PaletteVal, HasMeta
<1>4. CASE kind = "bitmap"
  BY <1>4 DEF Val, BitmapVal, HasMeta
<1> QED BY <1>1, <1>2, <1>3, <1>4 DEF Marked4

(* A setting of values that differ by their metadata.                        *)
PutBoth(p, q, r, t) ==
  \E c, d : \E w, x : r = Put(c, p, w) /\ t = Put(d, q, x) /\ x = [w EXCEPT !.meta = q.v.meta]
BothPut(p, q, r, t) == PutBoth(p, q, r, t) \/ (r = Err(p) /\ t = Err(q))

LEMMA StyleTwin ==
  ASSUME NEW p \in Parsers(StyleVal), NEW q \in Parsers(StyleVal), q.v = [p.v EXCEPT !.meta = q.v.meta],
         NEW s \in StyleForm, s.set # "meta"
  PROVE  BothPut(p, q, StyleSet(p, s), StyleSet(q, s))
<1>1. /\ p.v \in StyleVal /\ (\A c : ErrIf(c, p).v = p.v) /\ p = ErrIf(FALSE, p)
      /\ q.v \in StyleVal /\ (\A c : ErrIf(c, q).v = q.v) /\ q = ErrIf(FALSE, q)
  BY ParserHas, ErrIfHas DEF ErrIf
<1> DEFINE Become(v) == IF s.set = "font" THEN [v EXCEPT !.font = s.name]
                       ELSE IF s.set = "width" THEN [v EXCEPT !.width = s.n, !.metric = s.metric]
                       ELSE IF s.set = "height" THEN [v EXCEPT !.height = s.n, !.metric = s.metric]
                       ELSE IF s.set = "size" THEN [v EXCEPT !.width = s.n, !.height = s.n, !.metric = s.metric]
                       ELSE IF s.set = "margins"
                            THEN [v EXCEPT !.left = s.list[1], !.top = s.list[2], !.margins = s.metric]
                       ELSE IF s.set = "left" THEN [v EXCEPT !.left = s.n, !.margins = s.metric]
                       ELSE IF s.set = "top" THEN [v EXCEPT !.top = s.n, !.margins = s.metric]
                       ELSE [v EXCEPT !.bold = TRUE]
<1>2. s.set \in {"font", "width", "height", "size", "left", "top", "margins", "bold"}
  BY DEF StyleForm, MetaForm
<1>3. Become(q.v) = [Become(p.v) EXCEPT !.meta = q.v.meta]
  BY <1>1, <1>2 DEF StyleVal
<1>4. \/ \E c, d : StyleSet(p, s) = Put(c, p, Become(p.v)) /\ StyleSet(q, s) = Put(d, q, Become(q.v))
      \/ StyleSet(p, s) = Err(p) /\ StyleSet(q, s) = Err(q)
  <2>1. CASE s.set \in {"font", "width", "height", "size"}
    <3>1. ASSUME NEW u \in Parsers(StyleVal), \A c : ErrIf(c, u).v = u.v
          PROVE  \E c : StyleSet(u, s) = Put(c, u, Become(u.v))
      <4> DEFINE c1 == u.v.font # NoName
                 c2 == u.v["width"] >= 0 \/ (u.v["height"] >= 0 /\ u.v.metric # s.metric)
                 c3 == u.v["height"] >= 0 \/ (u.v["width"] >= 0 /\ u.v.metric # s.metric)
                 c4 == u.v.height >= 0 \/ u.v.width >= 0
      <4>1. s.set = "font" => StyleSet(u, s) = Put(c1, u, Become(u.v))
        BY <3>1 DEF StyleSet, FontSet, Put
      <4>2. s.set = "width" => StyleSet(u, s) = Put(c2, u, Become(u.v))
        BY <3>1 DEF StyleSet, FontSet, Put
      <4>3. s.set = "height" => StyleSet(u, s) = Put(c3, u, Become(u.v))
        BY <3>1 DEF StyleSet, FontSet, Put
      <4>4. s.set = "size" => StyleSet(u, s) = Put(c4, u, Become(u.v))
        BY <3>1 DEF StyleSet, FontSet, Put
      <4> HIDE DEF c1, c2, c3, c4, Become
      <4> QED BY <2>1, <4>1, <4>2, <4>3, <4>4
    <3> QED BY <1>1, <3>1
  <2>2. CASE s.set \in {"left", "top", "margins"}
    <3> DEFINE Bad(v) == IF s.set = "margins" THEN s.metric # s.metric2
                         ELSE (IF s.set = "left" THEN v.top ELSE v.left) # 0 /\ s.metric # v.margins
    <3>1. StyleSet(p, s) = IF Bad(p.v) THEN Err(p) ELSE Put(FALSE, p, Become(p.v))
      BY <1>1, <2>2 DEF StyleSet, MarginSet, Put
    <3>2. StyleSet(q, s) = IF Bad(q.v) THEN Err(q) ELSE Put(FALSE, q, Become(q.v))
      BY <1>1, <2>2 DEF StyleSet, MarginSet, Put
    <3>3. Bad(p.v) = Bad(q.v)
      BY <1>1 DEF StyleVal
    <3> HIDE DEF Bad, Become
    <3> QED BY <3>1, <3>2, <3>3
  <2>3. CASE s.set = "bold"
    <3>1. StyleSet(p, s) = Put(FALSE, p, Become(p.v)) /\ StyleSet(q, s) = Put(FALSE, q, Become(q.v))
      BY <1>1, <2>3 DEF StyleSet, Put
    <3> QED BY <3>1
  <2> QED BY <1>2, <2>1, <2>2, <2>3
<1> HIDE DEF Become
<1> QED BY <1>3, <1>4 DEF BothPut, PutBoth

LEMMA RegionTwin ==
  ASSUME Tables, NEW p \in Parsers(RegionVal), NEW q \in Parsers(RegionVal),
         q.v = [p.v EXCEPT !.meta = q.v.meta], NEW s \in RegionForm, s.set # "meta"
  PROVE  BothPut(p, q, RegionSet(p, s), RegionSet(q, s))
<1>1. /\ p.v \in RegionVal /\ (\A c : ErrIf(c, p).v = p.v) /\ p = ErrIf(FALSE, p)
      /\ q.v \in RegionVal /\ (\A c : ErrIf(c, q).v = q.v) /\ q = ErrIf(FALSE, q)
  BY ParserHas, ErrIfHas DEF ErrIf
<1> DEFINE Become(v) == IF s.set = "area" THEN [v EXCEPT !.w = s.list[1], !.h = s.list[2], !.metric = s.metric]
                       ELSE IF s.set = "clip" THEN [v EXCEPT !.clip = TRUE]
                       ELSE [v EXCEPT !.style = Found("style", s.ref)]
<1>2. s.set \in {"area", "clip", "style"}
  BY DEF RegionForm, MetaForm
<1>3. Become(q.v) = [Become(p.v) EXCEPT !.meta = q.v.meta]
  BY <1>1, <1>2 DEF RegionVal
<1>4. \E c, d : RegionSet(p, s) = Put(c, p, Become(p.v)) /\ RegionSet(q, s) = Put(d, q, Become(q.v))
  <2>1. ASSUME NEW u \in Parsers(RegionVal), u = ErrIf(FALSE, u), \A c : ErrIf(c, u).v = u.v
        PROVE  \E c : RegionSet(u, s) = Put(c, u, Become(u.v))
    <3> DEFINE c1 == Missing("style", s.ref)
    <3>1. s.set \in {"area", "clip"} => RegionSet(u, s) = Put(FALSE, u, Become(u.v))
      BY <2>1 DEF RegionSet, Put
    <3>2. s.set = "style" => RegionSet(u, s) = Put(c1, u, Become(u.v))
      BY <2>1 DEF RegionSet, Put
    <3> HIDE DEF c1, Become
    <3> QED BY <1>2, <3>1, <3>2
  <2> QED BY <1>1, <2>1
<1> HIDE DEF Become
<1> QED BY <1>3, <1>4 DEF BothPut, PutBoth

LEMMA PaletteTwin ==
  ASSUME NEW p \in Parsers(PaletteVal), NEW q \in Parsers(PaletteVal),
         q.v = [p.v EXCEPT !.meta = q.v.meta], NEW s \in PaletteForm, s.set # "meta"
  PROVE  BothPut(p, q, PaletteSet(p, s), PaletteSet(q, s))
<1>1. /\ p.v \in PaletteVal /\ (\A c : ErrIf(c, p).v = p.v)
      /\ q.v \in PaletteVal /\ (\A c : ErrIf(c, q).v = q.v)
  BY ParserHas, ErrIfHas
<1> DEFINE colors == [i \in 1 .. s.n |-> IF i <= Len(s.list) THEN s.list[i] ELSE Garbage]
           Become(v) == [v EXCEPT !.colors = colors]
<1>4. \E c, d : PaletteSet(p, s) = Put(c, p, Become(p.v)) /\ PaletteSet(q, s) = Put(d, q, Become(q.v))
  <2>1. ASSUME NEW u \in Parsers(PaletteVal), \A c : ErrIf(c, u).v = u.v
        PROVE  \E c : PaletteSet(u, s) = Put(c, u, Become(u.v))
    <3> DEFINE c1 == Len(s.list) # s.n
    <3>1. PaletteSet(u, s) = Put(c1, u, Become(u.v))
      BY <2>1 DEF PaletteSet, Put
    <3> HIDE DEF c1, Become
    <3> QED BY <3>1
  <2> QED BY <1>1, <2>1
<1> HIDE DEF colors
<1>3. Become(q.v) = [Become(p.v) EXCEPT !.meta = q.v.meta]
  BY <1>1 DEF PaletteVal
<1> HIDE DEF Become
<1> QED BY <1>3, <1>4 DEF BothPut, PutBoth

LEMMA PicturedTwin ==
  ASSUME NEW v \in BitmapVal, NEW m, NEW type, NEW a, NEW b, NEW n, NEW pixels
  PROVE  Pictured([v EXCEPT !.meta = m], type, a, b, n, pixels)
           = [Pictured(v, type, a, b, n, pixels) EXCEPT !.meta = m]
<1> DEFINE Half(u) == [u EXCEPT !.type = type, !.w = a, !.h = b]
           Rest(u) == [u EXCEPT !.bpp = n, !.pixels = pixels]
<1>1. \A u : Pictured(u, type, a, b, n, pixels) = Rest(Half(u))
  BY DEF Pictured
<1>2. DOMAIN v = {"type", "w", "h", "bpp", "pixels", "palette", "offset", "meta"}
  BY DEF BitmapVal
<1>3. Half([v EXCEPT !.meta = m]) = [Half(v) EXCEPT !.meta = m] /\ DOMAIN Half(v) = DOMAIN v
  BY <1>2
<1> HIDE DEF Half
<1>4. Rest([Half(v) EXCEPT !.meta = m]) = [Rest(Half(v)) EXCEPT !.meta = m]
  BY <1>2, <1>3
<1> HIDE DEF Rest
<1> QED BY <1>1, <1>3, <1>4

LEMMA BothPutOf ==
  ASSUME NEW p, NEW q, NEW r, NEW t, NEW c, NEW d, NEW w, NEW x,
         r = Put(c, p, w), t = Put(d, q, x), x = [w EXCEPT !.meta = q.v.meta]
  PROVE  BothPut(p, q, r, t)
BY DEF BothPut, PutBoth

LEMMA BitmapTwin ==
  ASSUME Tables, NEW p \in Parsers(BitmapVal), NEW q \in Parsers(BitmapVal),
         q.v = [p.v EXCEPT !.meta = q.v.meta], NEW s \in BitmapForm, s.set # "meta"
  PROVE  BothPut(p, q, BitmapSet(p, s), BitmapSet(q, s))
<1>1. /\ p.v \in BitmapVal /\ (\A c : ErrIf(c, p).v = p.v) /\ p = ErrIf(FALSE, p)
      /\ q.v \in BitmapVal /\ (\A c : ErrIf(c, q).v = q.v) /\ q = ErrIf(FALSE, q)
  BY ParserHas, ErrIfHas DEF ErrIf
<1> DEFINE Good(u) == u \in Parsers(BitmapVal) /\ u.v \in BitmapVal /\ u = ErrIf(FALSE, u) /\ \A c : ErrIf(c, u).v = u.v
<1>0. Good(p) /\ Good(q)
  BY <1>1
<1>2. CASE s.set = "pixels"
  <2> DEFINE size == s.size[1] * s.size[2]
             kept == Fitting(s.list, s.n)
             c == size = 0 \/ s.n \notin 1 .. 8 \/ kept # s.list \/ Len(kept) # size
             Become(v) == Pictured(v, "paletted", s.size[1], s.size[2], s.n, Filled(kept, size))
  <2>1. ASSUME NEW u, Good(u) PROVE BitmapSet(u, s) = Put(c, u, Become(u.v))
    BY <2>1, <1>2 DEF BitmapSet, Put, Pictured
  <2>2. Become(q.v) = [Become(p.v) EXCEPT !.meta = q.v.meta]
    BY <1>1, PicturedTwin
  <2> HIDE DEF c, Become, Good
  <2>3. BitmapSet(p, s) = Put(c, p, Become(p.v)) /\ BitmapSet(q, s) = Put(c, q, Become(q.v))
    BY <1>0, <2>1
  <2> QED BY <2>2, <2>3, BothPutOf
<1>3. CASE s.set = "png"
  <2> DEFINE c == s.size[1] * s.size[2] = 0 \/ Len(s.list) # s.n
             Become(v) == Pictured(v, "png", s.size[1], s.size[2], 0, Filled(s.list, s.n))
  <2>1. ASSUME NEW u, Good(u) PROVE BitmapSet(u, s) = Put(c, u, Become(u.v))
    BY <2>1, <1>3 DEF BitmapSet, Put, Pictured
  <2>2. Become(q.v) = [Become(p.v) EXCEPT !.meta = q.v.meta]
    BY <1>1, PicturedTwin
  <2> HIDE DEF c, Become, Good
  <2>3. BitmapSet(p, s) = Put(c, p, Become(p.v)) /\ BitmapSet(q, s) = Put(c, q, Become(q.v))
    BY <1>0, <2>1
  <2> QED BY <2>2, <2>3, BothPutOf
<1>4. CASE s.set = "source"
  <2> DEFINE Picture(v) == Pictured(v, "png", s.size[1], s.size[2], 0, s.list)
             Become(v) == [Picture(v) EXCEPT !.palette = -1]
  <2>1. ASSUME NEW u, Good(u) PROVE BitmapSet(u, s) = Put(FALSE, u, Become(u.v))
    BY <2>1, <1>4 DEF BitmapSet, Put, Pictured
  <2>2. Picture(q.v) = [Picture(p.v) EXCEPT !.meta = q.v.meta]
    BY <1>1, PicturedTwin
  <2> HIDE DEF Picture
  <2>3. Become(q.v) = [Become(p.v) EXCEPT !.meta = q.v.meta]
    BY <2>2
  <2> HIDE DEF Become, Good
  <2>4. BitmapSet(p, s) = Put(FALSE, p, Become(p.v)) /\ BitmapSet(q, s) = Put(FALSE, q, Become(q.v))
    BY <1>0, <2>1
  <2> QED BY <2>3, <2>4, BothPutOf
<1>5. CASE s.set = "palette"
  <2> DEFINE c == Missing("palette", s.ref)
             Become(v) == [v EXCEPT !.palette = Found("palette", s.ref)]
  <2>1. ASSUME NEW u, Good(u) PROVE BitmapSet(u, s) = Put(c, u, Become(u.v))
    BY <2>1, <1>5 DEF BitmapSet, Put
  <2>2. Become(q.v) = [Become(p.v) EXCEPT !.meta = q.v.meta]
    BY <1>1 DEF BitmapVal
  <2> HIDE DEF c, Become, Good
  <2>3. BitmapSet(p, s) = Put(c, p, Become(p.v)) /\ BitmapSet(q, s) = Put(c, q, Become(q.v))
    BY <1>0, <2>1
  <2> QED BY <2>2, <2>3, BothPutOf
<1>6. CASE s.set = "offset"
  <2> DEFINE Become(v) == [v EXCEPT !.offset = s.n]
  <2>1. ASSUME NEW u, Good(u) PROVE BitmapSet(u, s) = Put(FALSE, u, Become(u.v))
    BY <2>1, <1>6 DEF BitmapSet, Put
  <2>2. Become(q.v) = [Become(p.v) EXCEPT !.meta = q.v.meta]
    BY <1>1 DEF BitmapVal
  <2> HIDE DEF Become, Good
  <2>3. BitmapSet(p, s) = Put(FALSE, p, Become(p.v)) /\ BitmapSet(q, s) = Put(FALSE, q, Become(q.v))
    BY <1>0, <2>1
  <2> QED BY <2>2, <2>3, BothPutOf
<1>7. CASE s.set = "percent"
  <2> DEFINE c(u) == u.v.w = 0
             Become(v) == [v EXCEPT !.offset = (v.w * s.n + 50) \div 100]
  <2>1. ASSUME NEW u, Good(u) PROVE BitmapSet(u, s) = Put(c(u), u, Become(u.v))
    BY <2>1, <1>7 DEF BitmapSet, Put
  <2>2. Become(q.v) = [Become(p.v) EXCEPT !.meta = q.v.meta]
    <3> DEFINE i == (p.v.w * s.n + 50) \div 100
    <3>1. q.v.w = p.v.w
      BY <1>1 DEF BitmapVal
    <3>2. Become(p.v) = [p.v EXCEPT !.offset = i] /\ Become(q.v) = [q.v EXCEPT !.offset = i]
      BY <3>1
    <3> HIDE DEF i, Become
    <3> QED BY <1>1, <3>2 DEF BitmapVal
  <2> HIDE DEF c, Become, Good
  <2>3. BitmapSet(p, s) = Put(c(p), p, Become(p.v)) /\ BitmapSet(q, s) = Put(c(q), q, Become(q.v))
    BY <1>0, <2>1
  <2> QED BY <2>2, <2>3, BothPutOf
<1>8. s.set \in {"pixels", "png", "source", "palette", "offset", "percent"}
  BY DEF BitmapForm, MetaForm
<1> QED BY <1>2, <1>3, <1>4, <1>5, <1>6, <1>7, <1>8

(* A setting with no metadata leaves the lists as they were, and the same    *)
(* for both.                                                                 *)
LEMMA SettingTwin ==
  ASSUME Tables, NEW kind \in Marked4, NEW p \in Parsers(Val(kind)), NEW q \in Parsers(Val(kind)),
         q.v = [p.v EXCEPT !.meta = q.v.meta], NEW s \in Form(kind), s.set # "meta"
  PROVE  BothPut(p, q, Setting(kind, p, s), Setting(kind, q, s))
<1>1. CASE kind = "style"
  BY <1>1, StyleTwin, ValsAre, FormsAre DEF Setting
<1>2. CASE kind = "region"
  BY <1>2, RegionTwin, ValsAre, FormsAre DEF Setting
<1>3. CASE kind = "palette"
  BY <1>3, PaletteTwin, ValsAre, FormsAre DEF Setting
<1>4. CASE kind = "bitmap"
  BY <1>4, BitmapTwin, ValsAre, FormsAre DEF Setting
<1> QED BY <1>1, <1>2, <1>3, <1>4 DEF Marked4

LEMMA SettingPuts ==
  ASSUME Tables, NEW kind \in Marked4, NEW p \in Parsers(Val(kind)), NEW s \in Form(kind), s.set # "meta"
  PROVE  Puts(kind, p, Setting(kind, p, s)) \/ Setting(kind, p, s) = Err(p)
<1>1. CASE kind = "style"
  BY <1>1, StyleSetIs, ValsAre, FormsAre DEF Setting
<1>2. CASE kind = "region"
  BY <1>2, RegionSetIs, ValsAre, FormsAre DEF Setting
<1>3. CASE kind = "palette"
  BY <1>3, PaletteSetIs, ValsAre, FormsAre DEF Setting
<1>4. CASE kind = "bitmap"
  BY <1>4, BitmapSetIs, ValsAre, FormsAre DEF Setting
<1> QED BY <1>1, <1>2, <1>3, <1>4 DEF Marked4

LEMMA SettingStill ==
  ASSUME Tables, NEW kind \in Marked4, NEW p \in Parsers(Val(kind)), NEW s \in Form(kind), s.set # "meta"
  PROVE  /\ Setting(kind, p, s) \in Parsers(Val(kind)) /\ Setting(kind, p, s).metas = p.metas
         /\ Setting(kind, p, s).v.meta = p.v.meta /\ Setting(kind, p, s).phase = p.phase
<1> DEFINE r == Setting(kind, p, s)
<1>0. HasMeta(kind)
  BY DEF HasMeta, Marked4
<1>1. Puts(kind, p, r) \/ r = Err(p)
  BY SettingPuts
<1> HIDE DEF r
<1>2. CASE r = Err(p)
  BY <1>2, ErrIs DEF r
<1>3. CASE Puts(kind, p, r)
  <2>1. PICK c : \E w \in Val(kind) : r = Put(c, p, w) /\ (HasMeta(kind) => w.meta = p.v.meta)
    BY <1>3 DEF Puts
  <2>2. PICK w \in Val(kind) : r = Put(c, p, w) /\ (HasMeta(kind) => w.meta = p.v.meta)
    BY <2>1
  <2>3. r \in Parsers(Val(kind)) /\ r.v = w /\ r.metas = p.metas /\ r.phase = p.phase
    BY <2>2, PutIs
  <2> QED BY <1>0, <2>2, <2>3 DEF r
<1> QED BY <1>1, <1>2, <1>3

LEMMA PutValue ==
  ASSUME NEW V, NEW p \in Parsers(V), NEW c, NEW w
  PROVE  Put(c, p, w).v = w
<1> DEFINE q == ErrIf(c, p)
<1>1. q \in Parsers(V)
  BY ErrIfIs
<1> HIDE DEF q
<1>2. [q EXCEPT !.v = w].v = w
  BY <1>1 DEF Parsers
<1> QED BY <1>2 DEF Put, q

LEMMA SettingAlso ==
  ASSUME Tables, NEW kind \in Marked4, NEW p \in Parsers(Val(kind)), NEW q \in Parsers(Val(kind)),
         q.v = [p.v EXCEPT !.meta = q.v.meta], NEW s \in Form(kind), s.set # "meta"
  PROVE  Setting(kind, q, s).v = [Setting(kind, p, s).v EXCEPT !.meta = q.v.meta]
<1> DEFINE r == Setting(kind, p, s)
           t == Setting(kind, q, s)
<1>1. BothPut(p, q, r, t)
  BY SettingTwin
<1>2. (\A c, w : Put(c, p, w).v = w) /\ (\A c, w : Put(c, q, w).v = w) /\ Err(p).v = p.v /\ Err(q).v = q.v
  <2>1. \A c, w : Put(c, p, w).v = w
    <3> TAKE c, w
    <3> QED BY PutValue
  <2>2. \A c, w : Put(c, q, w).v = w
    <3> TAKE c, w
    <3> QED BY PutValue
  <2> QED BY <2>1, <2>2, ErrIs
<1> HIDE DEF r, t
<1>3. CASE r = Err(p) /\ t = Err(q)
  BY <1>2, <1>3 DEF r, t
<1>4. CASE PutBoth(p, q, r, t)
  <2>1. PICK c, d : \E w, x : r = Put(c, p, w) /\ t = Put(d, q, x) /\ x = [w EXCEPT !.meta = q.v.meta]
    BY <1>4 DEF PutBoth
  <2>2. PICK w, x : r = Put(c, p, w) /\ t = Put(d, q, x) /\ x = [w EXCEPT !.meta = q.v.meta]
    BY <2>1
  <2>3. r.v = w /\ t.v = x
    BY <1>2, <2>2
  <2> QED BY <2>2, <2>3 DEF r, t
<1> QED BY <1>1, <1>3, <1>4 DEF BothPut

(* What metadata a body adds: to the list of the value it started from, if   *)
(* it had one, and else to a new list.                                       *)
Traced(p, r) ==
  /\ Len(p.metas) <= Len(r.metas)
  /\ \A i \in 1 .. Len(p.metas) : i # p.v.meta => r.metas[i] = p.metas[i]
  /\ IF p.v.meta # 0 THEN r.v.meta = p.v.meta ELSE r.v.meta = 0 \/ r.v.meta > Len(p.metas)

LEMMA KinHas ==
  ASSUME NEW kind \in Marked4, NEW p \in Kin(kind)
  PROVE  /\ p \in Parsers(Val(kind)) /\ p.v \in Val(kind) /\ p.v.meta \in Nat /\ p.v.meta <= Len(p.metas)
         /\ p.metas \in Seq(Seq(Leaf)) /\ Len(p.metas) \in Nat
<1>1. p \in Parsers(Val(kind)) /\ p.v.meta <= Len(p.metas)
  BY DEF Kin
<1>2. p.v \in Val(kind) /\ p.metas \in Seq(Seq(Leaf)) /\ Len(p.metas) \in Nat
  BY <1>1, ParserHas
<1> QED BY <1>1, <1>2, MetaHas

LEMMA TracedBoth ==
  ASSUME NEW kind \in Marked4, NEW p \in Kin(kind), NEW q \in Kin(kind), NEW r \in Kin(kind),
         Traced(p, q), Traced(q, r)
  PROVE  Traced(p, r)
<1>1. /\ p.v.meta \in Nat /\ q.v.meta \in Nat /\ r.v.meta \in Nat
      /\ Len(p.metas) \in Nat /\ Len(q.metas) \in Nat /\ Len(r.metas) \in Nat
  BY KinHas
<1>2. \A i \in 1 .. Len(p.metas) : i # p.v.meta => r.metas[i] = p.metas[i]
  <2> TAKE i \in 1 .. Len(p.metas)
  <2> HAVE i # p.v.meta
  <2>1. i \in 1 .. Len(q.metas) /\ i # q.v.meta
    BY <1>1 DEF Traced
  <2> QED BY <1>1, <2>1 DEF Traced
<1> QED BY <1>1, <1>2 DEF Traced

LEMMA TracedItself == ASSUME NEW kind \in Marked4, NEW p \in Kin(kind) PROVE Traced(p, p)
<1>1. Len(p.metas) \in Nat /\ p.v.meta \in Nat
  BY KinHas
<1> QED BY <1>1 DEF Traced

LEMMA AddMetaTraces ==
  ASSUME NEW kind \in {"style", "region", "bitmap"}, NEW p \in Kin(kind),
         NEW l \in [tag : STRING, value : STRING], NEW r, r = AddMeta(p, l)
  PROVE  /\ r \in Kin(kind) /\ r.v = [p.v EXCEPT !.meta = r.v.meta] /\ Traced(p, r)
         /\ r.phase = IF l.tag = "bad" THEN "exited" ELSE p.phase
         /\ Held(r.v, r.metas) = IF l.tag = "bad" THEN Held(p.v, p.metas)
                                 ELSE Append(Held(p.v, p.metas), StoredLeaf(l))
<1> DEFINE q == ErrIf(l.value = "long", p)
           leaf == StoredLeaf(l)
           new == [q EXCEPT !.metas = Append(@, <<leaf>>), !.v.meta = Len(p.metas) + 1]
           more == [q EXCEPT !.metas[p.v.meta] = Append(@, leaf)]
<1>a. kind \in Marked4
  BY DEF Marked4
<1>0. /\ p \in Parsers(Val(kind)) /\ p.v \in Val(kind) /\ p.metas \in Seq(Seq(Leaf)) /\ Len(p.metas) \in Nat
      /\ p.v.meta \in Nat /\ p.v.meta <= Len(p.metas)
  BY <1>a, KinHas
<1>1. /\ \A m \in Nat : [p.v EXCEPT !.meta = m] \in Val(kind) /\ [p.v EXCEPT !.meta = m].meta = m
      /\ [p.v EXCEPT !.meta = p.v.meta] = p.v
  BY <1>0, <1>a, MetaHas
<1>3. leaf \in Leaf
  BY StoredLeafIs
<1>4. q \in Parsers(Val(kind)) /\ q.v = p.v /\ q.metas = p.metas /\ q.phase = p.phase
  BY <1>0, ErrIfIs
<1>5. AddMeta(p, l) = IF l.tag = "bad" THEN Ended(p, "exited") ELSE IF p.v.meta = 0 THEN new ELSE more
  BY DEF AddMeta
<1> HIDE DEF q, leaf
<1>6. CASE l.tag = "bad"
  <2>1. r = Ended(p, "exited")
    BY <1>5, <1>6
  <2>2. r \in Parsers(Val(kind)) /\ r.v = p.v /\ r.metas = p.metas
    BY <2>1, <1>0, EndedIs
  <2>3. r.phase = "exited"
    BY <2>1, <1>0 DEF Ended, Err, Parsers
  <2>4. r \in Kin(kind)
    BY <2>2, <1>0 DEF Kin
  <2>5. Traced(p, r)
    BY <2>2, <1>0 DEF Traced
  <2> QED BY <1>1, <1>6, <2>2, <2>3, <2>4, <2>5 DEF Held
<1>7. CASE l.tag # "bad" /\ p.v.meta = 0
  <2> DEFINE metas == Append(p.metas, <<leaf>>)
             v == [p.v EXCEPT !.meta = Len(p.metas) + 1]
             u == Listed(q, metas, v)
  <2>0. r = new
    BY <1>5, <1>7
  <2>1. metas \in Seq(Seq(Leaf)) /\ Len(metas) = Len(p.metas) + 1 /\ metas[Len(p.metas) + 1] = <<leaf>>
    BY <1>0, <1>3
  <2>9. \A i \in 1 .. Len(p.metas) : metas[i] = p.metas[i]
    BY <1>0
  <2>2. v \in Val(kind) /\ v.meta = Len(p.metas) + 1
    <3>1. Len(p.metas) + 1 \in Nat
      BY <1>0
    <3> QED BY <1>1, <3>1
  <2>4. new = u
    BY <1>4 DEF Parsers, Listed
  <2>6. u.phase = q.phase
    BY <1>4 DEF Parsers, Listed
  <2>8. v = [p.v EXCEPT !.meta = v.meta]
    BY <2>2
  <2> HIDE DEF metas, v, new
  <2>5. u \in Parsers(Val(kind)) /\ u.v = v /\ u.metas = metas
    <3>1. Len(q.metas) <= Len(metas)
      BY <1>0, <1>4, <2>1
    <3> QED BY <1>4, <2>1, <2>2, <3>1, ListedIs
  <2> HIDE DEF u
  <2>7. r = u
    BY <2>0, <2>4
  <2>10. Held(r.v, r.metas) = Append(Held(p.v, p.metas), StoredLeaf(l))
    <3>1. Held(p.v, p.metas) = <<>> /\ Append(<<>>, leaf) = <<leaf>>
      BY <1>7 DEF Held
    <3>2. Held(r.v, r.metas) = <<leaf>>
      BY <1>0, <2>1, <2>2, <2>5, <2>7 DEF Held
    <3> QED BY <3>1, <3>2 DEF leaf
  <2>11. r \in Kin(kind) /\ Traced(p, r)
    <3>1. r \in Parsers(Val(kind)) /\ r.metas = metas /\ r.v.meta = Len(p.metas) + 1
      BY <2>2, <2>5, <2>7
    <3>2. Len(p.metas) + 1 > Len(p.metas) /\ Len(p.metas) + 1 <= Len(metas) /\ Len(p.metas) <= Len(metas)
      BY <1>0, <2>1
    <3>3. r \in Kin(kind)
      BY <3>1, <3>2 DEF Kin
    <3>4. Traced(p, r)
      BY <1>7, <2>9, <3>1, <3>2 DEF Traced
    <3> QED BY <3>3, <3>4
  <2> QED BY <1>4, <1>7, <2>5, <2>6, <2>7, <2>8, <2>10, <2>11
<1>8. CASE l.tag # "bad" /\ p.v.meta # 0
  <2> DEFINE e == Append(p.metas[p.v.meta], leaf)
             metas == [p.metas EXCEPT ![p.v.meta] = e]
             u == Listed(q, metas, p.v)
  <2>0. r = more
    BY <1>5, <1>8
  <2>a. p.v.meta \in 1 .. Len(p.metas)
    BY <1>0, <1>8
  <2>1. metas \in Seq(Seq(Leaf)) /\ Len(metas) = Len(p.metas)
    <3>2. e \in Seq(Leaf)
      BY <1>0, <1>3, <2>a
    <3> HIDE DEF e
    <3> QED BY <1>0, <2>a, <3>2, OneSetIs
  <2>b. metas[p.v.meta] = e /\ \A i \in 1 .. Len(p.metas) : i # p.v.meta => metas[i] = p.metas[i]
    <3> HIDE DEF e
    <3> QED BY <1>0, <2>a
  <2>2. more = u
    <3>1. q.v = p.v /\ q.metas = p.metas
      BY <1>4
    <3> QED BY <1>4, <3>1 DEF Parsers, Listed
  <2>6. u.phase = q.phase
    BY <1>4 DEF Parsers, Listed
  <2> HIDE DEF metas, more
  <2>3. u \in Parsers(Val(kind)) /\ u.v = p.v /\ u.metas = metas
    <3>1. Len(q.metas) <= Len(metas)
      BY <1>0, <1>4, <2>1
    <3> QED BY <1>0, <1>4, <2>1, <3>1, ListedIs
  <2> HIDE DEF u
  <2>4. r = u
    BY <2>0, <2>2
  <2>5. Held(r.v, r.metas) = Append(Held(p.v, p.metas), StoredLeaf(l))
    BY <1>8, <2>3, <2>4, <2>b DEF Held, leaf
  <2>7. r \in Kin(kind) /\ Traced(p, r)
    <3>1. r \in Parsers(Val(kind)) /\ r.metas = metas /\ r.v.meta = p.v.meta
      BY <2>3, <2>4
    <3>2. Len(p.metas) <= Len(metas) /\ p.v.meta <= Len(metas)
      BY <1>0, <2>1
    <3>3. r \in Kin(kind)
      BY <3>1, <3>2 DEF Kin
    <3>4. Traced(p, r)
      BY <1>8, <2>b, <3>1, <3>2 DEF Traced
    <3> QED BY <3>3, <3>4
  <2> QED BY <1>1, <1>4, <1>8, <2>3, <2>4, <2>5, <2>6, <2>7
<1> QED BY <1>6, <1>7, <1>8

-----------------------------------------------------------------------------
(* A body, read from two values that differ by their list.                   *)

Twins(kind, p, q) ==
  /\ p \in Kin(kind) /\ q \in Kin(kind) /\ p.phase = q.phase /\ q.v = [p.v EXCEPT !.meta = q.v.meta]
TwinLeaves(p, q) == Held(p.v, p.metas) = Held(q.v, q.metas)
Quiet(p, r) == r.metas = p.metas /\ r.v.meta = p.v.meta

LEMMA StepTwins ==
  ASSUME Tables, NEW kind \in Marked4, NEW p, NEW q, Twins(kind, p, q), NEW s \in Form(kind),
         s.set = "meta" => kind # "palette", NEW r, r = ItemStep(kind, p, s), NEW t, t = ItemStep(kind, q, s)
  PROVE  /\ Twins(kind, r, t) /\ Traced(p, r)
         /\ TwinLeaves(p, q) => TwinLeaves(r, t)
         /\ s.set # "meta" => Quiet(p, r)
<1>0. /\ p \in Kin(kind) /\ q \in Kin(kind) /\ p.phase = q.phase /\ q.v = [p.v EXCEPT !.meta = q.v.meta]
      /\ p \in Parsers(Val(kind)) /\ q \in Parsers(Val(kind)) /\ (Going(p) <=> Going(q))
  BY KinHas DEF Twins, Going
<1>1. CASE ~Going(p)
  <2>1. r = p /\ t = q
    BY <1>0, <1>1 DEF ItemStep
  <2> QED BY <1>0, <2>1, TracedItself DEF Twins, Quiet
<1>2. CASE Going(p) /\ s.set # "meta"
  <2>1. r = Setting(kind, p, s) /\ t = Setting(kind, q, s)
    BY <1>0, <1>2 DEF ItemStep
  <2>2. /\ r \in Parsers(Val(kind)) /\ r.metas = p.metas /\ r.v.meta = p.v.meta /\ r.phase = p.phase
        /\ t \in Parsers(Val(kind)) /\ t.metas = q.metas /\ t.v.meta = q.v.meta /\ t.phase = q.phase
    BY <1>0, <1>2, <2>1, SettingStill
  <2>3. t.v = [r.v EXCEPT !.meta = q.v.meta]
    BY <1>0, <1>2, <2>1, SettingAlso
  <2>4. r \in Kin(kind) /\ t \in Kin(kind)
    BY <1>0, <2>2 DEF Kin
  <2>5. TwinLeaves(p, q) => TwinLeaves(r, t)
    BY <2>2 DEF TwinLeaves, Held
  <2>6. Traced(p, r)
    <3>1. Len(p.metas) \in Nat /\ p.v.meta \in Nat
      BY <1>0, KinHas
    <3> QED BY <2>2, <3>1 DEF Traced
  <2> QED BY <1>0, <1>2, <2>2, <2>3, <2>4, <2>5, <2>6 DEF Twins, Quiet
<1>3. CASE Going(p) /\ s.set = "meta"
  <2>0. kind \in {"style", "region", "bitmap"}
    BY <1>3 DEF Marked4
  <2>1. s.leaf \in [tag : STRING, value : STRING]
    <3>1. CASE kind = "style"
      BY <1>3, <3>1, FormsAre DEF StyleForm, MetaForm
    <3>2. CASE kind = "region"
      BY <1>3, <3>2, FormsAre DEF RegionForm, MetaForm
    <3>3. CASE kind = "bitmap"
      BY <1>3, <3>3, FormsAre DEF BitmapForm, MetaForm
    <3> QED BY <2>0, <3>1, <3>2, <3>3
  <2>2. r = AddMeta(p, s.leaf) /\ t = AddMeta(q, s.leaf)
    <3>1. r = Setting(kind, p, s) /\ t = Setting(kind, q, s)
      BY <1>0, <1>3 DEF ItemStep
    <3>2. CASE kind = "style"
      BY <1>3, <3>1, <3>2 DEF Setting, StyleSet
    <3>3. CASE kind = "region"
      BY <1>3, <3>1, <3>3 DEF Setting, RegionSet
    <3>4. CASE kind = "bitmap"
      BY <1>3, <3>1, <3>4 DEF Setting, BitmapSet
    <3> QED BY <2>0, <3>2, <3>3, <3>4
  <2>3. /\ r \in Kin(kind) /\ r.v = [p.v EXCEPT !.meta = r.v.meta] /\ Traced(p, r)
        /\ r.phase = IF s.leaf.tag = "bad" THEN "exited" ELSE p.phase
        /\ Held(r.v, r.metas) = IF s.leaf.tag = "bad" THEN Held(p.v, p.metas)
                                ELSE Append(Held(p.v, p.metas), StoredLeaf(s.leaf))
    BY <1>0, <2>0, <2>1, <2>2, AddMetaTraces
  <2>4. /\ t \in Kin(kind) /\ t.v = [q.v EXCEPT !.meta = t.v.meta] /\ Traced(q, t)
        /\ t.phase = IF s.leaf.tag = "bad" THEN "exited" ELSE q.phase
        /\ Held(t.v, t.metas) = IF s.leaf.tag = "bad" THEN Held(q.v, q.metas)
                                ELSE Append(Held(q.v, q.metas), StoredLeaf(s.leaf))
    BY <1>0, <2>0, <2>1, <2>2, AddMetaTraces
  <2>5. t.v = [r.v EXCEPT !.meta = t.v.meta]
    <3>1. p.v \in Val(kind)
      BY <1>0, KinHas
    <3>2. \A m, n : [[p.v EXCEPT !.meta = m] EXCEPT !.meta = n] = [p.v EXCEPT !.meta = n]
      BY <3>1, MetaHas
    <3> DEFINE a == q.v.meta
               b == r.v.meta
               c == t.v.meta
    <3>3. q.v = [p.v EXCEPT !.meta = a] /\ r.v = [p.v EXCEPT !.meta = b] /\ t.v = [q.v EXCEPT !.meta = c]
      BY <1>0, <2>3, <2>4
    <3> HIDE DEF a, b, c
    <3>4. t.v = [r.v EXCEPT !.meta = c]
      BY <3>2, <3>3
    <3> QED BY <3>4 DEF c
  <2>6. TwinLeaves(p, q) => TwinLeaves(r, t)
    BY <2>3, <2>4 DEF TwinLeaves
  <2> QED BY <1>0, <1>3, <2>3, <2>4, <2>5, <2>6 DEF Twins
<1> QED BY <1>1, <1>2, <1>3

LEMMA KinStep ==
  ASSUME Tables, NEW kind \in Marked4, NEW p \in Kin(kind), NEW s \in Form(kind), s.set = "meta" => kind # "palette"
  PROVE  ItemStep(kind, p, s) \in Kin(kind)
<1>1. Twins(kind, p, p)
  <2>1. p.v = [p.v EXCEPT !.meta = p.v.meta]
    BY KinHas, MetaHas
  <2> QED BY <2>1 DEF Twins
<1>2. Twins(kind, ItemStep(kind, p, s), ItemStep(kind, p, s))
  BY <1>1, StepTwins
<1> QED BY <1>2 DEF Twins

Adds(body) == \E i \in DOMAIN body : body[i].set = "meta"
LEMMA BodyTwins ==
  ASSUME Tables, NEW kind \in Marked4, NEW p, NEW q, Twins(kind, p, q), NEW ok, NEW body, Says(kind, ok, body),
         NEW r, r = ItemBody(kind, p, body), NEW t, t = ItemBody(kind, q, body)
  PROVE  /\ Twins(kind, r, t) /\ Traced(p, r)
         /\ TwinLeaves(p, q) => TwinLeaves(r, t)
         /\ ~Adds(body) => Quiet(p, r)
<1> DEFINE n == Len(body)
<1>0. /\ body \in Seq(Form(kind)) /\ n \in Nat
      /\ \A k \in 1 .. n : body[k] \in Form(kind) /\ (body[k].set = "meta" => kind # "palette")
  BY DEF Says, Said1, Marked4
<1>1. p \in Kin(kind) /\ q \in Kin(kind)
  BY DEF Twins
<1>2. \A u \in Kin(kind) : \A k \in 1 .. n : ItemStep(kind, u, body[k]) \in Kin(kind)
  BY <1>0, KinStep
<1>3. PICK f \in [0 .. n -> Kin(kind)] :
        f[0] = p /\ r = f[n] /\ \A k \in 1 .. n : f[k] = ItemStep(kind, f[k - 1], body[k])
  <2>1. ItemBodyStays(Kin(kind), Form(kind), p, kind, body)
    BY <1>0, <1>1, <1>2 DEF ItemBodyStays
  <2> QED BY <2>1, ItemBodyGoes
<1>4. PICK g \in [0 .. n -> Kin(kind)] :
        g[0] = q /\ t = g[n] /\ \A k \in 1 .. n : g[k] = ItemStep(kind, g[k - 1], body[k])
  <2>1. ItemBodyStays(Kin(kind), Form(kind), q, kind, body)
    BY <1>0, <1>1, <1>2 DEF ItemBodyStays
  <2> QED BY <2>1, ItemBodyGoes
<1> DEFINE Still(k) == /\ Twins(kind, f[k], g[k]) /\ Traced(p, f[k])
                       /\ TwinLeaves(p, q) => TwinLeaves(f[k], g[k])
                       /\ ~Adds(body) => Quiet(p, f[k])
           So == {k \in 0 .. n : Still(k)}
<1>5. 0 \in So
  <2>1. Traced(p, p) /\ Quiet(p, p)
    BY <1>1, TracedItself DEF Quiet
  <2> QED BY <1>0, <1>3, <1>4, <2>1
<1>6. ASSUME NEW k \in 1 .. n, k - 1 \in So PROVE k \in So
  <2>1. Still(k - 1) /\ k - 1 \in 0 .. n /\ k \in 0 .. n
    BY <1>6, <1>0
  <2>2. f[k] = ItemStep(kind, f[k - 1], body[k]) /\ g[k] = ItemStep(kind, g[k - 1], body[k])
    BY <1>3, <1>4
  <2>3. body[k] \in Form(kind) /\ (body[k].set = "meta" => kind # "palette")
    BY <1>0
  <2>4. /\ Twins(kind, f[k], g[k]) /\ Traced(f[k - 1], f[k])
        /\ TwinLeaves(f[k - 1], g[k - 1]) => TwinLeaves(f[k], g[k])
        /\ body[k].set # "meta" => Quiet(f[k - 1], f[k])
    BY <2>1, <2>2, <2>3, StepTwins
  <2>5. Traced(p, f[k])
    <3>1. f[k - 1] \in Kin(kind) /\ f[k] \in Kin(kind)
      BY <2>1
    <3> QED BY <1>1, <2>1, <2>4, <3>1, TracedBoth
  <2>6. ~Adds(body) => Quiet(p, f[k])
    <3>1. ~Adds(body) => body[k].set # "meta"
      BY <1>0 DEF Adds
    <3> QED BY <2>1, <2>4, <3>1 DEF Quiet
  <2> QED BY <2>1, <2>4, <2>5, <2>6
<1> HIDE DEF So, Still
<1>7. n \in So
  <2>1. \A k \in 0 .. n : k \in So
    <3> HIDE DEF n
    <3> QED BY <1>0, <1>5, <1>6, UpTo
  <2> QED BY <1>0, <2>1
<1>8. Still(n)
  BY <1>7 DEF So
<1> QED BY <1>3, <1>4, <1>8 DEF Still

(* And the item it makes.                                                    *)
LEMMA ErrIfWrong == ASSUME NEW V, NEW p \in Parsers(V), NEW c, ~ErrIf(c, p).wrong PROVE ErrIf(c, p) = p
BY ErrIfIs DEF ErrIf

LEMMA KeptHas ==
  ASSUME NEW kind \in Marked4, NEW p \in Parsers(Val(kind))
  PROVE  /\ Kept(kind, p).v = p.v /\ Kept(kind, p).metas = p.metas /\ Kept(kind, p).phase = p.phase
         /\ Kept(kind, p).wrong = p.wrong
BY DEF Kept, Parsers, Marked4
LEMMA CheckedHas ==
  ASSUME NEW kind, NEW p \in Parsers(Val(kind))
  PROVE  /\ Checked(kind, p).v = p.v /\ Checked(kind, p).metas = p.metas /\ Checked(kind, p).phase = p.phase
         /\ Checked(kind, p) \in Parsers(Val(kind))
BY ErrIfIs DEF Checked

LEMMA SealedTwins ==
  ASSUME NEW kind \in Marked4, NEW p, NEW q, Twins(kind, p, q)
  PROVE  /\ TwinLeaves(p, q) => Sealed(kind, p.v, p.metas) = Sealed(kind, q.v, q.metas)
         /\ [Sealed(kind, p.v, p.metas) EXCEPT !.meta = <<>>] = [Sealed(kind, q.v, q.metas) EXCEPT !.meta = <<>>]
<1>1. p.v \in Val(kind) /\ HasMeta(kind) /\ "meta" \in DOMAIN p.v
      /\ \A m, n : [[p.v EXCEPT !.meta = m] EXCEPT !.meta = n] = [p.v EXCEPT !.meta = n]
  BY KinHas, MetaHas DEF Twins
<1> DEFINE a == Held(p.v, p.metas)
           b == Held(q.v, q.metas)
           m == q.v.meta
<1>2. Sealed(kind, p.v, p.metas) = [p.v EXCEPT !.meta = a]
  BY <1>1 DEF Sealed, Held
<1>3. Sealed(kind, q.v, q.metas) = [q.v EXCEPT !.meta = b]
  BY <1>1 DEF Sealed, Held
<1>4. q.v = [p.v EXCEPT !.meta = m]
  BY DEF Twins
<1>5. TwinLeaves(p, q) <=> a = b
  BY DEF TwinLeaves
<1> HIDE DEF a, b, m
<1>6. Sealed(kind, q.v, q.metas) = [p.v EXCEPT !.meta = b]
  BY <1>1, <1>3, <1>4
<1> QED BY <1>1, <1>2, <1>5, <1>6

-----------------------------------------------------------------------------
(* A motion, which has no metadata, is read the same beside any lists.       *)

With(p, M) == [p EXCEPT !.metas = M]
LEMMA WithIs ==
  ASSUME NEW V, NEW p \in Parsers(V), NEW M \in Seq(Seq(Leaf))
  PROVE  /\ With(p, M) \in Parsers(V) /\ With(p, M).metas = M
         /\ With(p, M).v = p.v /\ With(p, M).npts = p.npts /\ With(p, M).phase = p.phase
         /\ Going(With(p, M)) = Going(p) /\ With(p, M).wrong = p.wrong
<1>1. /\ With(p, M) \in Parsers(V) /\ With(p, M).metas = M
      /\ With(p, M).v = p.v /\ With(p, M).npts = p.npts /\ With(p, M).phase = p.phase
      /\ With(p, M).wrong = p.wrong
  BY DEF With, Parsers
<1> QED BY <1>1 DEF Going

LEMMA WithErr ==
  ASSUME NEW V, NEW p \in Parsers(V), NEW M \in Seq(Seq(Leaf))
  PROVE  /\ Err(With(p, M)) = With(Err(p), M)
         /\ \A c : ErrIf(c, With(p, M)) = With(ErrIf(c, p), M)
         /\ \A phase : Ended(With(p, M), phase) = With(Ended(p, phase), M)
         /\ Crashed(With(p, M)) = With(Crashed(p), M)
<1>1. Err(With(p, M)) = With(Err(p), M)
  BY DEF With, Parsers, Err
<1>2. \A c : ErrIf(c, With(p, M)) = With(ErrIf(c, p), M)
  BY <1>1 DEF ErrIf
<1>3. Err(p) \in Parsers(V)
  BY ErrIs
<1>4. \A phase : Ended(With(p, M), phase) = With(Ended(p, phase), M)
  <2> TAKE phase
  <2> DEFINE q == Err(p)
  <2>1. [With(q, M) EXCEPT !.phase = phase] = With([q EXCEPT !.phase = phase], M)
    <3> HIDE DEF q
    <3> QED BY <1>3 DEF With, Parsers, q
  <2> QED BY <1>1, <2>1 DEF Ended
<1>5. Crashed(With(p, M)) = With(Crashed(p), M)
  BY DEF With, Parsers, Crashed
<1> QED BY <1>1, <1>2, <1>4, <1>5

LEMMA WithValue ==
  ASSUME NEW V, NEW p \in Parsers(V), NEW M \in Seq(Seq(Leaf)), NEW w
  PROVE  [With(p, M) EXCEPT !.v = w] = With([p EXCEPT !.v = w], M)
BY DEF With, Parsers
LEMMA WithDrawn ==
  ASSUME NEW p \in Parsers(CurveVal), NEW M \in Seq(Seq(Leaf)), NEW c, NEW pts, NEW npts
  PROVE  Drawn(c, With(p, M), pts, npts) = With(Drawn(c, p, pts, npts), M)
<1> DEFINE q == ErrIf(c, p)
<1>1. ErrIf(c, With(p, M)) = With(q, M) /\ q \in Parsers(CurveVal)
  BY WithErr, ErrIfIs
<1> HIDE DEF q
<1>2. [With(q, M) EXCEPT !.v.pts = pts, !.npts = npts] = With([q EXCEPT !.v.pts = pts, !.npts = npts], M)
  BY <1>1 DEF With, Parsers
<1> QED BY <1>1, <1>2 DEF Drawn, q

LEMMA WithCurveSet ==
  ASSUME NEW p \in Parsers(CurveVal), NEW M \in Seq(Seq(Leaf)), NEW s \in CurveForm
  PROVE  CurveSet(With(p, M), s) = With(CurveSet(p, s), M)
<1>0. With(p, M).npts = p.npts /\ With(p, M).v = p.v /\ p.npts \in Int
  BY WithIs, ParserHas
<1>1. s.set \in {"type", "points", "open_points"}
  BY DEF CurveForm
<1>2. CASE s.set = "type"
  <2>1. CurveSet(p, s) = [p EXCEPT !.v.type = s.name, !.npts = 0]
    BY <1>2 DEF CurveSet
  <2>2. CurveSet(With(p, M), s) = [With(p, M) EXCEPT !.v.type = s.name, !.npts = 0]
    BY <1>2 DEF CurveSet
  <2>3. [With(p, M) EXCEPT !.v.type = s.name, !.npts = 0] = With([p EXCEPT !.v.type = s.name, !.npts = 0], M)
    BY DEF With, Parsers
  <2> QED BY <2>1, <2>2, <2>3
<1>3. CASE s.set = "points"
  <2>1. s.n \in Int /\ s.list \in Seq(Int)
    BY <1>3 DEF CurveForm
  <2>2. CASE p.npts < 0 \/ s.n <= 0
    <3>0. ~(p.npts >= 0 /\ s.n > 0)
      BY <1>0, <2>1, <2>2
    <3>1. CurveSet(p, s) = Ended(p, "exited")
      BY <1>3, <2>2, <3>0 DEF CurveSet
    <3>2. CurveSet(With(p, M), s) = Ended(With(p, M), "exited")
      BY <1>0, <1>3, <2>2, <3>0 DEF CurveSet
    <3> QED BY <3>1, <3>2, WithErr
  <2>3. CASE p.npts >= 0 /\ s.n > 0
    <3> DEFINE c == PointsMissing(p.npts + Len(s.list), s.n)
               pts == Placed(s.list, p.npts, 2 * s.n)
               npts == Max({p.npts, Min({p.npts + Len(s.list), 2 * s.n})})
    <3>0. ~(p.npts < 0 \/ s.n <= 0)
      BY <1>0, <2>1, <2>3
    <3>1. CurveSet(p, s) = Drawn(c, p, pts, npts)
      BY <1>3, <2>3, <3>0 DEF CurveSet, Drawn, Placed
    <3>2. CurveSet(With(p, M), s) = Drawn(c, With(p, M), pts, npts)
      BY <1>0, <1>3, <2>3, <3>0 DEF CurveSet, Drawn, Placed
    <3> HIDE DEF c, pts, npts
    <3> QED BY <3>1, <3>2, WithDrawn
  <2> QED BY <1>0, <2>1, <2>2, <2>3
<1>4. CASE s.set = "open_points"
  <2>1. s.list \in Seq(Int)
    BY <1>4 DEF CurveForm
  <2>2. CASE p.npts < 0
    <3>1. CurveSet(p, s) = Crashed(Err(p)) /\ CurveSet(With(p, M), s) = Crashed(Err(With(p, M)))
      BY <1>0, <1>4, <2>2 DEF CurveSet
    <3>2. Err(With(p, M)) = With(Err(p), M) /\ Err(p) \in Parsers(CurveVal)
      BY WithErr, ErrIs
    <3>3. Crashed(With(Err(p), M)) = With(Crashed(Err(p)), M)
      BY <3>2, WithErr
    <3> QED BY <3>1, <3>2, <3>3
  <2>3. CASE ~(p.npts < 0)
    <3> DEFINE end == p.npts + Len(s.list)
               pts == Placed(s.list, p.npts, 2 * ((end + 1) \div 2))
    <3>0. p = ErrIf(FALSE, p) /\ With(p, M) = ErrIf(FALSE, With(p, M))
      BY DEF ErrIf
    <3>1. CurveSet(p, s) = Drawn(FALSE, p, pts, end)
      <4>1. CurveSet(p, s) = [p EXCEPT !.v.pts = pts, !.npts = end]
        BY <1>4, <2>3 DEF CurveSet, Placed
      <4> QED BY <3>0, <4>1 DEF Drawn
    <3>2. CurveSet(With(p, M), s) = Drawn(FALSE, With(p, M), pts, end)
      <4>1. CurveSet(With(p, M), s) = [With(p, M) EXCEPT !.v.pts = pts, !.npts = end]
        BY <1>0, <1>4, <2>3 DEF CurveSet, Placed
      <4> QED BY <3>0, <4>1 DEF Drawn
    <3> DEFINE no == FALSE
    <3> HIDE DEF pts, end, no
    <3>4. Drawn(no, With(p, M), pts, end) = With(Drawn(no, p, pts, end), M)
      BY WithDrawn
    <3>3. Drawn(FALSE, With(p, M), pts, end) = With(Drawn(FALSE, p, pts, end), M)
      BY <3>4 DEF no
    <3> QED BY <3>1, <3>2, <3>3
  <2> QED BY <2>2, <2>3
<1> QED BY <1>1, <1>2, <1>3, <1>4

LEMMA WithCurveStep ==
  ASSUME NEW p \in Parsers(CurveVal), NEW M \in Seq(Seq(Leaf)), NEW s \in CurveForm
  PROVE  CurveStep(With(p, M), s) = With(CurveStep(p, s), M)
BY WithIs, WithCurveSet DEF CurveStep

LEMMA WithCurveBody ==
  ASSUME NEW p \in Parsers(CurveVal), NEW M \in Seq(Seq(Leaf)), NEW body \in Seq(CurveForm)
  PROVE  CurveBody(With(p, M), body) = With(CurveBody(p, body), M) /\ CurveBody(p, body) \in Parsers(CurveVal)
<1> DEFINE n == Len(body)
           S == Parsers(CurveVal)
<1>0. n \in Nat /\ (\A k \in 1 .. n : body[k] \in CurveForm) /\ With(p, M) \in S
  BY WithIs
<1>1. \A q \in S : \A k \in 1 .. n : CurveStep(q, body[k]) \in S
  BY <1>0, CurveStepIs
<1>2. PICK f \in [0 .. n -> S] :
        f[0] = p /\ CurveBody(p, body) = f[n] /\ \A k \in 1 .. n : f[k] = CurveStep(f[k - 1], body[k])
  <2>1. CurveBodyStays(S, CurveForm, p, body)
    BY <1>1 DEF CurveBodyStays
  <2> QED BY <2>1, CurveBodyGoes
<1>3. PICK g \in [0 .. n -> S] :
        /\ g[0] = With(p, M) /\ CurveBody(With(p, M), body) = g[n]
        /\ \A k \in 1 .. n : g[k] = CurveStep(g[k - 1], body[k])
  <2>1. CurveBodyStays(S, CurveForm, With(p, M), body)
    BY <1>0, <1>1 DEF CurveBodyStays
  <2> QED BY <2>1, CurveBodyGoes
<1> DEFINE So == {k \in 0 .. n : g[k] = With(f[k], M)}
<1>4. 0 \in So
  BY <1>0, <1>2, <1>3
<1>5. ASSUME NEW k \in 1 .. n, k - 1 \in So PROVE k \in So
  <2>1. g[k - 1] = With(f[k - 1], M) /\ k - 1 \in 0 .. n /\ k \in 0 .. n /\ f[k - 1] \in S
    <3>1. g[k - 1] = With(f[k - 1], M)
      BY <1>5
    <3>2. k - 1 \in 0 .. n /\ k \in 0 .. n
      <4> HIDE DEF n, So
      <4> QED BY <1>0, <1>5
    <3> QED BY <3>1, <3>2
  <2>2. CurveStep(With(f[k - 1], M), body[k]) = With(CurveStep(f[k - 1], body[k]), M)
    BY <1>0, <2>1, WithCurveStep
  <2> QED BY <1>2, <1>3, <2>1, <2>2
<1> HIDE DEF So
<1>6. n \in So
  <2>1. \A k \in 0 .. n : k \in So
    <3> HIDE DEF n
    <3> QED BY <1>0, <1>4, <1>5, UpTo
  <2> QED BY <1>0, <2>1
<1>7. g[n] = With(f[n], M) /\ f[n] \in S
  BY <1>6 DEF So
<1> QED BY <1>2, <1>3, <1>7

LEMMA WithAppend ==
  ASSUME NEW p \in Parsers(MotionVal), NEW M \in Seq(Seq(Leaf)), NEW slot, NEW d
  PROVE  /\ AppendCurve(With(p, M), slot, d) = With(AppendCurve(p, slot, d), M)
         /\ AppendCurve(p, slot, d).v.meta = p.v.meta
<1> DEFINE c == slot.at = "own" /\ CurveWrong(slot.own)
           e == ErrIf(c, p)
           f == ErrIf(c, With(p, M))
<1>1. f = With(e, M) /\ e \in Parsers(MotionVal) /\ e.v = p.v
  BY WithErr, ErrIfIs
<1>2. /\ AppendCurve(p, slot, d) = [e EXCEPT !.v.curves = Append(@, slot), !.v.durations = Append(@, d)]
      /\ AppendCurve(With(p, M), slot, d) = [f EXCEPT !.v.curves = Append(@, slot), !.v.durations = Append(@, d)]
  BY DEF AppendCurve
<1> HIDE DEF c, e, f
<1>3. e.v \in MotionVal
  BY <1>1, ParserHas
<1>4. [With(e, M) EXCEPT !.v.curves = Append(@, slot), !.v.durations = Append(@, d)]
        = With([e EXCEPT !.v.curves = Append(@, slot), !.v.durations = Append(@, d)], M)
  BY <1>1, <1>3 DEF With, Parsers, MotionVal, MotionOf
<1>5. [e EXCEPT !.v.curves = Append(@, slot), !.v.durations = Append(@, d)].v.meta = e.v.meta
  BY <1>1, <1>3 DEF Parsers, MotionVal, MotionOf
<1> QED BY <1>1, <1>2, <1>4, <1>5

LEMMA WithCurveRead ==
  ASSUME NEW p \in Parsers(CurveVal), NEW M \in Seq(Seq(Leaf)), NEW km \in MotionVal, NEW d
  PROVE  /\ CurveRead(km, With(p, M), d) = With(CurveRead(km, p, d), M)
         /\ CurveRead(km, p, d).v.meta = km.meta
<1> DEFINE z == [p EXCEPT !.v = km]
           slot == Own(p.v)
<1>1. z \in Parsers(MotionVal) /\ z.v = km
  BY ValueIs
<1>2. [With(p, M) EXCEPT !.v = km] = With(z, M)
  BY WithValue
<1>3. Going(With(p, M)) = Going(p) /\ With(p, M).v = p.v
  BY WithIs
<1>4. /\ CurveRead(km, p, d) = IF Going(p) THEN AppendCurve(z, slot, d) ELSE z
      /\ CurveRead(km, With(p, M), d) = IF Going(p) THEN AppendCurve(With(z, M), slot, d) ELSE With(z, M)
  BY <1>2, <1>3 DEF CurveRead
<1> HIDE DEF z, slot
<1>5. /\ AppendCurve(With(z, M), slot, d) = With(AppendCurve(z, slot, d), M)
      /\ AppendCurve(z, slot, d).v.meta = z.v.meta
  BY <1>1, WithAppend
<1> QED BY <1>1, <1>4, <1>5

LEMMA WithCurveGiven ==
  ASSUME Tables, NEW p \in Parsers(MotionVal), NEW M \in Seq(Seq(Leaf)), NEW s \in MotionForm, s.set = "curve"
  PROVE  CurveGiven(With(p, M), s) = With(CurveGiven(p, s), M) /\ CurveGiven(p, s).v.meta = p.v.meta
<1> DEFINE derives == s.ref # NoRef
           out == OutOf("curve", s.ref)
           c == derives /\ Missing("curve", s.ref)
           q == ErrIf(c, p)
           t == ErrIf(c, With(p, M))
           w == IF derives THEN Item("curve", s.ref) ELSE Curve0
           z == [q EXCEPT !.v = w]
           y == [t EXCEPT !.v = w]
           none == Item("curve", s.ref).pts = <<>>
           kc == InInfo(Found("curve", s.ref))
<1>1. s.ref \in Reference /\ s.braces \in BOOLEAN /\ s.body \in Seq(CurveForm) /\ s.for \in Int
  BY DEF MotionForm, MetaForm
<1> HIDE DEF c
<1>2. t = With(q, M) /\ q \in Parsers(MotionVal) /\ q.v = p.v
  BY WithErr, ErrIfIs
<1>3. With(p, M).v = p.v
  BY WithIs
<1>4. /\ CurveGiven(p, s) = CASE derives /\ out -> IF s.braces THEN Crashed(q) ELSE Ended(q, "exited")
                              [] derives /\ ~out /\ ~s.braces -> AppendCurve(q, kc, s.for)
                              [] derives /\ ~out /\ s.braces /\ none -> Ended(q, "exited")
                              [] OTHER -> CurveRead(p.v, CurveBody(z, s.body), s.for)
      /\ CurveGiven(With(p, M), s) =
           CASE derives /\ out -> IF s.braces THEN Crashed(t) ELSE Ended(t, "exited")
             [] derives /\ ~out /\ ~s.braces -> AppendCurve(t, kc, s.for)
             [] derives /\ ~out /\ s.braces /\ none -> Ended(t, "exited")
             [] OTHER -> CurveRead(p.v, CurveBody(y, s.body), s.for)
  BY <1>3 DEF CurveGiven, c
<1> HIDE DEF q, t, w, z, y
<1>5. y = With(z, M)
  BY <1>2, WithValue DEF y, z
<1>6. /\ Crashed(t) = With(Crashed(q), M) /\ Ended(t, "exited") = With(Ended(q, "exited"), M)
      /\ AppendCurve(t, kc, s.for) = With(AppendCurve(q, kc, s.for), M)
  BY <1>2, WithErr, WithAppend
<1>7. /\ Crashed(q).v = q.v /\ Ended(q, "exited").v = q.v
      /\ AppendCurve(q, kc, s.for).v.meta = q.v.meta
  <2>1. Crashed(q).v = q.v
    BY <1>2 DEF Crashed, Parsers
  <2>2. Ended(q, "exited").v = q.v
    BY <1>2, EndedIs
  <2> QED BY <1>2, <2>1, <2>2, WithAppend
<1>8. CASE derives /\ out
  BY <1>1, <1>2, <1>4, <1>6, <1>7, <1>8
<1>9. CASE derives /\ ~out /\ ~s.braces
  BY <1>1, <1>2, <1>4, <1>6, <1>7, <1>9
<1>10. CASE derives /\ ~out /\ s.braces /\ none
  BY <1>1, <1>2, <1>4, <1>6, <1>7, <1>10
<1>11. CASE ~derives \/ (~out /\ s.braces /\ ~none)
  <2>1. w \in CurveVal
    <3>1. CASE derives
      <4>1. InTable("curve", Found("curve", s.ref))
        BY <1>1, <1>11, <3>1, FoundIs, KindsAre
      <4>2. info["curve"] \in Seq(CurveVal)
        BY ValsAre, KindsAre DEF Tables
      <4>3. Found("curve", s.ref) \in Int
        BY <1>1, FoundIs, KindsAre
      <4> DEFINE i == Found("curve", s.ref)
      <4> HIDE DEF i
      <4>4. info["curve"][i + 1] \in CurveVal
        BY <4>1, <4>2, <4>3 DEF InTable, i
      <4> QED BY <3>1, <4>4 DEF w, Item, i
    <3>2. CASE ~derives
      BY <3>2, Words0 DEF w, Curve0, CurveVal
    <3> QED BY <3>1, <3>2
  <2>2. z \in Parsers(CurveVal)
    BY <1>2, <2>1, ValueIs DEF z
  <2> DEFINE r == CurveBody(z, s.body)
  <2>3. CurveBody(y, s.body) = With(r, M) /\ r \in Parsers(CurveVal)
    BY <1>1, <1>5, <2>2, WithCurveBody
  <2> HIDE DEF r
  <2>4. p.v \in MotionVal
    BY ParserHas
  <2>5. /\ CurveRead(p.v, With(r, M), s.for) = With(CurveRead(p.v, r, s.for), M)
        /\ CurveRead(p.v, r, s.for).v.meta = p.v.meta
    BY <2>3, <2>4, WithCurveRead
  <2>6. CurveGiven(p, s) = CurveRead(p.v, r, s.for)
    BY <1>4, <1>11 DEF r
  <2>7. CurveGiven(With(p, M), s) = CurveRead(p.v, With(r, M), s.for)
    BY <1>4, <1>11, <2>3
  <2> QED BY <2>5, <2>6, <2>7
<1> QED BY <1>1, <1>8, <1>9, <1>10, <1>11

LEMMA WithMotionSet ==
  ASSUME Tables, NEW p \in Parsers(MotionVal), NEW M \in Seq(Seq(Leaf)), NEW s \in MotionForm, s.set # "meta"
  PROVE  MotionSet(With(p, M), s) = With(MotionSet(p, s), M) /\ MotionSet(p, s).v.meta = p.v.meta
<1>0. p.v \in MotionVal /\ With(p, M).v = p.v
  BY ParserHas, WithIs
<1>1. s.set \in {"semantics", "mapping", "periodic", "curve"}
  BY DEF MotionForm, MetaForm
<1>2. CASE s.set = "semantics"
  <2>1. [With(p, M) EXCEPT !.v.semantics = s.name] = With([p EXCEPT !.v.semantics = s.name], M)
    BY DEF With, Parsers
  <2>2. [p EXCEPT !.v.semantics = s.name].v.meta = p.v.meta
    BY <1>0 DEF Parsers, MotionVal, MotionOf
  <2>3. Err(With(p, M)) = With(Err(p), M) /\ Err(p).v = p.v
    BY WithErr, ErrIs
  <2> QED BY <1>0, <1>2, <2>1, <2>2, <2>3 DEF MotionSet
<1>3. CASE s.set = "mapping"
  <2>1. [With(p, M) EXCEPT !.v.x = s.name, !.v.y = s.name2] = With([p EXCEPT !.v.x = s.name, !.v.y = s.name2], M)
    BY <1>0 DEF With, Parsers
  <2>2. [p EXCEPT !.v.x = s.name, !.v.y = s.name2].v.meta = p.v.meta
    BY <1>0 DEF Parsers, MotionVal, MotionOf
  <2> QED BY <1>3, <2>1, <2>2 DEF MotionSet
<1>4. CASE s.set = "periodic"
  <2>1. [With(p, M) EXCEPT !.v.periodic = TRUE] = With([p EXCEPT !.v.periodic = TRUE], M)
    BY DEF With, Parsers
  <2>2. [p EXCEPT !.v.periodic = TRUE].v.meta = p.v.meta
    BY <1>0 DEF Parsers, MotionVal, MotionOf
  <2> QED BY <1>4, <2>1, <2>2 DEF MotionSet
<1>5. CASE s.set = "curve"
  <2>1. MotionSet(p, s) = CurveGiven(p, s) /\ MotionSet(With(p, M), s) = CurveGiven(With(p, M), s)
    BY <1>5 DEF MotionSet
  <2> QED BY <1>5, <2>1, WithCurveGiven
<1> QED BY <1>1, <1>2, <1>3, <1>4, <1>5

LEMMA WithMotionStep ==
  ASSUME Tables, NEW p \in Parsers(MotionVal), NEW M \in Seq(Seq(Leaf)), NEW s \in MotionForm, s.set # "meta"
  PROVE  /\ ItemStep("motion", With(p, M), s) = With(ItemStep("motion", p, s), M)
         /\ ItemStep("motion", p, s).v.meta = p.v.meta
<1>1. Going(With(p, M)) = Going(p)
  BY WithIs
<1>2. \A q : ItemStep("motion", q, s) = IF Going(q) THEN MotionSet(q, s) ELSE q
  BY DEF ItemStep, Setting
<1> QED BY <1>1, <1>2, WithMotionSet

LEMMA WithMotionBody ==
  ASSUME NEW U, NEW p0 \in Parsers(U), NEW ok \in BOOLEAN, ItemsHold(p0, ok),
         NEW p \in ReadingOf("motion", p0, ok), NEW M \in Seq(Seq(Leaf)), NEW body, Says("motion", ok, body)
  PROVE  /\ ItemBody("motion", p, body) \in Parsers(MotionVal)
         /\ ItemBody("motion", With(p, M), body) = With(ItemBody("motion", p, body), M)
         /\ ItemBody("motion", p, body).v.meta = p.v.meta
<1> DEFINE n == Len(body)
           S == ReadingOf("motion", p0, ok)
           T == {With(r, M) : r \in S}
<1>a. S \subseteq Parsers(MotionVal)
  BY ValsAre DEF ReadingOf
<1>0. /\ body \in Seq(MotionForm) /\ n \in Nat
      /\ \A k \in 1 .. n : body[k] \in MotionForm /\ body[k].set # "meta" /\ Said1("motion", ok, body[k])
  BY FormsAre DEF Says, Said1
<1>b. Tables
  BY DEF ItemsHold
<1>1. \A r \in S : \A k \in 1 .. n : ItemStep("motion", r, body[k]) \in S
  <2> SUFFICES ASSUME NEW r \in S, NEW k \in 1 .. n PROVE ItemStep("motion", r, body[k]) \in S
    OBVIOUS
  <2>1. Setting("motion", r, body[k]) \in S
    BY <1>0, SettingIs, KindsAre, FormsAre
  <2> QED BY <2>1 DEF ItemStep
<1>2. \A r \in S : \A k \in 1 .. n : /\ ItemStep("motion", With(r, M), body[k]) = With(ItemStep("motion", r, body[k]), M)
                                      /\ ItemStep("motion", r, body[k]).v.meta = r.v.meta
  BY <1>0, <1>a, <1>b, WithMotionStep
<1>c. \A q \in T : \A k \in 1 .. n : ItemStep("motion", q, body[k]) \in T
  <2> SUFFICES ASSUME NEW q \in T, NEW k \in 1 .. n PROVE ItemStep("motion", q, body[k]) \in T
    OBVIOUS
  <2>1. PICK r \in S : q = With(r, M)
    OBVIOUS
  <2>2. ItemStep("motion", q, body[k]) = With(ItemStep("motion", r, body[k]), M)
    BY <1>2, <2>1
  <2> QED BY <1>1, <2>1, <2>2
<1> HIDE DEF S, T
<1>3. PICK f \in [0 .. n -> S] :
        /\ f[0] = p /\ ItemBody("motion", p, body) = f[n]
        /\ \A k \in 1 .. n : f[k] = ItemStep("motion", f[k - 1], body[k])
  <2>1. p \in S
    BY DEF S
  <2>2. ItemBodyStays(S, MotionForm, p, "motion", body)
    BY <1>0, <1>1, <2>1 DEF ItemBodyStays
  <2> QED BY <2>2, ItemBodyGoes
<1>4. PICK g \in [0 .. n -> T] :
        /\ g[0] = With(p, M) /\ ItemBody("motion", With(p, M), body) = g[n]
        /\ \A k \in 1 .. n : g[k] = ItemStep("motion", g[k - 1], body[k])
  <2>1. With(p, M) \in T
    BY DEF S, T
  <2>2. ItemBodyStays(T, MotionForm, With(p, M), "motion", body)
    BY <1>0, <1>c, <2>1 DEF ItemBodyStays
  <2> QED BY <2>2, ItemBodyGoes
<1> DEFINE So == {k \in 0 .. n : g[k] = With(f[k], M) /\ f[k].v.meta = p.v.meta}
<1>5. 0 \in So
  BY <1>0, <1>3, <1>4
<1>6. ASSUME NEW k \in 1 .. n, k - 1 \in So PROVE k \in So
  <2>1. g[k - 1] = With(f[k - 1], M) /\ f[k - 1].v.meta = p.v.meta
    BY <1>6
  <2>2. k - 1 \in 0 .. n /\ k \in 0 .. n
    <3> HIDE DEF n, So
    <3> QED BY <1>0, <1>6
  <2>3. f[k - 1] \in S
    BY <2>2
  <2>4. f[k] = ItemStep("motion", f[k - 1], body[k]) /\ g[k] = ItemStep("motion", g[k - 1], body[k])
    BY <1>3, <1>4
  <2>5. g[k] = With(f[k], M) /\ f[k].v.meta = p.v.meta
    BY <1>2, <2>1, <2>3, <2>4
  <2> QED BY <2>2, <2>5
<1> HIDE DEF So
<1>7. n \in So
  <2>1. \A k \in 0 .. n : k \in So
    <3> HIDE DEF n
    <3> QED BY <1>0, <1>5, <1>6, UpTo
  <2> QED BY <1>0, <2>1
<1>8. g[n] = With(f[n], M) /\ f[n].v.meta = p.v.meta /\ f[n] \in S
  BY <1>7 DEF So
<1> QED BY <1>3, <1>4, <1>8, <1>a

(* What an item has, when no error was told: the same value beside any lists *)
(* but for the number of its own, and the leaves that it would have.         *)
LEMMA WithItself == ASSUME NEW V, NEW p \in Parsers(V) PROVE With(p, p.metas) = p
BY DEF With, Parsers

LEMMA MotionHeard ==
  ASSUME NEW U, NEW p0 \in Parsers(U), NEW ok \in BOOLEAN, ItemsHold(p0, ok), Going(p0),
         NEW M \in Seq(Seq(Leaf)), NEW body, Says("motion", ok, body),
         NEW r, r = ItemFrom("motion", p0, Motion0, body),
         NEW t, t = ItemFrom("motion", With(p0, M), Motion0, body)
  PROVE  r.metas = p0.metas /\ r.v.meta = 0 /\ t.v = r.v
<1> DEFINE p == [p0 EXCEPT !.v = Motion0]
           b == ItemBody("motion", p, body)
<1>1. p \in ReadingOf("motion", p0, ok)
  <2>1. Reads(p0, p0)
    BY ReadsItself
  <2>2. Initial("motion") = Motion0
    BY DEF Initial
  <2>3. [p0 EXCEPT !.v = Initial("motion")] \in ReadingOf("motion", p0, ok)
    BY <2>1, InitialIs, KindsAre
  <2> QED BY <2>2, <2>3
<1>2. [With(p0, M) EXCEPT !.v = Motion0] = With(p, M)
  BY WithValue
<1>3. p.metas = p0.metas /\ p.v = Motion0 /\ p \in Parsers(MotionVal)
  BY <1>1, ValsAre DEF Parsers, ReadingOf
<1>4. p0.metas \in Seq(Seq(Leaf))
  BY ParserHas
<1> HIDE DEF p
<1>5. /\ b \in Parsers(MotionVal) /\ ItemBody("motion", With(p, M), body) = With(b, M)
      /\ b.v.meta = p.v.meta
  BY <1>1, WithMotionBody
<1>6. b.metas = p0.metas
  <2>1. ItemBody("motion", With(p, p0.metas), body) = With(b, p0.metas)
    BY <1>1, <1>4, WithMotionBody
  <2>2. With(p, p0.metas) = p
    BY <1>3, WithItself
  <2>3. b = With(b, p0.metas)
    BY <2>1, <2>2
  <2> HIDE DEF b
  <2>4. With(b, p0.metas).metas = p0.metas
    BY <1>4, <1>5, WithIs
  <2> QED BY <2>3, <2>4
<1>7. /\ r = Kept("motion", Checked("motion", b)) /\ t = Kept("motion", Checked("motion", With(b, M)))
  BY <1>2, <1>5 DEF ItemFrom, p
<1> HIDE DEF b
<1>8. /\ \A q : Kept("motion", q) = q
      /\ Checked("motion", b).v = b.v /\ Checked("motion", b).metas = b.metas
      /\ Checked("motion", With(b, M)).v = b.v
  <2>1. \A q : Kept("motion", q) = q
    BY DEF Kept
  <2>2. b \in Parsers(Val("motion")) /\ With(b, M) \in Parsers(Val("motion")) /\ With(b, M).v = b.v
    BY <1>5, ValsAre, WithIs
  <2> QED BY <2>1, <2>2, CheckedHas
<1>9. Motion0.meta = 0
  BY DEF Motion0
<1> QED BY <1>3, <1>5, <1>6, <1>7, <1>8, <1>9

(* An item that was read, and the same item as it would be read beside its   *)
(* own leaves.                                                               *)
Based(v, leaves) == [v EXCEPT !.meta = IF leaves = <<>> THEN 0 ELSE 1]
Grows(metas, m, r) ==
  /\ Len(metas) <= Len(r.metas)
  /\ \A i \in 1 .. Len(metas) : i # m => r.metas[i] = metas[i]
  /\ IF m # 0 THEN r.v.meta = m ELSE r.v.meta = 0 \/ r.v.meta > Len(metas)
  /\ r.v.meta \in 0 .. Len(r.metas)
Nameless(v) == [v EXCEPT !.meta = <<>>]

LEMMA ItemHeard ==
  ASSUME Tables, NEW kind \in Marked4, NEW V, NEW p0 \in Parsers(V), NEW v \in Val(kind),
         v.meta <= Len(p0.metas), NEW leaves \in Seq(Leaf), NEW ok, NEW body, Says(kind, ok, body),
         NEW r, r = ItemFrom(kind, p0, v, body),
         NEW t, t = ItemFrom(kind, With(p0, <<leaves>>), Based(v, leaves), body)
  PROVE  /\ r \in Parsers(Val(kind)) /\ Grows(p0.metas, v.meta, r)
         /\ Held(v, p0.metas) = leaves => Sealed(kind, r.v, r.metas) = Sealed(kind, t.v, t.metas)
         /\ Nameless(Sealed(kind, r.v, r.metas)) = Nameless(Sealed(kind, t.v, t.metas))
         /\ ~Adds(body) => r.metas = p0.metas /\ r.v.meta = v.meta
<1> DEFINE M == <<leaves>>
           u == Based(v, leaves)
           p == [p0 EXCEPT !.v = v]
           q == [With(p0, M) EXCEPT !.v = u]
           a == ItemBody(kind, p, body)
           b == ItemBody(kind, q, body)
<1>1. /\ v.meta \in Nat /\ u \in Val(kind)
      /\ u = [v EXCEPT !.meta = u.meta] /\ u.meta = IF leaves = <<>> THEN 0 ELSE 1
  <2>1. \A m \in Nat : [v EXCEPT !.meta = m] \in Val(kind) /\ [v EXCEPT !.meta = m].meta = m
    BY MetaHas
  <2>2. v.meta \in Nat
    BY MetaHas
  <2> QED BY <2>1, <2>2 DEF Based
<1>2. M \in Seq(Seq(Leaf)) /\ Len(M) = 1 /\ M[1] = leaves
  OBVIOUS
<1> HIDE DEF u, M
<1>3. With(p0, M) \in Parsers(V) /\ With(p0, M).metas = M /\ With(p0, M).phase = p0.phase
  BY <1>2, WithIs
<1>4. /\ p \in Parsers(Val(kind)) /\ p.v = v /\ p.metas = p0.metas /\ p.phase = p0.phase
      /\ q \in Parsers(Val(kind)) /\ q.v = u /\ q.metas = M /\ q.phase = p0.phase
  BY <1>1, <1>3, ValueIs
<1> HIDE DEF p, q
<1>5. Twins(kind, p, q)
  <2>1. p \in Kin(kind)
    BY <1>4 DEF Kin
  <2>2. q \in Kin(kind)
    <3>1. q.v.meta <= Len(q.metas)
      <4>1. u.meta <= 1
        BY <1>1
      <4> QED BY <1>2, <1>4, <4>1
    <3> QED BY <1>4, <3>1 DEF Kin
  <2> QED BY <1>1, <1>4, <2>1, <2>2 DEF Twins
<1>6. Held(v, p0.metas) = leaves => TwinLeaves(p, q)
  BY <1>1, <1>2, <1>4 DEF TwinLeaves, Held
<1>7. /\ Twins(kind, a, b) /\ Traced(p, a)
      /\ TwinLeaves(p, q) => TwinLeaves(a, b)
      /\ ~Adds(body) => Quiet(p, a)
  BY <1>5, BodyTwins
<1>8. r = Kept(kind, Checked(kind, a)) /\ t = Kept(kind, Checked(kind, b))
  BY DEF ItemFrom, p, q, u, M
<1> HIDE DEF a, b
<1>9. a \in Parsers(Val(kind)) /\ b \in Parsers(Val(kind))
  BY <1>7, KinHas DEF Twins
<1>10. r.v = a.v /\ r.metas = a.metas /\ t.v = b.v /\ t.metas = b.metas
  BY <1>8, <1>9, CheckedHas, KeptHas
<1>11. /\ TwinLeaves(a, b) => Sealed(kind, a.v, a.metas) = Sealed(kind, b.v, b.metas)
       /\ [Sealed(kind, a.v, a.metas) EXCEPT !.meta = <<>>] = [Sealed(kind, b.v, b.metas) EXCEPT !.meta = <<>>]
  BY <1>7, SealedTwins
<1>12. r \in Parsers(Val(kind))
  <2>1. Checked(kind, a) \in Parsers(Val(kind))
    BY <1>9, CheckedHas
  <2> DEFINE c == Checked(kind, a)
  <2> HIDE DEF c
  <2>2. Kept(kind, c) \in Parsers(Val(kind))
    <3>1. c \in Parsers(Val(kind)) /\ c.v \in Val(kind)
      BY <2>1, ParserHas DEF c
    <3>2. CASE kind = "style"
      <4>1. c.v \in StyleVal /\ Kept(kind, c) = [c EXCEPT !.kstyle = c.v]
        BY <3>1, <3>2, ValsAre DEF Kept
      <4> QED BY <3>1, <4>1 DEF Parsers
    <3>3. CASE kind = "region"
      <4>1. c.v \in RegionVal /\ Kept(kind, c) = [c EXCEPT !.kregion = c.v]
        BY <3>1, <3>3, ValsAre DEF Kept
      <4> QED BY <3>1, <4>1 DEF Parsers
    <3>4. CASE kind \notin {"style", "region"}
      BY <3>1, <3>4 DEF Kept
    <3> QED BY <3>2, <3>3, <3>4
  <2> QED BY <1>8, <2>2 DEF c
<1>13. Grows(p0.metas, v.meta, r)
  <2>1. a.v.meta \in Nat /\ a.v.meta <= Len(a.metas) /\ Len(a.metas) \in Nat
    BY <1>7, KinHas DEF Twins
  <2> QED BY <1>4, <1>7, <1>10, <2>1 DEF Traced, Grows
<1>14. ~Adds(body) => r.metas = p0.metas /\ r.v.meta = v.meta
  BY <1>4, <1>7, <1>10 DEF Quiet
<1> QED BY <1>6, <1>7, <1>10, <1>11, <1>12, <1>13, <1>14 DEF Nameless

(* An item that is found is the one that was said.                           *)
LEMMA FoundSaid ==
  ASSUME Tables, names = declared, NEW kind \in AllKinds, NEW r \in Reference, ~Missing(kind, r)
  PROVE  Found(kind, r) = SaidAt(kind, r) /\ InTable(kind, SaidAt(kind, r))
<1>0. InTable(kind, Found(kind, r))
  BY FoundIs
<1>1. CASE r.name = NoName
  BY <1>0, <1>1 DEF Found, Lookup, SaidAt
<1>2. CASE r.name # NoName
  <2> DEFINE n == Len(info[kind])
             S == {i \in 0 .. Len(names[kind]) - 1 : names[kind][i + 1] = r.name}
             First(i) == declared[kind][i + 1] = r.name /\ \A j \in 1 .. i : declared[kind][j] # r.name
             m == Found(kind, r)
  <2>1. n \in Nat /\ Len(names[kind]) = n
    <3>1. info[kind] \in Seq(Val(kind)) /\ Len(names[kind]) = Len(info[kind])
      BY DEF Tables
    <3> QED BY <3>1
  <2>2. m = FirstNamed(kind, r.name, names) /\ m # -1
    BY <1>2 DEF Missing, Found, Lookup
  <2>3. S # {} /\ m = Min(S)
    BY <2>2 DEF FirstNamed
  <2>4. m \in S /\ \A y \in S : m <= y
    <3>1. S \subseteq Nat
      BY <2>1
    <3> HIDE DEF S, m
    <3> QED BY <2>3, <3>1, LeastIs
  <2>5. m \in 0 .. n - 1 /\ First(m)
    <3>1. m \in 0 .. n - 1 /\ names[kind][m + 1] = r.name
      BY <2>1, <2>4
    <3>2. ASSUME NEW j \in 1 .. m PROVE declared[kind][j] # r.name
      <4>1. SUFFICES ASSUME declared[kind][j] = r.name PROVE FALSE
        OBVIOUS
      <4> HIDE DEF m, n
      <4>2. j - 1 \in 0 .. Len(names[kind]) - 1 /\ (j - 1) + 1 = j
        BY <2>1, <3>1
      <4>3. j - 1 \in S
        BY <4>1, <4>2
      <4>4. m <= j - 1
        BY <2>4, <4>3
      <4> QED BY <2>1, <3>1, <4>4
    <3> QED BY <3>1, <3>2
  <2>6. ASSUME NEW i \in 0 .. n - 1, First(i) PROVE i = m
    <3> HIDE DEF m, n
    <3>1. i \in S
      BY <2>1, <2>6
    <3>2. m <= i
      BY <2>4, <3>1
    <3>3. ~(m < i)
      <4>1. SUFFICES ASSUME m < i PROVE FALSE
        OBVIOUS
      <4>2. m + 1 \in 1 .. i
        BY <2>1, <2>5, <4>1
      <4> QED BY <2>5, <2>6, <4>2
    <3> QED BY <2>1, <2>5, <3>2, <3>3
  <2>7. SaidAt(kind, r) = CHOOSE i \in 0 .. n - 1 : First(i)
    BY <1>2 DEF SaidAt
  <2> HIDE DEF First, n, m
  <2>8. (CHOOSE i \in 0 .. n - 1 : First(i)) = m
    BY <2>5, <2>6
  <2> QED BY <1>0, <2>7, <2>8 DEF m
<1> QED BY <1>1, <1>2

-----------------------------------------------------------------------------
(* What the grammar has for the items and the times of an event.             *)

Derives == {"region", "style", "secondary"}
Formed(x) ==
  /\ x.do \in Slots \cup {"local", "motion", "mapping"} =>
       \/ x.ref # NoRef /\ x.braces = FALSE
       \/ x.do # "mapping" /\ x.ref = NoRef /\ x.braces = TRUE
       \/ x.do \in Derives /\ x.ref # NoRef /\ x.braces = TRUE
  /\ x.do = "from" => DOMAIN x = {"do", "t0"} /\ x.t0 \in Nat
  /\ x.do = "to" => DOMAIN x = {"do", "t1"} /\ x.t1 \in Nat
  /\ x.do = "for" => DOMAIN x = {"do", "for"} /\ x.for \in Nat
  /\ x.do = "from_for" => DOMAIN x = {"do", "t0", "for"} /\ x.t0 \in Nat /\ x.for \in Nat
  /\ x.do = "from_to" => DOMAIN x = {"do", "t0", "t1"} /\ x.t0 \in Nat /\ x.t1 \in Nat

LEMMA GrammarFormed == ASSUME NEW x \in Grammar PROVE Formed(x)
<1> DEFINE Others == Slots \cup {"local", "motion", "mapping", "from", "to", "for", "from_for", "from_to"}
<1>0. ASSUME x.do \notin Others PROVE Formed(x)
  BY <1>0 DEF Formed
<1>1. CASE x \in DefGrammar
  <2>1. CASE \/ x \in [do : {"comment"}, name : STRING] \/ x \in [do : {"timebase"}, time : Nat]
             \/ x \in [do : {"headers"}]
    BY <1>0, <2>1 DEF Slots
  <2>2. CASE \E kind \in AllKinds : x \in Definition(kind, Form(kind))
    <3>1. x.do = "define"
      BY <2>2 DEF Definition
    <3> QED BY <1>0, <3>1 DEF Slots
  <2> QED BY <1>1, <2>1, <2>2, FormsAre, KindsAre DEF DefGrammar
<1>2. CASE x \in EventGrammar
  <2> DEFINE Dated == [do : {"from"}, t0 : Nat] \cup [do : {"to"}, t1 : Nat] \cup [do : {"for"}, for : Nat]
                   \cup [do : {"from_for"}, t0 : Nat, for : Nat] \cup [do : {"from_to"}, t0 : Nat, t1 : Nat]
             Of == [do : {"id"}, n : Nat] \cup [do : {"language", "directionality"}, name : STRING]
                   \cup [do : {"text"}, text : Seq(STRING), pre : BOOLEAN, markup : BOOLEAN]
                   \cup [do : {"meta"}, leaf : [tag : STRING, value : STRING]] \cup [do : {"end"}]
             Sung == [do : {"karaoke"}, morph : {FALSE}, body : Seq(MarkerForm)]
                     \cup [do : {"karaoke"}, morph : {TRUE}, body : Seq(MorphForm)]
             Named == ByReference("region") \cup ByReference("style") \cup ByReference("secondary")
                      \cup ByReference("palette") \cup ByReference("bitmap") \cup ByReference("local")
                      \cup ByReference("motion") \cup ByReference("mapping")
             Owned == OfItsOwn("region", RegionForm) \cup OfItsOwn("style", StyleForm)
                      \cup OfItsOwn("secondary", StyleForm) \cup OfItsOwn("palette", PaletteForm)
                      \cup OfItsOwn("bitmap", BitmapForm) \cup OfItsOwn("local", BitmapForm)
                      \cup OfItsOwn("motion", MotionForm)
             Drawn2 == Derived("region", RegionForm) \cup Derived("style", StyleForm) \cup Derived("secondary", StyleForm)
  <2>1. x \in Dated \cup Of \cup Sung \cup Named \cup Owned \cup Drawn2
    BY <1>2, Zenon DEF EventGrammar
  <2>2. ASSUME x \in Dated PROVE Formed(x)
    BY <2>2 DEF Formed, Slots
  <2>3. ASSUME x \in Of \cup Sung PROVE Formed(x)
    BY <1>0, <2>3 DEF Slots
  <2>4. ASSUME x \in Named PROVE Formed(x)
    BY <2>4 DEF Formed, Slots, ByReference
  <2>5. ASSUME x \in Owned PROVE Formed(x)
    BY <2>5 DEF Formed, Slots, OfItsOwn
  <2>6. ASSUME x \in Drawn2 PROVE Formed(x)
    BY <2>6 DEF Formed, Slots, Derived, Derives
  <2> HIDE DEF Dated, Of, Sung, Named, Owned, Drawn2
  <2> QED BY <2>1, <2>2, <2>3, <2>4, <2>5, <2>6
<1>3. CASE x \in [do : {"event", "finish"}]
  BY <1>0, <1>3 DEF Slots
<1> QED BY <1>1, <1>2, <1>3 DEF Grammar

-----------------------------------------------------------------------------
(* What was heard is still so when another list of metadata grows.           *)

(* A step adds lists, and to at most one of those of the headers' items.     *)
Spread(p, q, m) ==
  /\ Len(p.metas) <= Len(q.metas)
  /\ \A i \in 1 .. Len(p.metas) : i # m => q.metas[i] = p.metas[i]
Foreign(m) == m = 0 \/ \E k \in AllKinds : \E i \in DOMAIN info[k] : HasMeta(k) /\ info[k][i].meta = m
Beheld(p, q, m, but, but2) ==
  /\ Spread(p, q, m) /\ Foreign(m) /\ but2 \in BOOLEAN /\ (but \/ m # 0 => but2)

LEMMA BoundStill ==
  ASSUME NEW V, NEW W, NEW p \in Parsers(V), NEW q \in Parsers(W), NEW m, Spread(p, q, m), NEW v, Bound(v, p)
  PROVE  Bound(v, q)
<1>1. Len(p.metas) \in Nat /\ Len(q.metas) \in Nat
  BY ParserHas
<1> QED BY <1>1 DEF Bound, Spread

LEMMA EncodedStill ==
  ASSUME NEW V, NEW W, NEW p \in Parsers(V), NEW q \in Parsers(W), NEW m, Spread(p, q, m), Foreign(m),
         NEW kind, NEW slot, Alone(slot, p), slot.at # "static"
  PROVE  Alone(slot, q) /\ Encoded(q, slot, kind) = Encoded(p, slot, kind)
<1>1. Len(p.metas) \in Nat /\ Len(q.metas) \in Nat
  BY ParserHas
<1>2. CASE slot.at \in {"own", "local"}
  <2> DEFINE v == slot.own
  <2>1. Bound(v, p) /\ Private(v)
    BY <1>2 DEF Alone
  <2>2. Bound(v, q)
    BY <2>1, BoundStill
  <2>3. v.meta # 0 => q.metas[v.meta] = p.metas[v.meta]
    <3>1. v.meta # 0 => v.meta \in 1 .. Len(p.metas) /\ v.meta # m
      BY <1>1, <2>1 DEF Bound, Private, Foreign
    <3> QED BY <3>1 DEF Spread
  <2>4. Sealed(kind, v, q.metas) = Sealed(kind, v, p.metas)
    BY <2>3 DEF Sealed
  <2>5. \A r : Encoded(r, slot, kind) = Own(Sealed(kind, v, r.metas))
    BY <1>2 DEF Encoded
  <2> QED BY <2>1, <2>2, <2>4, <2>5 DEF Alone
<1>3. CASE slot.at \notin {"own", "local"}
  BY <1>3 DEF Alone, Encoded
<1> QED BY <1>2, <1>3

LEMMA PendingHas ==
  ASSUME NEW pending \in PendingOf
  PROVE  /\ \A s \in {"palette", "bitmap"} : pending[s].at \in {"none", "info", "own"}
         /\ \A s \in {"region", "style", "secondary"} : pending[s].at \in {"none", "info", "static"}
         /\ \A i \in DOMAIN pending.bitmaps : pending.bitmaps[i].at \in {"none", "info", "local"}
         /\ \A i \in DOMAIN pending.motions : pending.motions[i].at \in {"none", "info", "own"}
<1>1. /\ pending.palette \in InfoSlot \cup OwnSlot(PaletteVal) /\ pending.bitmap \in InfoSlot \cup OwnSlot(BitmapVal)
      /\ pending.region \in InfoSlot \cup StaticSlot /\ pending.style \in InfoSlot \cup StaticSlot
      /\ pending.secondary \in InfoSlot \cup StaticSlot
      /\ pending.bitmaps \in Seq(InfoSlot \cup LocalSlot)
      /\ pending.motions \in Seq(InfoSlot \cup OwnSlot(MotionVal))
  BY DEF PendingOf
<1>2. /\ \A i \in DOMAIN pending.bitmaps : pending.bitmaps[i] \in InfoSlot \cup LocalSlot
      /\ \A i \in DOMAIN pending.motions : pending.motions[i] \in InfoSlot \cup OwnSlot(MotionVal)
  BY <1>1
<1> QED BY <1>1, <1>2 DEF InfoSlot, OwnSlot, StaticSlot, LocalSlot

LEMMA OwnsStill ==
  ASSUME NEW V, NEW W, NEW p \in Parsers(V), NEW q \in Parsers(W), NEW m, Spread(p, q, m), Foreign(m),
         NEW sd, NEW sd2, Lists(p), OwnsHeard(sd, p)
  PROVE  /\ \A s \in {"palette", "bitmap"} :
              q.pending[s] = p.pending[s] /\ sd2.over[s] = sd.over[s] =>
                Alone(q.pending[s], q) /\ sd2.over[s] = Encoded(q, q.pending[s], s)
         /\ q.pending.bitmaps = p.pending.bitmaps /\ sd2.over.bitmaps = sd.over.bitmaps =>
              /\ \A i \in DOMAIN q.pending.bitmaps : Alone(q.pending.bitmaps[i], q)
              /\ ListHeard(sd2.over.bitmaps, q.pending.bitmaps, q, "bitmap")
         /\ q.pending.motions = p.pending.motions /\ sd2.over.motions = sd.over.motions =>
              /\ \A i \in DOMAIN q.pending.motions : Alone(q.pending.motions[i], q)
              /\ ListHeard(sd2.over.motions, q.pending.motions, q, "motion")
<1>0. p.pending \in PendingOf
  BY ParserHas
<1>1. ASSUME NEW s \in {"palette", "bitmap"}, q.pending[s] = p.pending[s], sd2.over[s] = sd.over[s]
      PROVE  Alone(q.pending[s], q) /\ sd2.over[s] = Encoded(q, q.pending[s], s)
  <2> DEFINE slot == p.pending[s]
  <2>1. slot.at # "static" /\ Alone(slot, p) /\ sd.over[s] = Encoded(p, slot, s)
    BY <1>0, PendingHas DEF Lists, OwnsHeard
  <2> HIDE DEF slot
  <2>2. Alone(slot, q) /\ Encoded(q, slot, s) = Encoded(p, slot, s)
    BY <2>1, EncodedStill
  <2> QED BY <1>1, <2>1, <2>2 DEF slot
<1>2. ASSUME NEW kind, NEW list, NEW pending, ListHeard(list, pending, p, kind),
             NEW i \in DOMAIN pending, Alone(pending[i], p), pending[i].at # "static"
      PROVE  Alone(pending[i], q) /\ list[i] = Encoded(q, pending[i], kind)
  <2> DEFINE slot == pending[i]
  <2>1. list[i] = Encoded(p, slot, kind) /\ slot.at # "static" /\ Alone(slot, p)
    BY <1>2 DEF ListHeard
  <2> HIDE DEF slot
  <2>2. Alone(slot, q) /\ Encoded(q, slot, kind) = Encoded(p, slot, kind)
    BY <2>1, EncodedStill
  <2> QED BY <2>1, <2>2 DEF slot
<1>3. \A i \in DOMAIN p.pending.bitmaps :
        Alone(p.pending.bitmaps[i], q) /\ sd.over.bitmaps[i] = Encoded(q, p.pending.bitmaps[i], "bitmap")
  <2> TAKE i \in DOMAIN p.pending.bitmaps
  <2> DEFINE list == sd.over.bitmaps
             pending == p.pending.bitmaps
  <2>1. ListHeard(list, pending, p, "bitmap") /\ Alone(pending[i], p) /\ pending[i].at # "static"
    BY <1>0, PendingHas DEF Lists, OwnsHeard
  <2> HIDE DEF list, pending
  <2>2. i \in DOMAIN pending
    BY DEF pending
  <2>3. Alone(pending[i], q) /\ list[i] = Encoded(q, pending[i], "bitmap")
    BY <1>2, <2>1, <2>2
  <2> QED BY <2>3 DEF list, pending
<1>4. \A i \in DOMAIN p.pending.motions :
        Alone(p.pending.motions[i], q) /\ sd.over.motions[i] = Encoded(q, p.pending.motions[i], "motion")
  <2> TAKE i \in DOMAIN p.pending.motions
  <2> DEFINE list == sd.over.motions
             pending == p.pending.motions
  <2>1. ListHeard(list, pending, p, "motion") /\ Alone(pending[i], p) /\ pending[i].at # "static"
    BY <1>0, PendingHas DEF Lists, OwnsHeard
  <2> HIDE DEF list, pending
  <2>2. i \in DOMAIN pending
    BY DEF pending
  <2>3. Alone(pending[i], q) /\ list[i] = Encoded(q, pending[i], "motion")
    BY <1>2, <2>1, <2>2
  <2> QED BY <2>3 DEF list, pending
<1>5. /\ sd.over.bitmaps = [i \in DOMAIN p.pending.bitmaps |-> sd.over.bitmaps[i]]
      /\ sd.over.motions = [i \in DOMAIN p.pending.motions |-> sd.over.motions[i]]
  BY DEF OwnsHeard, ListHeard
<1> QED BY <1>1, <1>3, <1>4, <1>5 DEF ListHeard

LEMMA WithoutMetaIs ==
  ASSUME NEW kind \in Marked4, NEW v \in Val(kind), NEW a
  PROVE  WithoutMeta(Own([v EXCEPT !.meta = a])) = Own(Nameless(v))
<1> DEFINE w == [v EXCEPT !.meta = a]
<1>1. Nameless(w) = Nameless(v)
  BY MetaHas DEF Nameless
<1> HIDE DEF w
<1>2. WithoutMeta(Own(w)) = Own(Nameless(w))
  BY DEF WithoutMeta, Own, Nameless
<1> QED BY <1>1, <1>2 DEF w

LEMMA SameStill ==
  ASSUME NEW V, NEW W, NEW p \in Parsers(V), NEW q \in Parsers(W), NEW m, NEW but \in BOOLEAN, NEW but2,
         Beheld(p, q, m, but, but2)
  PROVE  \A kind \in {"style", "region"} : \A v \in Val(kind) : \A slot :
           Bound(v, p) /\ Same(slot, Own(Sealed(kind, v, p.metas)), but)
             => Same(slot, Own(Sealed(kind, v, q.metas)), but2)
<1> SUFFICES ASSUME NEW kind \in {"style", "region"}, NEW v \in Val(kind), NEW slot,
                    Bound(v, p), Same(slot, Own(Sealed(kind, v, p.metas)), but)
             PROVE  Same(slot, Own(Sealed(kind, v, q.metas)), but2)
  OBVIOUS
<1> DEFINE a == Held(v, p.metas)
           b == Held(v, q.metas)
<1>1. kind \in Marked4 /\ but2 \in BOOLEAN /\ v.meta \in Nat /\ Len(p.metas) \in Nat
  <2>1. kind \in Marked4
    BY DEF Marked4
  <2> QED BY <2>1, MetaHas, ParserHas DEF Beheld
<1>2. Sealed(kind, v, p.metas) = [v EXCEPT !.meta = a] /\ Sealed(kind, v, q.metas) = [v EXCEPT !.meta = b]
  BY <1>1, MetaHas DEF Sealed, Held
<1>3. CASE ~but2
  <2>1. ~but /\ m = 0
    BY <1>3 DEF Beheld
  <2>2. a = b
    BY <1>1, <2>1 DEF Held, Bound, Beheld, Spread
  <2> QED BY <1>2, <1>3, <2>1, <2>2 DEF Same
<1> HIDE DEF a, b
<1>4. CASE but2
  <2>1. WithoutMeta(slot) = WithoutMeta(Own([v EXCEPT !.meta = a]))
    BY <1>2 DEF Same
  <2>2. WithoutMeta(Own([v EXCEPT !.meta = a])) = Own(Nameless(v))
    BY <1>1, WithoutMetaIs
  <2>3. WithoutMeta(Own([v EXCEPT !.meta = b])) = Own(Nameless(v))
    BY <1>1, WithoutMetaIs
  <2> QED BY <1>2, <1>4, <2>1, <2>2, <2>3 DEF Same
<1> QED BY <1>1, <1>3, <1>4

LEMMA RegionStill ==
  ASSUME NEW V, NEW W, NEW p \in Parsers(V), NEW q \in Parsers(W), NEW m, NEW but \in BOOLEAN, NEW but2,
         Beheld(p, q, m, but, but2), NEW sd, NEW sd2, Lists(p), RegionHeard(sd, p, but),
         q.kregion = p.kregion, q.pending.region = p.pending.region, sd2.over.region = sd.over.region
  PROVE  RegionHeard(sd2, q, but2)
<1> DEFINE slot == p.pending.region
           said0 == sd.over.region
           v == p.kregion
<1>1. v \in Val("region") /\ Bound(v, p) /\ slot.at \in {"none", "info", "static"} /\ but2 \in BOOLEAN
  BY ParserHas, PendingHas, ValsAre DEF Lists, Beheld
<1>2. Same(said0, Encoded(p, slot, "region"), but)
  BY DEF RegionHeard
<1> HIDE DEF slot, said0, v
<1>3. CASE slot.at = "static"
  <2>1. /\ Encoded(p, slot, "region") = Own(Sealed("region", v, p.metas))
        /\ Encoded(q, slot, "region") = Own(Sealed("region", v, q.metas))
    BY <1>3 DEF Encoded, v
  <2>2. Same(said0, Own(Sealed("region", v, q.metas)), but2)
    <3>1. \A k \in {"style", "region"} : \A w \in Val(k) : \A s :
            Bound(w, p) /\ Same(s, Own(Sealed(k, w, p.metas)), but)
              => Same(s, Own(Sealed(k, w, q.metas)), but2)
      BY SameStill
    <3>2. Same(said0, Own(Sealed("region", v, p.metas)), but)
      BY <1>2, <2>1
    <3> QED BY <1>1, <3>1, <3>2
  <2> QED BY <2>1, <2>2 DEF RegionHeard, slot, said0
<1>4. CASE slot.at # "static"
  <2>1. Encoded(p, slot, "region") = slot /\ Encoded(q, slot, "region") = slot
    BY <1>1, <1>4 DEF Encoded
  <2>2. Same(said0, slot, but2)
    BY <1>1, <1>2, <2>1 DEF Same, Beheld
  <2> QED BY <2>1, <2>2 DEF RegionHeard, slot, said0
<1> QED BY <1>3, <1>4

StyleKept(p, q, sd, sd2, slot, other) ==
  /\ q.kstyle = p.kstyle /\ q.pending[slot] = p.pending[slot] /\ sd2.over[slot] = sd.over[slot]
  /\ sd2.latest = sd.latest /\ (q.pending[other].at # "static" => p.pending[other].at # "static")
LEMMA StyleStill ==
  ASSUME NEW V, NEW W, NEW p \in Parsers(V), NEW q \in Parsers(W), NEW m, NEW but \in BOOLEAN, NEW but2,
         Beheld(p, q, m, but, but2), NEW sd, NEW sd2, Lists(p), NEW slot \in {"style", "secondary"},
         NEW other \in {"style", "secondary"}, StyleHeard(sd, p, but, slot, other),
         StyleKept(p, q, sd, sd2, slot, other)
  PROVE  StyleHeard(sd2, q, but2, slot, other)
<1> DEFINE v == p.kstyle
           last0 == Own(sd.latest)
<1>1. v \in Val("style") /\ Bound(v, p) /\ but2 \in BOOLEAN
  BY ParserHas, ValsAre DEF Lists, Beheld
<1> HIDE DEF v
<1>3. CASE p.pending[slot].at = "static"
  <2>1. /\ Encoded(p, p.pending[slot], "style") = Own(Sealed("style", v, p.metas))
        /\ Encoded(q, q.pending[slot], "style") = Own(Sealed("style", v, q.metas))
    BY <1>3 DEF Encoded, v, StyleKept
  <2>2. Same(last0, Own(Sealed("style", v, p.metas)), but)
    BY <1>3, <2>1 DEF StyleHeard
  <2> HIDE DEF last0
  <2>3. Same(last0, Own(Sealed("style", v, q.metas)), but2)
    <3>1. \A k \in {"style", "region"} : \A w \in Val(k) : \A s :
            Bound(w, p) /\ Same(s, Own(Sealed(k, w, p.metas)), but)
              => Same(s, Own(Sealed(k, w, q.metas)), but2)
      BY SameStill
    <3> QED BY <1>1, <2>2, <3>1
  <2> QED BY <1>3, <2>1, <2>3 DEF StyleHeard, last0, StyleKept
<1>4. CASE p.pending[slot].at # "static"
  BY <1>4 DEF StyleHeard, StyleKept
<1> QED BY <1>3, <1>4

LEMMA HeaderStill ==
  ASSUME NEW V, NEW W, NEW p \in Parsers(V), NEW q \in Parsers(W), NEW m, NEW but \in BOOLEAN, NEW but2,
         Beheld(p, q, m, but, but2), NEW ok, ItemsHold(p, ok), HeaderHeld(p, but)
  PROVE  HeaderHeld(q, but2)
<1>1. ASSUME NEW k \in AllKinds, NEW i \in DOMAIN info[k], HasMeta(k), NEW u, SentItem(u, info[k][i], p, but)
      PROVE  SentItem(u, info[k][i], q, but2)
  <2> DEFINE w == info[k][i]
  <2>1. w.meta \in Nat /\ w.meta <= Len(p.metas) /\ Len(p.metas) \in Nat
    <3>1. w \in Val(k)
      BY DEF ItemsHold, Tables
    <3>2. w.meta \in Nat
      <4>1. CASE k = "motion"
        BY <3>1, <4>1, ValsAre DEF MotionVal, MotionOf
      <4>2. CASE k # "motion"
        BY <1>1, <3>1, <4>2, MetaHas DEF HasMeta, Marked4
      <4> QED BY <4>1, <4>2
    <3>3. w.meta <= Len(p.metas)
      BY <1>1 DEF ItemsHold
    <3> QED BY <3>2, <3>3, ParserHas
  <2>2. ~but2 => Held(w, q.metas) = Held(w, p.metas)
    BY <2>1 DEF Held, Beheld, Spread
  <2>3. ~but2 => ~but
    BY DEF Beheld
  <2> QED BY <1>1, <2>2, <2>3 DEF SentItem
<1> QED BY <1>1 DEF HeaderHeld

-----------------------------------------------------------------------------
(* What a statement of an event says is heard.                               *)

Attentive(p, sd, but) == Lists(p) /\ HeaderHeld(p, but) /\ Heard(sd, p, but)
Hearing(x, ok) ==
  /\ Ready(x, ok) /\ ~Unreadable(x) /\ Books /\ names = declared /\ header # <<>>
  /\ shared \in BOOLEAN /\ Attentive(parser, said, shared) /\ parser.phase = "event"
  /\ Listen(x)
Aheard == parser'.phase = "event" /\ Attentive(parser', said', shared')

Kindred == {"region", "style", "secondary", "palette", "bitmap", "bitmaps", "motions"}
Unmoved(p, q, sd, sd2, F) ==
  /\ q.kstyle = p.kstyle /\ q.kregion = p.kregion /\ sd2.latest = sd.latest
  /\ \A f \in F : q.pending[f] = p.pending[f] /\ sd2.over[f] = sd.over[f]

OwnHeard(sd, p, s) == Alone(p.pending[s], p) /\ sd.over[s] = Encoded(p, p.pending[s], s)
AllHeard(list, pending, p, kind) ==
  (\A i \in DOMAIN pending : Alone(pending[i], p)) /\ ListHeard(list, pending, p, kind)
BothHeard(sd, p, but) ==
  StyleHeard(sd, p, but, "style", "secondary") /\ StyleHeard(sd, p, but, "secondary", "style")

LEMMA AttentiveIs ==
  ASSUME NEW p, NEW sd, NEW but
  PROVE  Attentive(p, sd, but) <=>
           /\ Shaped(sd) /\ PlainHeard(sd, p) /\ HeaderHeld(p, but)
           /\ Bound(p.kstyle, p) /\ Bound(p.kregion, p)
           /\ OwnHeard(sd, p, "palette") /\ OwnHeard(sd, p, "bitmap")
           /\ AllHeard(sd.over.bitmaps, p.pending.bitmaps, p, "bitmap")
           /\ AllHeard(sd.over.motions, p.pending.motions, p, "motion")
           /\ RegionHeard(sd, p, but) /\ BothHeard(sd, p, but)
<1>1. OwnsHeard(sd, p) <=> /\ sd.over["palette"] = Encoded(p, p.pending["palette"], "palette")
                           /\ sd.over["bitmap"] = Encoded(p, p.pending["bitmap"], "bitmap")
                           /\ ListHeard(sd.over.bitmaps, p.pending.bitmaps, p, "bitmap")
                           /\ ListHeard(sd.over.motions, p.pending.motions, p, "motion")
  BY DEF OwnsHeard
<1>2. Attentive(p, sd, but) <=> /\ Lists(p) /\ HeaderHeld(p, but) /\ Shaped(sd) /\ PlainHeard(sd, p)
                                /\ OwnsHeard(sd, p) /\ RegionHeard(sd, p, but) /\ BothHeard(sd, p, but)
  BY DEF Attentive, Heard, BothHeard
<1> QED BY <1>1, <1>2 DEF Lists, OwnHeard, AllHeard

(* What was heard of what the statement leaves as it was is heard still.     *)
Left(p, q, sd, sd2, F) == \A f \in F : q.pending[f] = p.pending[f] /\ sd2.over[f] = sd.over[f]
LEMMA RestAttends ==
  ASSUME NEW V, NEW W, NEW p \in Parsers(V), NEW q \in Parsers(W), NEW m, NEW but \in BOOLEAN, NEW but2,
         Beheld(p, q, m, but, but2), NEW ok, ItemsHold(p, ok), NEW sd, NEW sd2, Attentive(p, sd, but),
         NEW F, Left(p, q, sd, sd2, F)
  PROVE  /\ HeaderHeld(q, but2)
         /\ q.kstyle = p.kstyle => Bound(q.kstyle, q)
         /\ q.kregion = p.kregion => Bound(q.kregion, q)
         /\ "palette" \in F => OwnHeard(sd2, q, "palette")
         /\ "bitmap" \in F => OwnHeard(sd2, q, "bitmap")
         /\ "bitmaps" \in F => AllHeard(sd2.over.bitmaps, q.pending.bitmaps, q, "bitmap")
         /\ "motions" \in F => AllHeard(sd2.over.motions, q.pending.motions, q, "motion")
         /\ "region" \in F /\ q.kregion = p.kregion => RegionHeard(sd2, q, but2)
         /\ "style" \in F /\ "secondary" \in F /\ q.kstyle = p.kstyle /\ sd2.latest = sd.latest =>
              BothHeard(sd2, q, but2)
         /\ StyleKept(p, q, sd, sd2, "style", "secondary") => StyleHeard(sd2, q, but2, "style", "secondary")
         /\ StyleKept(p, q, sd, sd2, "secondary", "style") => StyleHeard(sd2, q, but2, "secondary", "style")
<1>0. /\ Lists(p) /\ HeaderHeld(p, but) /\ Heard(sd, p, but) /\ OwnsHeard(sd, p) /\ RegionHeard(sd, p, but)
      /\ BothHeard(sd, p, but) /\ Spread(p, q, m) /\ Foreign(m)
      /\ Bound(p.kstyle, p) /\ Bound(p.kregion, p)
      /\ \A f \in F : q.pending[f] = p.pending[f] /\ sd2.over[f] = sd.over[f]
  BY DEF Attentive, Beheld, Heard, BothHeard, Lists, Left
<1>1. HeaderHeld(q, but2)
  BY <1>0, HeaderStill
<1>2. q.kstyle = p.kstyle => Bound(q.kstyle, q)
  BY <1>0, BoundStill
<1>3. q.kregion = p.kregion => Bound(q.kregion, q)
  BY <1>0, BoundStill
<1>4. /\ \A s \in {"palette", "bitmap"} :
           q.pending[s] = p.pending[s] /\ sd2.over[s] = sd.over[s] =>
             Alone(q.pending[s], q) /\ sd2.over[s] = Encoded(q, q.pending[s], s)
      /\ q.pending.bitmaps = p.pending.bitmaps /\ sd2.over.bitmaps = sd.over.bitmaps =>
           /\ \A i \in DOMAIN q.pending.bitmaps : Alone(q.pending.bitmaps[i], q)
           /\ ListHeard(sd2.over.bitmaps, q.pending.bitmaps, q, "bitmap")
      /\ q.pending.motions = p.pending.motions /\ sd2.over.motions = sd.over.motions =>
           /\ \A i \in DOMAIN q.pending.motions : Alone(q.pending.motions[i], q)
           /\ ListHeard(sd2.over.motions, q.pending.motions, q, "motion")
  BY <1>0, OwnsStill
<1>5. /\ "palette" \in F => OwnHeard(sd2, q, "palette")
      /\ "bitmap" \in F => OwnHeard(sd2, q, "bitmap")
      /\ "bitmaps" \in F => AllHeard(sd2.over.bitmaps, q.pending.bitmaps, q, "bitmap")
      /\ "motions" \in F => AllHeard(sd2.over.motions, q.pending.motions, q, "motion")
  BY <1>0, <1>4 DEF OwnHeard, AllHeard
<1>6. "region" \in F /\ q.kregion = p.kregion => RegionHeard(sd2, q, but2)
  BY <1>0, RegionStill
<1>7. StyleHeard(sd, p, but, "style", "secondary") /\ StyleHeard(sd, p, but, "secondary", "style")
  BY <1>0 DEF BothHeard
<1>8. StyleKept(p, q, sd, sd2, "style", "secondary") => StyleHeard(sd2, q, but2, "style", "secondary")
  BY <1>0, <1>7, StyleStill
<1>9. StyleKept(p, q, sd, sd2, "secondary", "style") => StyleHeard(sd2, q, but2, "secondary", "style")
  BY <1>0, <1>7, StyleStill
<1>10. ASSUME "style" \in F, "secondary" \in F, q.kstyle = p.kstyle, sd2.latest = sd.latest
       PROVE  BothHeard(sd2, q, but2)
  <2>1. StyleKept(p, q, sd, sd2, "style", "secondary") /\ StyleKept(p, q, sd, sd2, "secondary", "style")
    BY <1>0, <1>10 DEF StyleKept
  <2> QED BY <1>8, <1>9, <2>1 DEF BothHeard
<1> QED BY <1>1, <1>2, <1>3, <1>5, <1>6, <1>8, <1>9, <1>10

LEMMA StillAttends ==
  ASSUME NEW V, NEW W, NEW p \in Parsers(V), NEW q \in Parsers(W), NEW m, NEW but \in BOOLEAN, NEW but2,
         Beheld(p, q, m, but, but2), NEW ok, ItemsHold(p, ok), NEW sd, NEW sd2, Attentive(p, sd, but),
         Unmoved(p, q, sd, sd2, Kindred), Shaped(sd2), PlainHeard(sd2, q)
  PROVE  Attentive(q, sd2, but2)
<1>1. Left(p, q, sd, sd2, Kindred) /\ q.kstyle = p.kstyle /\ q.kregion = p.kregion /\ sd2.latest = sd.latest
  BY DEF Unmoved, Left
<1>2. {"palette", "bitmap", "bitmaps", "motions", "region", "style", "secondary"} \subseteq Kindred
  BY DEF Kindred
<1> DEFINE F == Kindred
<1> HIDE DEF F
<1>3. /\ HeaderHeld(q, but2) /\ Bound(q.kstyle, q) /\ Bound(q.kregion, q)
      /\ OwnHeard(sd2, q, "palette") /\ OwnHeard(sd2, q, "bitmap")
      /\ AllHeard(sd2.over.bitmaps, q.pending.bitmaps, q, "bitmap")
      /\ AllHeard(sd2.over.motions, q.pending.motions, q, "motion")
      /\ RegionHeard(sd2, q, but2) /\ BothHeard(sd2, q, but2)
  BY <1>1, <1>2, RestAttends
<1> QED BY <1>3, AttentiveIs

LEMMA DroppedHas ==
  ASSUME NEW V, NEW r \in Parsers(V), NEW q, q = [r EXCEPT !.v = <<>>]
  PROVE  /\ q \in Parsers({<<>>}) /\ q.phase = r.phase /\ q.wrong = r.wrong /\ q.metas = r.metas
         /\ q.kstyle = r.kstyle /\ q.kregion = r.kregion /\ q.event = r.event /\ q.pending = r.pending
BY DEF Parsers

(* What a statement has before and after it.                                 *)
LEMMA HearingHas ==
  ASSUME NEW x, NEW ok, Hearing(x, ok)
  PROVE  /\ parser \in Parsers({<<>>}) /\ ItemsHold(parser, ok) /\ ok \in BOOLEAN /\ Tables
         /\ Starts(parser, ok) /\ Typed(x) /\ Formed(x)
         /\ shared \in BOOLEAN /\ shared' \in BOOLEAN /\ (shared => shared') /\ shared' = (shared \/ Shares(x))
         /\ Lists(parser) /\ HeaderHeld(parser, shared) /\ Heard(said, parser, shared)
         /\ x.do \in Statements /\ ~parser'.wrong => said' = Say(x)
         /\ x.do = "id" => said' = said
<1>1. Starts(parser, ok) /\ ok \in BOOLEAN /\ Typed(x) /\ Formed(x)
  BY ReadyIs, GrammarTyped, GrammarFormed DEF Hearing, Ready
<1>2. shared' = (shared \/ Shares(x)) /\ shared \in BOOLEAN
  BY DEF Listen, Hearing
<1>3. shared' \in BOOLEAN
  <2>1. (shared \/ Shares(x)) \in BOOLEAN
    OBVIOUS
  <2> QED BY <1>2, <2>1
<1>4. said' = CASE x.do = "event" -> Said0
               [] x.do \in Statements /\ ~parser'.wrong -> Say(x)
               [] OTHER -> said
  BY DEF Listen, Hearing
<1>5. x.do \in Statements => x.do # "event"
  BY DEF Statements, Slots
<1>6. x.do \in Statements /\ ~parser'.wrong => said' = Say(x)
  BY <1>4, <1>5
<1>7. x.do = "id" => said' = said
  BY <1>4 DEF Statements, Slots
<1> QED BY <1>1, <1>2, <1>3, <1>6, <1>7 DEF Starts, ItemsHold, Hearing, Attentive


LEMMA PlainAttends ==
  ASSUME NEW x, NEW ok, Hearing(x, ok), x.do \notin Slots, NEW r \in Parsers({<<>>}), Read(r),
         r.phase = "event", r.metas = parser.metas,
         Unmoved(parser, r, said, said', Kindred), Shaped(said'), PlainHeard(said', r)
  PROVE  Aheard
<1>0. /\ parser \in Parsers({<<>>}) /\ ItemsHold(parser, ok) /\ shared \in BOOLEAN
      /\ shared' \in BOOLEAN /\ (shared => shared') /\ Len(parser.metas) \in Nat
  BY HearingHas, ParserHas
<1>1. parser' = [r EXCEPT !.v = <<>>]
  BY DEF Read
<1>2. /\ parser' \in Parsers({<<>>}) /\ parser'.phase = "event" /\ parser'.metas = parser.metas
      /\ parser'.kstyle = r.kstyle /\ parser'.kregion = r.kregion /\ parser'.event = r.event
      /\ parser'.pending = r.pending
  BY <1>1, DroppedHas
<1>3. Unmoved(parser, parser', said, said', Kindred) /\ PlainHeard(said', parser')
  BY <1>2 DEF Unmoved, PlainHeard
<1>4. Beheld(parser, parser', 0, shared, shared')
  BY <1>0, <1>2 DEF Beheld, Spread, Foreign
<1>5. Attentive(parser, said, shared)
  BY DEF Hearing
<1>6. Attentive(parser', said', shared')
  BY <1>0, <1>2, <1>3, <1>4, <1>5, StillAttends
<1> QED BY <1>2, <1>6 DEF Aheard

(* Times: each is said once, as it is set.                                   *)
TimeFields == {"t0", "t1", "for"}
TimesSaid(x) == [f \in DOMAIN said.times |-> IF f \in DOMAIN x THEN x[f] ELSE said.times[f]]
LEMMA HeardShape ==
  ASSUME NEW x, NEW ok, Hearing(x, ok)
  PROVE  /\ Shaped(said) /\ DOMAIN said.over = OverFields /\ DOMAIN said.times = TimeFields
         /\ PlainHeard(said, parser) /\ parser.phase = "event"
BY HearingHas DEF Heard, Shaped, TimeFields, Hearing

(* A time is set only once.                                                  *)
Dated(p, r, f, t) ==
  /\ r.wrong = p.wrong /\ r.metas = p.metas /\ r.phase = p.phase /\ r.kstyle = p.kstyle
  /\ r.kregion = p.kregion /\ r.pending = p.pending
  /\ \A g \in TimeFields \cup {"text", "markup"} : r.event[g] = IF g = f THEN t ELSE p.event[g]
Set1(p, f, t) == IF p.event[f] >= 0 THEN Err(p) ELSE [p EXCEPT !.event[f] = t]
LEMMA DateIs ==
  ASSUME NEW V, NEW p \in Parsers(V), NEW f \in TimeFields, NEW t \in Int, NEW r, ~r.wrong, r = Set1(p, f, t)
  PROVE  r \in Parsers(V) /\ ~p.wrong /\ p.event[f] < 0 /\ Dated(p, r, f, t)
<1> DEFINE ev == [p.event EXCEPT ![f] = t]
<1>1. p.event \in EventOf /\ ev \in EventOf /\ p.event[f] \in Int
      /\ \A g \in TimeFields \cup {"text", "markup"} : ev[g] = IF g = f THEN t ELSE p.event[g]
  BY ParserHas DEF EventOf, TimeFields
<1>2. p.event[f] < 0 /\ r = [p EXCEPT !.event = ev]
  <2>1. ~(p.event[f] >= 0)
    BY ErrIs DEF Set1
  <2> QED BY <1>1, <2>1 DEF Set1
<1> HIDE DEF ev
<1>3. /\ r \in Parsers(V) /\ r.wrong = p.wrong /\ r.metas = p.metas /\ r.phase = p.phase /\ r.kstyle = p.kstyle
      /\ r.kregion = p.kregion /\ r.pending = p.pending /\ r.event = ev
  BY <1>1, <1>2 DEF Parsers
<1> QED BY <1>1, <1>2, <1>3 DEF Dated

TimesSet(p, r, x) ==
  /\ ~p.wrong /\ r.metas = p.metas /\ r.phase = p.phase /\ r.kstyle = p.kstyle
  /\ r.kregion = p.kregion /\ r.pending = p.pending
  /\ r.event.markup = p.event.markup /\ r.event.text = p.event.text
  /\ \A f \in TimeFields : r.event[f] = IF f \in DOMAIN x THEN x[f] ELSE p.event[f]
  /\ \A f \in TimeFields : f \in DOMAIN x => p.event[f] < 0 /\ x[f] \in Nat
LEMMA TimesSetIs ==
  ASSUME NEW V, NEW p \in Parsers(V), NEW x, Formed(x), x.do \in {"from", "to", "for", "from_for", "from_to"},
         NEW r, r = TimesRead(p, x), ~r.wrong
  PROVE  r \in Parsers(V) /\ TimesSet(p, r, x)
<1> DEFINE first == IF x.do \in {"from", "from_for", "from_to"} THEN "t0" ELSE IF x.do = "to" THEN "t1" ELSE "for"
           second == IF x.do = "from_for" THEN "for" ELSE "t1"
           twice == x.do \in {"from_for", "from_to"}
           q == Set1(p, first, x[first])
<1>1. /\ DOMAIN x = {"do", first} \cup (IF twice THEN {second} ELSE {})
      /\ first \in TimeFields /\ second \in TimeFields /\ (twice => first # second)
      /\ "do" \notin TimeFields /\ x[first] \in Nat /\ (twice => x[second] \in Nat)
  BY DEF Formed, TimeFields
<1>2. r = Err(p) \/ r = IF ~twice THEN q ELSE Set1(q, second, x[second])
  BY DEF TimesRead, SetT0, SetT1, SetFor, Set1
<1>3. q = Set1(p, first, x[first])
  OBVIOUS
<1>4. x[first] \in Int /\ (twice => x[second] \in Int)
  BY <1>1
<1> HIDE DEF first, second, twice, q
<1>5. r # Err(p)
  BY ErrIs
<1>6. q \in Parsers(V)
  <2>1. CASE p.event[first] >= 0
    <3>1. q = Err(p)
      BY <1>3, <2>1 DEF Set1
    <3> QED BY <3>1, ErrIs
  <2>2. CASE ~(p.event[first] >= 0)
    <3> DEFINE ev == [p.event EXCEPT ![first] = x[first]]
    <3>1. p.event \in EventOf /\ q = [p EXCEPT !.event = ev]
      BY <1>3, <2>2, ParserHas DEF Set1
    <3>2. ev \in EventOf
      BY <1>1, <1>4, <3>1 DEF EventOf, TimeFields
    <3> HIDE DEF ev
    <3> QED BY <3>1, <3>2 DEF Parsers
  <2> QED BY <2>1, <2>2
<1>7. CASE ~twice
  <2>1. r = q
    BY <1>2, <1>5, <1>7
  <2>2. r \in Parsers(V) /\ ~p.wrong /\ p.event[first] < 0 /\ Dated(p, r, first, x[first])
    BY <1>1, <1>3, <1>4, <2>1, DateIs
  <2> QED BY <1>1, <1>7, <2>2 DEF Dated, TimesSet, TimeFields
<1>8. CASE twice
  <2>1. r = Set1(q, second, x[second])
    BY <1>2, <1>5, <1>8
  <2>2. r \in Parsers(V) /\ ~q.wrong /\ q.event[second] < 0 /\ Dated(q, r, second, x[second])
    BY <1>1, <1>4, <1>6, <1>8, <2>1, DateIs
  <2>3. ~p.wrong /\ p.event[first] < 0 /\ Dated(p, q, first, x[first])
    <3>1. ~q.wrong
      BY <2>2
    <3> QED BY <1>1, <1>3, <1>4, <3>1, DateIs
  <2>4. /\ ~p.wrong /\ r.metas = p.metas /\ r.phase = p.phase /\ r.kstyle = p.kstyle
        /\ r.kregion = p.kregion /\ r.pending = p.pending
    BY <2>2, <2>3 DEF Dated
  <2>5. \A g \in TimeFields \cup {"text", "markup"} :
          r.event[g] = IF g = second THEN x[second] ELSE IF g = first THEN x[first] ELSE p.event[g]
    BY <2>2, <2>3 DEF Dated
  <2>6. p.event[second] < 0
    BY <1>1, <1>8, <2>2, <2>3 DEF Dated
  <2>7. "text" \notin TimeFields /\ "markup" \notin TimeFields
    BY DEF TimeFields
  <2>8. r.event.markup = p.event.markup /\ r.event.text = p.event.text
    BY <1>1, <2>5, <2>7
  <2>9. \A f \in TimeFields : f \in DOMAIN x <=> f = first \/ f = second
    BY <1>1, <1>8
  <2>10. \A f \in TimeFields : r.event[f] = IF f \in DOMAIN x THEN x[f] ELSE p.event[f]
    BY <1>1, <1>8, <2>5, <2>9
  <2>11. \A f \in TimeFields : f \in DOMAIN x => p.event[f] < 0 /\ x[f] \in Nat
    BY <1>1, <1>8, <2>3, <2>6, <2>9
  <2> QED BY <2>2, <2>4, <2>8, <2>10, <2>11 DEF TimesSet
<1> QED BY <1>7, <1>8

LEMMA TimesAttend ==
  ASSUME NEW x, NEW ok, Hearing(x, ok), SetTimes(x), ~parser'.wrong PROVE Aheard
<1> DEFINE sd == [said EXCEPT !.times = TimesSaid(x)]
           r == TimesRead(parser, x)
<1>0. /\ parser \in Parsers({<<>>}) /\ Typed(x) /\ Formed(x) /\ parser.event \in EventOf /\ Starts(parser, ok)
      /\ ok \in BOOLEAN
  BY HearingHas, ParserHas
<1>1. x.do \in {"from", "to", "for", "from_for", "from_to"} /\ Only(r)
  BY DEF SetTimes
<1>2. x.do \in Statements /\ x.do \notin Slots
  BY <1>1 DEF Statements, Slots
<1>3. said' = sd
  <2>1. said' = Say(x)
    BY <1>2, HearingHas
  <2>2. Say(x) = sd
    BY <1>1 DEF Say, TimesSaid, Slots
  <2> QED BY <2>1, <2>2
<1>4. /\ sd.times = TimesSaid(x) /\ sd.over = said.over /\ sd.latest = said.latest /\ Shaped(sd)
  <2>1. Shaped(said)
    BY HeardShape
  <2>2. DOMAIN TimesSaid(x) = DOMAIN said.times
    BY DEF TimesSaid
  <2>3. /\ sd.times = TimesSaid(x) /\ sd.over = said.over /\ sd.latest = said.latest /\ DOMAIN sd = DOMAIN said
    BY <2>1 DEF Shaped
  <2> QED BY <2>1, <2>2, <2>3 DEF Shaped
<1>5. r \in Parsers({<<>>}) /\ ~r.wrong
  <2>1. r \in Steps({<<>>}, parser, ok)
    BY <1>0, <1>1, TimesReadIs DEF Typed
  <2>2. r \in Parsers({<<>>})
    BY <2>1 DEF Steps
  <2> HIDE DEF r
  <2>3. parser'.wrong = r.wrong
    BY <1>1, <2>2, DroppedHas DEF Only, Read
  <2> QED BY <2>2, <2>3
<1>7. /\ r.metas = parser.metas /\ r.phase = parser.phase /\ r.kstyle = parser.kstyle
      /\ r.kregion = parser.kregion /\ r.pending = parser.pending /\ r.event.markup = parser.event.markup
      /\ \A f \in TimeFields : r.event[f] = IF f \in DOMAIN x THEN x[f] ELSE parser.event[f]
  <2>1. TimesSet(parser, r, x)
    <3> DEFINE q == parser
    <3>1. q \in Parsers({<<>>}) /\ r = TimesRead(q, x)
      BY <1>0
    <3> HIDE DEF q, r
    <3>2. TimesSet(q, r, x)
      BY <1>0, <1>1, <1>5, <3>1, TimesSetIs
    <3> QED BY <3>2 DEF q
  <2> QED BY <2>1 DEF TimesSet
<1> HIDE DEF r, sd
<1>8. PlainHeard(sd, r)
  <2>1. PlainHeard(said, parser) /\ DOMAIN said.times = TimeFields
    BY HeardShape
  <2>2. \A f \in TimeFields : sd.times[f] = r.event[f]
    BY <1>4, <1>7, <2>1 DEF TimesSaid, PlainHeard, TimeFields
  <2> QED BY <1>4, <1>7, <2>1, <2>2 DEF PlainHeard, TimeFields
<1>9. Unmoved(parser, r, said, sd, Kindred)
  BY <1>4, <1>7 DEF Unmoved
<1>10. parser.phase = "event" /\ Read(r)
  BY <1>1 DEF Only, Hearing
<1> QED BY <1>2, <1>3, <1>4, <1>5, <1>7, <1>8, <1>9, <1>10, PlainAttends

(* A field of the overrides that is said and set.                            *)
LEMMA FieldAttends ==
  ASSUME NEW x, NEW ok, Hearing(x, ok), x.do \notin Slots,
         NEW f \in {"mapping", "language", "direction", "meta"}, NEW w,
         NEW r \in Parsers({<<>>}), r = [parser EXCEPT !.pending[f] = w], Only(r),
         said' = [said EXCEPT !.over[f] = w]
  PROVE  Aheard
<1>1. /\ Shaped(said) /\ DOMAIN said.over = OverFields /\ PlainHeard(said, parser) /\ parser.phase = "event"
      /\ parser \in Parsers({<<>>}) /\ parser.pending \in PendingOf
  BY HeardShape, HearingHas, ParserHas
<1>2. DOMAIN parser.pending = OverFields
  BY <1>1 DEF PendingOf, OverFields
<1>3. /\ DOMAIN said' = DOMAIN said /\ said'.times = said.times /\ said'.latest = said.latest
      /\ said'.over = [said.over EXCEPT ![f] = w]
  BY <1>1 DEF Shaped
<1>4. /\ r.metas = parser.metas /\ r.phase = parser.phase /\ r.kstyle = parser.kstyle
      /\ r.kregion = parser.kregion /\ r.event = parser.event
      /\ r.pending = [parser.pending EXCEPT ![f] = w]
  BY <1>1 DEF Parsers
<1>5. f \in OverFields /\ f # "markup" /\ \A g \in Kindred : g # f /\ g \in OverFields
  BY DEF OverFields, Kindred
<1>6. /\ \A g \in OverFields : said'.over[g] = IF g = f THEN w ELSE said.over[g]
      /\ \A g \in OverFields : r.pending[g] = IF g = f THEN w ELSE parser.pending[g]
      /\ DOMAIN said'.over = OverFields
  BY <1>1, <1>2, <1>3, <1>4, <1>5
<1>7. Unmoved(parser, r, said, said', Kindred)
  BY <1>3, <1>4, <1>5, <1>6 DEF Unmoved
<1>8. Shaped(said')
  BY <1>1, <1>3, <1>6 DEF Shaped
<1>9. PlainHeard(said', r)
  <2>1. \A g \in {"mapping", "language", "direction", "meta"} : g \in OverFields /\ said.over[g] = parser.pending[g]
    BY <1>1 DEF PlainHeard, OverFields
  <2>2. \A g \in {"mapping", "language", "direction", "meta"} : said'.over[g] = r.pending[g]
    BY <1>6, <2>1
  <2>3. said'.over["markup"] = said.over["markup"] /\ "markup" \in OverFields
    BY <1>5, <1>6 DEF OverFields
  <2> QED BY <1>1, <1>3, <1>4, <2>2, <2>3 DEF PlainHeard
<1> QED BY <1>1, <1>4, <1>7, <1>8, <1>9, PlainAttends DEF Only

LEMMA SpokenAttends ==
  ASSUME NEW x, NEW ok, Hearing(x, ok), SetLanguage(x) \/ SetDirectionality(x), ~parser'.wrong PROVE Aheard
<1>1. /\ parser \in Parsers({<<>>}) /\ Starts(parser, ok) /\ ok \in BOOLEAN /\ Typed(x)
      /\ x.do \in {"language", "directionality"}
  BY HearingHas DEF SetLanguage, SetDirectionality
<1>2. x.name \in Word /\ x.do \notin Slots /\ x.do \in Statements
  BY <1>1 DEF Typed, Slots, Statements
<1>3. said' = Say(x)
  BY <1>2, HearingHas
<1>4. CASE SetLanguage(x)
  <2> DEFINE r == [parser EXCEPT !.pending.language = x.name]
  <2>1. r \in Parsers({<<>>})
    BY <1>1, <1>2, SpokenIs DEF Steps
  <2>2. said' = [said EXCEPT !.over.language = x.name]
    BY <1>3, <1>4 DEF Say, SetLanguage, Slots
  <2>3. Only(r)
    BY <1>4 DEF SetLanguage
  <2> QED BY <1>2, <2>1, <2>2, <2>3, FieldAttends
<1>5. CASE SetDirectionality(x)
  <2> DEFINE r == [parser EXCEPT !.pending.direction = x.name]
  <2>1. r \in Parsers({<<>>})
    BY <1>1, <1>2, SpokenIs DEF Steps
  <2>2. said' = [said EXCEPT !.over.direction = x.name]
    BY <1>3, <1>5 DEF Say, SetDirectionality, Slots
  <2>3. Only(r)
    BY <1>5 DEF SetDirectionality
  <2> QED BY <1>2, <2>1, <2>2, <2>3, FieldAttends
<1> QED BY <1>4, <1>5

LEMMA MetaAttends ==
  ASSUME NEW x, NEW ok, Hearing(x, ok), AddEventMeta(x), ~parser'.wrong PROVE Aheard
<1> DEFINE r == MetaRead(parser, x)
           leaf == StoredLeaf(x.leaf)
<1>1. /\ parser \in Parsers({<<>>}) /\ Starts(parser, ok) /\ ok \in BOOLEAN /\ Typed(x) /\ x.do = "meta" /\ Only(r)
  BY HearingHas DEF AddEventMeta
<1>2. x.leaf \in [tag : STRING, value : STRING] /\ x.do \notin Slots /\ x.do \in Statements
  BY <1>1 DEF Typed, Slots, Statements
<1>3. said' = [said EXCEPT !.over.meta = Append(@, leaf)]
  <2>1. said' = Say(x)
    BY <1>2, HearingHas
  <2> QED BY <1>1, <2>1 DEF Say, Slots
<1>4. r \in Parsers({<<>>})
  BY <1>1, <1>2, MetaReadIs DEF Steps
<1>5. ~r.wrong
  <2> HIDE DEF r
  <2> QED BY <1>1, <1>4, DroppedHas DEF Only, Read
<1>6. r = [parser EXCEPT !.pending.meta = Append(@, leaf)]
  <2> DEFINE c == x.leaf.value = "long"
             q == ErrIf(c, parser)
  <2>1. r = Err(parser) \/ r = [q EXCEPT !.pending.meta = Append(@, leaf)]
    BY DEF MetaRead
  <2> HIDE DEF r, c
  <2>2. r # Err(parser)
    BY <1>1, <1>5, ErrIs
  <2>3. q \in Parsers({<<>>})
    BY <1>1, ErrIfIs
  <2>4. ~q.wrong
    <3> HIDE DEF q, leaf
    <3>1. [q EXCEPT !.pending.meta = Append(@, leaf)].wrong = q.wrong
      BY <2>3 DEF Parsers
    <3> QED BY <1>5, <2>1, <2>2, <3>1
  <2>5. q = parser
    BY <1>1, <2>4, ErrIfWrong
  <2> QED BY <2>1, <2>2, <2>5
<1> HIDE DEF r, leaf
<1>7. said.over.meta = parser.pending.meta
  BY HeardShape DEF PlainHeard
<1> DEFINE w == Append(said.over.meta, leaf)
<1>8. said' = [said EXCEPT !.over["meta"] = w] /\ r = [parser EXCEPT !.pending["meta"] = w]
  BY <1>3, <1>6, <1>7
<1> HIDE DEF w
<1> QED BY <1>1, <1>2, <1>4, <1>8, FieldAttends

LEMMA MappingAttends ==
  ASSUME NEW x, NEW ok, Hearing(x, ok), SetMapping(x), ~parser'.wrong PROVE Aheard
<1> DEFINE r == MappingRead(parser, x)
           w == InInfo(SaidAt("mapping", x.ref))
<1>1. /\ parser \in Parsers({<<>>}) /\ Starts(parser, ok) /\ ok \in BOOLEAN /\ Typed(x) /\ x.do = "mapping" /\ Only(r)
      /\ Formed(x) /\ Tables
  BY HearingHas DEF SetMapping
<1>2. x.ref \in Reference \ {NoRef} /\ x.do \notin Slots /\ x.do \in Statements /\ x.braces = FALSE
  BY <1>1 DEF Typed, Slots, Statements, Formed, Derives
<1>3. said' = [said EXCEPT !.over.mapping = w]
  <2>1. said' = Say(x)
    BY <1>2, HearingHas
  <2>2. SlotSaid(x, "mapping") = w
    BY <1>2 DEF SlotSaid
  <2> QED BY <1>1, <2>1, <2>2 DEF Say, Slots
<1>4. r \in Parsers({<<>>})
  BY <1>1, <1>2, MappingReadIs DEF Steps
<1>5. ~r.wrong
  <2> HIDE DEF r
  <2> QED BY <1>1, <1>4, DroppedHas DEF Only, Read
<1>6. r = [parser EXCEPT !.pending.mapping = w]
  <2> DEFINE c == Missing("mapping", x.ref)
             q == ErrIf(c, parser)
             i == Found("mapping", x.ref)
  <2>1. r = Ended(parser, "exited") \/ r = [q EXCEPT !.pending.mapping = InInfo(i)]
    BY DEF MappingRead
  <2> HIDE DEF r, c
  <2>2. r # Ended(parser, "exited")
    BY <1>1, <1>5, EndedIs
  <2>3. q \in Parsers({<<>>})
    BY <1>1, ErrIfIs
  <2>4. ~q.wrong
    <3> HIDE DEF q, i
    <3>1. [q EXCEPT !.pending.mapping = InInfo(i)].wrong = q.wrong
      BY <2>3 DEF Parsers
    <3> QED BY <1>5, <2>1, <2>2, <3>1
  <2>5. q = parser /\ ~c
    BY <1>1, <2>4, ErrIfWrong, ErrIfIs
  <2>6. i = SaidAt("mapping", x.ref)
    BY <1>1, <1>2, <2>5, FoundSaid, KindsAre DEF c, Hearing
  <2> QED BY <2>1, <2>2, <2>5, <2>6
<1> HIDE DEF r, w
<1> QED BY <1>1, <1>2, <1>3, <1>4, <1>6, FieldAttends

(* A text that is not refused.                                               *)
LEMMA TextOnlyIs ==
  ASSUME NEW p \in Parsers({<<>>}), NEW x, Typed(x), x.do = "text",
         NEW r, r = TextRead(p, x), ~r.wrong
  PROVE  r = [p EXCEPT !.event.text = EventText(x.text, x.pre), !.event.hasText = TRUE,
                       !.event.markup = x.markup]
<1> DEFINE q == [p EXCEPT !.event.hasText = TRUE, !.event.markup = x.markup]
           text == EventText(x.text, x.pre)
<1>0. x.markup \in BOOLEAN
  BY DEF Typed
<1>1. p.event \in EventOf
  BY ParserHas
<1>2. r \in {Err(p), Ended(p, "exited"), Err(q), [q EXCEPT !.event.text = text]}
  <2> HIDE DEF q, text
  <2> QED BY DEF TextRead, q, text
<1>3. q \in Parsers({<<>>})
  <2> DEFINE v == [p.event EXCEPT !.hasText = TRUE, !.markup = x.markup]
  <2>1. v \in EventOf
    BY <1>0, <1>1 DEF EventOf
  <2>2. q = [p EXCEPT !.event = v]
    BY <1>1 DEF Parsers, EventOf
  <2> HIDE DEF v, q
  <2> QED BY <2>1, <2>2 DEF Parsers
<1>4. [q EXCEPT !.event.text = text]
        = [p EXCEPT !.event.text = text, !.event.hasText = TRUE, !.event.markup = x.markup]
  <2> HIDE DEF text
  <2> QED BY <1>1 DEF Parsers, EventOf
<1> HIDE DEF q, text
<1>5. Err(p).wrong /\ Ended(p, "exited").wrong /\ Err(q).wrong
  BY <1>3, ErrIs, EndedIs
<1>6. r = [q EXCEPT !.event.text = text]
  BY <1>2, <1>5
<1> QED BY <1>4, <1>6 DEF text

LEMMA TextAttends ==
  ASSUME NEW x, NEW ok, Hearing(x, ok), SetText(x), ~parser'.wrong PROVE Aheard
<1> DEFINE r == TextRead(parser, x)
           text == EventText(x.text, x.pre)
           pieces == <<[words |-> x.text, how |-> IF x.pre THEN "pre" ELSE "lines"]>>
<1>1. /\ parser \in Parsers({<<>>}) /\ Starts(parser, ok) /\ ok \in BOOLEAN /\ Typed(x) /\ x.do = "text" /\ Only(r)
  BY HearingHas DEF SetText
<1>2. x.text \in Seq(STRING) /\ x.markup \in BOOLEAN /\ x.do \notin Slots /\ x.do \in Statements
  BY <1>1 DEF Typed, Slots, Statements
<1>3. said' = [said EXCEPT !.pieces = pieces, !.words = text, !.over.markup = x.markup]
  <2>1. said' = Say(x)
    BY <1>2, HearingHas
  <2> QED BY <1>1, <2>1 DEF Say, Slots
<1>4. r \in Parsers({<<>>})
  BY <1>1, <1>2, TextReadIs DEF Steps
<1>5. ~r.wrong
  <2> HIDE DEF r
  <2> QED BY <1>1, <1>4, DroppedHas DEF Only, Read
<1>6. r = [parser EXCEPT !.event.text = text, !.event.hasText = TRUE, !.event.markup = x.markup]
  <2> HIDE DEF r
  <2>1. r = TextRead(parser, x)
    BY DEF r
  <2> HIDE DEF text
  <2> QED BY <1>1, <1>5, <2>1, TextOnlyIs DEF text
<1> HIDE DEF r, text, pieces
<1>7. /\ Shaped(said) /\ DOMAIN said.over = OverFields /\ PlainHeard(said, parser) /\ parser.phase = "event"
      /\ parser.event \in EventOf
  BY <1>1, HeardShape, ParserHas
<1>8. /\ DOMAIN said' = DOMAIN said /\ said'.times = said.times /\ said'.latest = said.latest
      /\ said'.over = [said.over EXCEPT !.markup = x.markup]
  BY <1>3, <1>7 DEF Shaped
<1>9. /\ r.metas = parser.metas /\ r.phase = parser.phase /\ r.kstyle = parser.kstyle
      /\ r.kregion = parser.kregion /\ r.pending = parser.pending
      /\ r.event.markup = x.markup
      /\ \A g \in {"t0", "t1", "for"} : r.event[g] = parser.event[g]
  <2> DEFINE ev == [parser.event EXCEPT !.text = text, !.hasText = TRUE, !.markup = x.markup]
  <2>1. ev.markup = x.markup /\ \A g \in {"t0", "t1", "for"} : ev[g] = parser.event[g]
    BY <1>7 DEF EventOf
  <2>2. r = [parser EXCEPT !.event = ev]
    BY <1>1, <1>6 DEF Parsers
  <2> HIDE DEF ev
  <2>3. r.event = ev
    BY <1>1, <2>2 DEF Parsers
  <2> QED BY <1>1, <2>1, <2>2, <2>3 DEF Parsers
<1>10. /\ \A g \in OverFields \ {"markup"} : said'.over[g] = said.over[g]
       /\ DOMAIN said'.over = OverFields /\ said'.over.markup = x.markup
  <2>1. "markup" \in OverFields
    BY DEF OverFields
  <2> QED BY <1>7, <1>8, <2>1
<1>11. Unmoved(parser, r, said, said', Kindred)
  <2>1. Kindred \subseteq OverFields \ {"markup"}
    BY DEF Kindred, OverFields
  <2> QED BY <1>8, <1>9, <1>10, <2>1 DEF Unmoved
<1>12. Shaped(said')
  BY <1>7, <1>8, <1>10 DEF Shaped
<1>13. PlainHeard(said', r)
  <2>1. {"mapping", "language", "direction", "meta"} \subseteq OverFields \ {"markup"}
    BY DEF OverFields
  <2> QED BY <1>7, <1>8, <1>9, <1>10, <2>1 DEF PlainHeard
<1> QED BY <1>1, <1>2, <1>4, <1>7, <1>9, <1>11, <1>12, <1>13, PlainAttends DEF Only

LEMMA IdAttends ==
  ASSUME NEW x, NEW ok, Hearing(x, ok), SetId(x), ~parser'.wrong PROVE Aheard
<1>1. parser \in Parsers({<<>>}) /\ x.do = "id" /\ Only(parser) /\ said' = said
  BY HearingHas DEF SetId
<1>2. x.do \notin Slots
  BY <1>1 DEF Slots
<1>3. Shaped(said) /\ PlainHeard(said, parser) /\ parser.phase = "event"
  BY HeardShape
<1>4. Unmoved(parser, parser, said, said', Kindred)
  BY <1>1 DEF Unmoved
<1> QED BY <1>1, <1>2, <1>3, <1>4, PlainAttends DEF Only

-----------------------------------------------------------------------------
(* A statement that sets one of the slots of the event.                      *)

(* The slot was put in the parser, and was said.                             *)
SlotPut(q, slot, w) ==
  /\ q \in Parsers({<<>>}) /\ q.phase = "event"
  /\ \A f \in {"t0", "t1", "for", "markup"} : q.event[f] = parser.event[f]
  /\ q.pending = [parser.pending EXCEPT ![slot] = w]
SlotTold(sd, slot, w) ==
  /\ DOMAIN sd = DOMAIN said /\ sd.times = said.times
  /\ sd.over = [said.over EXCEPT ![slot] = w]
LEMMA SlotRest ==
  ASSUME NEW x, NEW ok, Hearing(x, ok), NEW slot \in Kindred, NEW w, NEW w2,
         NEW q, SlotPut(q, slot, w), NEW sd, SlotTold(sd, slot, w2)
  PROVE  /\ Shaped(sd) /\ PlainHeard(sd, q) /\ q.pending[slot] = w /\ sd.over[slot] = w2
         /\ Left(parser, q, said, sd, Kindred \ {slot})
<1>1. /\ Shaped(said) /\ DOMAIN said.over = OverFields /\ PlainHeard(said, parser)
      /\ parser \in Parsers({<<>>}) /\ parser.pending \in PendingOf
  BY HeardShape, HearingHas, ParserHas
<1>2. DOMAIN parser.pending = OverFields
  BY <1>1 DEF PendingOf, OverFields
<1>3. slot \in OverFields /\ Kindred \subseteq OverFields
  BY DEF OverFields, Kindred
<1>4. /\ \A f \in OverFields : sd.over[f] = IF f = slot THEN w2 ELSE said.over[f]
      /\ \A f \in OverFields : q.pending[f] = IF f = slot THEN w ELSE parser.pending[f]
      /\ DOMAIN sd.over = OverFields
  BY <1>1, <1>2, <1>3 DEF SlotPut, SlotTold
<1>5. Shaped(sd)
  BY <1>1, <1>4 DEF Shaped, SlotTold
<1>6. PlainHeard(sd, q)
  <2>1. \A f \in {"mapping", "language", "direction", "meta", "markup"} : f \in OverFields /\ f # slot
    BY DEF OverFields, Kindred
  <2>2. \A f \in {"mapping", "language", "direction", "meta", "markup"} :
          sd.over[f] = said.over[f] /\ q.pending[f] = parser.pending[f]
    BY <1>4, <2>1
  <2>3. \A f \in {"mapping", "language", "direction", "meta"} : sd.over[f] = q.pending[f]
    BY <1>1, <2>2 DEF PlainHeard
  <2>4. sd.over.markup = said.over.markup
    BY <2>2
  <2> QED BY <1>1, <2>3, <2>4 DEF PlainHeard, SlotPut, SlotTold
<1> QED BY <1>3, <1>4, <1>5, <1>6 DEF Left

(* What the encoder is told, and that it was not told before.                *)
LEMMA SetIndexHas ==
  ASSUME NEW V, NEW p \in Parsers(V), NEW slot \in Slots, NEW kind, NEW i,
         ~SetIndex(p, slot, kind, i).wrong
  PROVE  /\ SetIndex(p, slot, kind, i) = Slotted(p, slot, InInfo(i)) /\ ~p.wrong
         /\ p.event.set[slot] = FALSE /\ p.pending[slot].at \in {"none", "info"}
<1> DEFINE r == SetIndex(p, slot, kind, i)
<1>1. p.event \in EventOf /\ p.event.set[slot] \in BOOLEAN
  <2>1. p.event \in EventOf
    BY ParserHas
  <2> QED BY <2>1 DEF EventOf
<1>2. r = Err(p) \/ r = Err(Marked(p, slot)) \/ r = [Marked(p, slot) EXCEPT !.pending[slot] = InInfo(i)]
  BY <1>1 DEF SetIndex, Marked
<1>3. Marked(p, slot) \in Parsers(V) /\ Marked(p, slot).wrong = p.wrong
  <2> DEFINE ev == [p.event EXCEPT !.set[slot] = TRUE]
  <2>1. ev \in EventOf
    BY <1>1 DEF EventOf
  <2>2. Marked(p, slot) = [p EXCEPT !.event = ev]
    BY DEF Marked, Parsers
  <2> HIDE DEF ev
  <2> QED BY <2>1, <2>2 DEF Parsers
<1>4. r # Err(p) /\ r # Err(Marked(p, slot))
  BY <1>3, ErrIs
<1>5. p.event.set[slot] = FALSE /\ p.pending[slot].at \in {"none", "info"}
  <2>1. p.event.set[slot] => r = Err(p)
    BY DEF SetIndex
  <2>2. ~p.event.set[slot] /\ p.pending[slot].at \notin {"none", "info"} => r = Err(Marked(p, slot))
    BY DEF SetIndex, Marked
  <2> QED BY <1>1, <1>4, <2>1, <2>2
<1>6. r = Slotted(p, slot, InInfo(i))
  BY <1>2, <1>4 DEF Slotted
<1> DEFINE u == Marked(p, slot)
           w == InInfo(i)
<1>7. [u EXCEPT !.pending[slot] = w].wrong = u.wrong
  <2> HIDE DEF u, w
  <2> QED BY <1>3 DEF Parsers, u
<1> QED BY <1>3, <1>5, <1>6, <1>7 DEF Slotted

LEMMA SetOwnHas ==
  ASSUME NEW V, NEW p \in Parsers(V), NEW slot \in Slots, NEW w, ~SetOwn(p, slot, w).wrong
  PROVE  /\ SetOwn(p, slot, w) = Slotted(p, slot, w) /\ ~p.wrong
         /\ p.event.set[slot] = FALSE /\ p.pending[slot].at # "info"
<1> DEFINE r == SetOwn(p, slot, w)
<1>1. p.event \in EventOf /\ p.event.set[slot] \in BOOLEAN
  <2>1. p.event \in EventOf
    BY ParserHas
  <2> QED BY <2>1 DEF EventOf
<1>2. r = Err(p) \/ r = Err(Marked(p, slot)) \/ r = [Marked(p, slot) EXCEPT !.pending[slot] = w]
  BY <1>1 DEF SetOwn, Marked
<1>3. Marked(p, slot) \in Parsers(V) /\ Marked(p, slot).wrong = p.wrong
  <2> DEFINE ev == [p.event EXCEPT !.set[slot] = TRUE]
  <2>1. ev \in EventOf
    BY <1>1 DEF EventOf
  <2>2. Marked(p, slot) = [p EXCEPT !.event = ev]
    BY DEF Marked, Parsers
  <2> HIDE DEF ev
  <2> QED BY <2>1, <2>2 DEF Parsers
<1>4. r # Err(p) /\ r # Err(Marked(p, slot))
  BY <1>3, ErrIs
<1>5. p.event.set[slot] = FALSE /\ p.pending[slot].at # "info"
  <2>1. p.event.set[slot] => r = Err(p)
    BY DEF SetOwn
  <2>2. ~p.event.set[slot] /\ p.pending[slot].at = "info" => r = Err(Marked(p, slot))
    BY DEF SetOwn, Marked
  <2> QED BY <1>1, <1>4, <2>1, <2>2
<1>6. r = Slotted(p, slot, w)
  BY <1>2, <1>4 DEF Slotted
<1> DEFINE u == Marked(p, slot)
<1>7. [u EXCEPT !.pending[slot] = w].wrong = u.wrong
  <2> HIDE DEF u
  <2> QED BY <1>3 DEF Parsers, u
<1> QED BY <1>3, <1>5, <1>6, <1>7 DEF Slotted

Dropped(r) == [r EXCEPT !.v = <<>>]
LEMMA SlottedHas ==
  ASSUME NEW V, NEW p \in Parsers(V), NEW slot \in Slots, NEW w \in SlotTypes(slot),
         NEW q, q = Dropped(Slotted(p, slot, w))
  PROVE  /\ q \in Parsers({<<>>}) /\ q.phase = p.phase /\ q.metas = p.metas
         /\ q.kstyle = p.kstyle /\ q.kregion = p.kregion /\ q.wrong = p.wrong
         /\ \A f \in {"t0", "t1", "for", "markup"} : q.event[f] = p.event[f]
         /\ q.pending = [p.pending EXCEPT ![slot] = w]
<1> DEFINE ev == [p.event EXCEPT !.set[slot] = TRUE]
           pe == [p.pending EXCEPT ![slot] = w]
           u == Marked(p, slot)
           r == Slotted(p, slot, w)
<1>1. p.event \in EventOf /\ p.pending \in PendingOf
  BY ParserHas
<1>2. ev \in EventOf /\ \A f \in {"t0", "t1", "for", "markup"} : ev[f] = p.event[f]
  BY <1>1 DEF EventOf
<1>3. pe \in PendingOf
  BY <1>1, SlotTypesAre
<1>4. u = [p EXCEPT !.event = ev]
  BY DEF Marked, Parsers
<1> HIDE DEF ev
<1>5. /\ u \in Parsers(V) /\ u.event = ev /\ u.pending = p.pending /\ u.phase = p.phase /\ u.metas = p.metas
      /\ u.kstyle = p.kstyle /\ u.kregion = p.kregion /\ u.wrong = p.wrong
  <2> HIDE DEF u
  <2> QED BY <1>2, <1>4 DEF Parsers
<1> HIDE DEF u
<1>6. r = [u EXCEPT !.pending = pe]
  BY <1>5 DEF Slotted, u, Parsers
<1> HIDE DEF pe, r
<1>7. /\ r \in Parsers(V) /\ r.event = ev /\ r.pending = pe /\ r.phase = p.phase /\ r.metas = p.metas
      /\ r.kstyle = p.kstyle /\ r.kregion = p.kregion /\ r.wrong = p.wrong
  BY <1>3, <1>5, <1>6 DEF Parsers
<1> QED BY <1>2, <1>7, DroppedHas DEF pe, r, Dropped

(* An item of the event's own, from the value that it starts from.           *)
StartOf(x) == IF x.ref # NoRef THEN Item(KindOf(x.do), x.ref) ELSE Initial(KindOf(x.do))
ReadOf(x) == ItemFrom(KindOf(x.do), parser, StartOf(x), x.body)
OwnOfIts(x) == IF KindOf(x.do) \in {"style", "region"} THEN Static(x.do) ELSE Own(ReadOf(x).v)
LEMMA SlotBody ==
  ASSUME NEW x, NEW ok, Hearing(x, ok), x.do \in Slots, x.braces = TRUE, Only(SlotRead(parser, x)), ~parser'.wrong
  PROVE  /\ x.ref # NoRef => x.ref \in Reference /\ ~Missing(KindOf(x.do), x.ref)
         /\ ReadOf(x) \in ItemOf(KindOf(x.do), parser, ok) /\ OwnOfIts(x) \in SlotTypes(x.do)
         /\ SlotRead(parser, x) = Slotted(ReadOf(x), x.do, OwnOfIts(x))
         /\ Says(KindOf(x.do), ok, x.body) /\ StartOf(x) \in Val(KindOf(x.do)) /\ KindOf(x.do) \in Marked4
<1> DEFINE slot == x.do
           ref == x.ref
           kind == KindOf(slot)
           derives == ref # NoRef
           c == derives /\ Missing(kind, ref)
           q == ErrIf(c, parser)
           v == StartOf(x)
           z == ItemFrom(kind, q, v, x.body)
           r == SlotRead(parser, x)
<1> HIDE DEF c
<1>1. /\ parser \in Parsers({<<>>}) /\ Going(parser) /\ ItemsHold(parser, ok) /\ Tables /\ Starts(parser, ok)
      /\ ok \in BOOLEAN /\ Typed(x) /\ Formed(x)
  BY HearingHas DEF Starts
<1>2. derives => ref \in Reference
  BY <1>1 DEF Typed, Refers
<1>3. kind \in AllKinds /\ kind \in Marked4
  BY KindOfIs DEF KindOf, Slots, Marked4
<1>4. Says(kind, ok, x.body)
  BY BodySays DEF Hearing
<1>5. /\ q \in Parsers({<<>>}) /\ Reads(parser, q) /\ (~q.wrong => ~c /\ q = parser)
      /\ q.phase = parser.phase
  BY <1>1, ErrIfIs, ErrIfWrong
<1>6. ~r.wrong
  <2> HIDE DEF r
  <2>1. Leaves1(parser, r, ok)
    BY <1>1, <1>2, <1>4, SlotReadIs DEF r
  <2>2. \E V : r \in Parsers(V)
    BY <2>1 DEF Leaves1, Steps
  <2> QED BY <2>2, DroppedHas DEF Only, Read, r
<1>7. r = CASE derives /\ ~x.braces -> SetIndex(q, slot, kind, Found(kind, ref))
            [] derives /\ x.braces /\ OutOf(kind, ref) -> Crashed(q)
            [] OTHER -> OwnRead(z, slot)
  BY DEF SlotRead, c, StartOf
<1> HIDE DEF q, r
<1>8. ~(derives /\ OutOf(kind, ref))
  <2>1. SUFFICES ASSUME derives, OutOf(kind, ref) PROVE FALSE
    OBVIOUS
  <2>2. c
    BY <1>1, <1>2, <1>3, <2>1, FoundIs DEF c
  <2>3. q.wrong
    BY <1>5, <2>2, ParserHas
  <2>4. r = Crashed(q)
    BY <1>7, <2>1
  <2> QED BY <1>5, <1>6, <2>3, <2>4, CrashedIs
<1>9. r = OwnRead(z, slot)
  BY <1>7, <1>8
<1>10. ItemsHold(q, ok) /\ Going(q)
  <2>1. Moves(parser, q)
    BY <1>5 DEF Reads
  <2>2. ok => ok
    OBVIOUS
  <2> QED BY <1>1, <1>5, <2>1, <2>2, ItemsStay DEF Going
<1>11. [q EXCEPT !.v = v] \in ReadingOf(kind, q, ok)
  <2>1. Reads(q, q)
    BY <1>5, ReadsItself
  <2>2. CASE derives
    <3>1. v = Item(kind, ref)
      BY <2>2 DEF StartOf
    <3> QED BY <1>1, <1>2, <1>3, <1>5, <1>8, <1>10, <2>1, <2>2, <3>1, ItemIs
  <2>3. CASE ~derives
    <3>1. v = Initial(kind)
      BY <2>3 DEF StartOf
    <3> QED BY <1>1, <1>3, <1>5, <2>1, <3>1, InitialIs
  <2> QED BY <2>2, <2>3
<1> HIDE DEF v
<1>12. z \in ItemOf(kind, q, ok)
  BY <1>1, <1>3, <1>4, <1>5, <1>10, <1>11, ItemFromIs
<1>13. v \in Val(kind)
  <2>1. [q EXCEPT !.v = v].v = v
    BY <1>5 DEF Parsers
  <2>2. [q EXCEPT !.v = v] \in Parsers(Val(kind))
    BY <1>11 DEF ReadingOf
  <2> QED BY <2>1, <2>2, ParserHas
<1> HIDE DEF z
<1>14. z \in Parsers(Val(kind)) /\ Moves(q, z)
  BY <1>12 DEF ItemOf
<1> DEFINE w == IF kind \in {"style", "region"} THEN Static(slot) ELSE Own(z.v)
<1>15. r = SetOwn(z, slot, w)
  <2>1. ~z.wrong => Going(z)
    BY <1>10, <1>14 DEF Going, Moves
  <2>2. ~Going(z) => r = z
    BY <1>9 DEF OwnRead
  <2>3. Going(z)
    BY <1>6, <2>1, <2>2
  <2> QED BY <1>9, <2>3 DEF OwnRead
<1>16. w \in SlotTypes(slot)
  <2>1. z.v \in Val(kind)
    BY <1>14, ParserHas
  <2>2. CASE kind \in {"style", "region"}
    <3>1. slot \notin {"palette", "bitmap"}
      BY <2>2 DEF KindOf
    <3> QED BY <2>2, <3>1 DEF SlotTypes, StaticSlot, Static
  <2>3. CASE kind \notin {"style", "region"}
    <3>1. slot = kind /\ slot \in {"palette", "bitmap"}
      BY <2>3 DEF KindOf, Slots
    <3> QED BY <2>1, <2>3, <3>1, ValsAre DEF SlotTypes, OwnSlot, Own
  <2> QED BY <2>2, <2>3
<1> HIDE DEF w
<1>17. r = Slotted(z, slot, w) /\ ~z.wrong
  <2> DEFINE V == Val(kind)
             s == slot
  <2>1. z \in Parsers(V) /\ s \in Slots /\ r = SetOwn(z, s, w) /\ ~r.wrong
    BY <1>6, <1>14, <1>15
  <2> HIDE DEF V, s
  <2>2. r = Slotted(z, s, w) /\ ~z.wrong
    BY <2>1, SetOwnHas
  <2> QED BY <2>2 DEF s
<1>18. ~q.wrong
  BY <1>14, <1>17 DEF Moves
<1>19. q = parser /\ ~c
  BY <1>5, <1>18
<1> QED BY <1>2, <1>3, <1>4, <1>12, <1>13, <1>16, <1>17, <1>19 DEF z, w, r, v, c, ReadOf, OwnOfIts

(* What was said of it, and what was sent of the item it derives from.       *)
LeavesOf(x) == IF x.ref # NoRef THEN header.items[KindOf(x.do)][SaidAt(KindOf(x.do), x.ref) + 1].meta ELSE <<>>
TwinOf(x) == ItemFrom(KindOf(x.do), With(parser, <<LeavesOf(x)>>), Based(StartOf(x), LeavesOf(x)), x.body)
SaidOf(x) == Sealed(KindOf(x.do), TwinOf(x).v, TwinOf(x).metas)
HeardOf(x) == Sealed(KindOf(x.do), ReadOf(x).v, ReadOf(x).metas)
LEMMA SlotSays ==
  ASSUME NEW x, NEW ok, Hearing(x, ok), x.do \in Slots, x.braces = TRUE, Only(SlotRead(parser, x)), ~parser'.wrong
  PROVE  /\ SlotSaid(x, KindOf(x.do)) = Own(SaidOf(x)) /\ LeavesOf(x) \in Seq(Leaf)
         /\ StartOf(x).meta \in 0 .. Len(parser.metas)
         /\ x.ref = NoRef => StartOf(x).meta = 0
         /\ x.ref # NoRef => Foreign(StartOf(x).meta) /\ ~OutOf(KindOf(x.do), x.ref)
         /\ x.ref = NoRef \/ ~shared => Held(StartOf(x), parser.metas) = LeavesOf(x)
<1> DEFINE kind == KindOf(x.do)
           v == StartOf(x)
           leaves == LeavesOf(x)
           base == header.items[kind][SaidAt(kind, x.ref) + 1]
           from == IF x.ref # NoRef THEN [base EXCEPT !.meta = 0] ELSE Initial(kind)
<1>1. /\ x.ref # NoRef => x.ref \in Reference /\ ~Missing(kind, x.ref)
      /\ kind \in Marked4 /\ v \in Val(kind)
  BY SlotBody
<1>2. /\ parser \in Parsers({<<>>}) /\ ItemsHold(parser, ok) /\ Tables /\ HeaderHeld(parser, shared)
      /\ header # <<>> /\ names = declared
  BY HearingHas DEF Hearing
<1>3. kind \in AllKinds
  BY KindOfIs
<1>4. HasMeta(kind) /\ v.meta \in Nat /\ Len(parser.metas) \in Nat
  BY <1>1, <1>2, MetaHas, ParserHas
<1>5. SlotSaid(x, kind) = Own(OwnSaid(kind, from, leaves, x.body))
  BY DEF SlotSaid, LeavesOf
<1>6. CASE x.ref # NoRef
  <2> DEFINE i == SaidAt(kind, x.ref) + 1
  <2>1. Found(kind, x.ref) = SaidAt(kind, x.ref) /\ InTable(kind, SaidAt(kind, x.ref))
    BY <1>1, <1>2, <1>3, <1>6, FoundSaid
  <2>2. i \in DOMAIN info[kind] /\ v = info[kind][i]
    <3>1. info[kind] \in Seq(Val(kind))
      BY <1>2, <1>3 DEF Tables
    <3> QED BY <1>6, <2>1, <3>1 DEF InTable, StartOf, Item
  <2>3. ~OutOf(kind, x.ref)
    BY <1>1, <1>3, <1>2, <1>6, <2>1, FoundIs DEF OutOf, Missing, InTable
  <2>4. base = header.items[kind][i]
    OBVIOUS
  <2> HIDE DEF v, i, base
  <2>5. SentItem(base, v, parser, shared)
    BY <1>2, <1>3, <1>4, <2>2, <2>4 DEF HeaderHeld
  <2>6. v.meta <= Len(parser.metas)
    BY <1>2, <1>3, <1>4, <2>2 DEF ItemsHold
  <2>7. Foreign(v.meta)
    BY <1>3, <1>4, <2>2 DEF Foreign
  <2>8. leaves = base.meta
    BY <1>6 DEF base, LeavesOf
  <2>9. leaves \in Seq(Leaf) /\ (~shared => leaves = Held(v, parser.metas))
    BY <2>5, <2>8 DEF SentItem
  <2>10. \A m : [base EXCEPT !.meta = m] = [v EXCEPT !.meta = m]
    <3>1. base = [v EXCEPT !.meta = base.meta]
      BY <2>5 DEF SentItem
    <3>2. \A m, n : [[v EXCEPT !.meta = m] EXCEPT !.meta = n] = [v EXCEPT !.meta = n]
      BY <1>1, MetaHas DEF v
    <3> QED BY <3>1, <3>2
  <2> DEFINE u == [base EXCEPT !.meta = 0]
  <2>11. (IF leaves = <<>> THEN u ELSE [u EXCEPT !.meta = 1]) = Based(v, leaves)
    <3>1. u = [v EXCEPT !.meta = 0]
      BY <2>10
    <3>2. [[v EXCEPT !.meta = 0] EXCEPT !.meta = 1] = [v EXCEPT !.meta = 1]
      BY <1>1, MetaHas DEF v
    <3> HIDE DEF u
    <3> QED BY <3>1, <3>2 DEF Based
  <2>12. OwnSaid(kind, u, leaves, x.body) = SaidOf(x)
    <3> HIDE DEF u
    <3>1. OwnSaid(kind, u, leaves, x.body) =
            Unfolded(kind, ItemFrom(kind, With(parser, <<leaves>>), Based(v, leaves), x.body))
      BY <2>11 DEF OwnSaid, With
    <3> QED BY <3>1 DEF SaidOf, TwinOf, Unfolded, v
  <2> QED BY <1>4, <1>5, <1>6, <2>3, <2>6, <2>7, <2>9, <2>12 DEF v, base
<1>7. CASE x.ref = NoRef
  <2>1. leaves = <<>> /\ v = Initial(kind) /\ from = Initial(kind)
    BY <1>7 DEF LeavesOf, StartOf
  <2>2. v.meta = 0
    BY <2>1 DEF Initial, KindOf, Slots, Style0, Region0, Palette0, Bitmap0
  <2> HIDE DEF v, from
  <2>3. Based(v, leaves) = v
    BY <1>1, <2>1, <2>2, MetaHas DEF Based, v
  <2>4. OwnSaid(kind, from, leaves, x.body) =
          Unfolded(kind, ItemFrom(kind, With(parser, <<leaves>>), Based(v, leaves), x.body))
    BY <2>1, <2>3 DEF OwnSaid, With
  <2>5. OwnSaid(kind, from, leaves, x.body) = SaidOf(x)
    BY <2>4 DEF SaidOf, TwinOf, Unfolded, v
  <2>6. leaves \in Seq(Leaf) /\ Held(v, parser.metas) = leaves
    BY <2>1, <2>2, FormlessIs DEF Held
  <2> QED BY <1>4, <1>5, <1>7, <2>2, <2>5, <2>6 DEF v, from
<1> QED BY <1>6, <1>7

LEMMA SlotToldIs ==
  ASSUME NEW x, NEW ok, Hearing(x, ok), x.do \in Slots, ~parser'.wrong
  PROVE  LET slot == SlotSaid(x, KindOf(x.do))
         IN /\ SlotTold(said', x.do, slot)
            /\ said'.latest = IF KindOf(x.do) = "style" /\ slot.at = "own" THEN slot.own ELSE said.latest
<1> DEFINE slot == SlotSaid(x, KindOf(x.do))
           latest == IF KindOf(x.do) = "style" /\ slot.at = "own" THEN slot.own ELSE said.latest
<1>1. x.do \in Statements /\ Shaped(said) /\ KindRead(x.do) = KindOf(x.do) /\ x.do \notin {"local", "motion"}
  BY HeardShape DEF Statements, Slots, KindRead, KindOf
<1>2. said' = Say(x)
  BY <1>1, HearingHas
<1>3. Say(x) = SaySlot(x.do, slot)
  <2>1. /\ x.do # "mapping" /\ x.do # "meta" /\ x.do # "language" /\ x.do # "directionality"
        /\ x.do # "text" /\ x.do # "karaoke" /\ x.do \in Slots \cup {"local", "motion"}
    BY DEF Slots
  <2> QED BY <1>1, <2>1 DEF Say
<1>4. said' = [said EXCEPT !.over[x.do] = slot, !.latest = latest]
  BY <1>1, <1>2, <1>3 DEF SaySlot
<1> HIDE DEF slot, latest
<1>5. DOMAIN said' = DOMAIN said /\ said'.times = said.times /\ said'.over = [said.over EXCEPT ![x.do] = slot]
      /\ said'.latest = latest
  BY <1>1, <1>4 DEF Shaped
<1> QED BY <1>5 DEF SlotTold, slot, latest

(* An item of the headers is named.                                          *)
LEMMA IndexSlot ==
  ASSUME NEW x, NEW ok, Hearing(x, ok), x.do \in Slots, x.braces = FALSE, Only(SlotRead(parser, x)), ~parser'.wrong
  PROVE  LET w == InInfo(SaidAt(KindOf(x.do), x.ref))
         IN /\ SlotPut(parser', x.do, w) /\ SlotSaid(x, KindOf(x.do)) = w
            /\ parser'.metas = parser.metas /\ parser'.kstyle = parser.kstyle /\ parser'.kregion = parser.kregion
            /\ parser.pending[x.do].at \in {"none", "info"}
<1> DEFINE slot == x.do
           ref == x.ref
           kind == KindOf(slot)
           c == ref # NoRef /\ Missing(kind, ref)
           q == ErrIf(c, parser)
           i == Found(kind, ref)
           r == SlotRead(parser, x)
           w == InInfo(i)
<1> HIDE DEF c
<1>1. /\ parser \in Parsers({<<>>}) /\ Tables /\ Starts(parser, ok) /\ ok \in BOOLEAN /\ Typed(x) /\ Formed(x)
      /\ names = declared /\ parser.phase = "event"
  BY HearingHas DEF Hearing
<1>2. ref # NoRef /\ ref \in Reference
  BY <1>1 DEF Typed, Refers, Formed
<1>3. kind \in AllKinds /\ Says(kind, ok, x.body)
  BY KindOfIs, BodySays DEF Hearing
<1>5. /\ q \in Parsers({<<>>}) /\ (~q.wrong => ~c /\ q = parser)
  BY <1>1, ErrIfIs, ErrIfWrong
<1>6. ~r.wrong
  <2> HIDE DEF r
  <2>1. Leaves1(parser, r, ok)
    BY <1>1, <1>2, <1>3, SlotReadIs DEF r
  <2>2. \E V : r \in Parsers(V)
    BY <2>1 DEF Leaves1, Steps
  <2> QED BY <2>2, DroppedHas DEF Only, Read, r
<1>7. r = SetIndex(q, slot, kind, i)
  BY <1>2 DEF SlotRead, c
<1> HIDE DEF q
<1>8. r = Slotted(q, slot, w) /\ ~q.wrong /\ q.pending[slot].at \in {"none", "info"}
  <2>1. ~SetIndex(q, slot, kind, i).wrong
    BY <1>6, <1>7
  <2> HIDE DEF i, r
  <2> QED BY <1>5, <1>7, <2>1, SetIndexHas DEF w
<1>9. q = parser /\ i = SaidAt(kind, ref) /\ InTable(kind, i)
  BY <1>1, <1>2, <1>3, <1>5, <1>8, FoundSaid DEF c
<1>10. w \in SlotTypes(slot)
  <2>1. i \in Int
    BY <1>1, <1>2, <1>3, FoundIs
  <2> HIDE DEF i
  <2> QED BY <2>1 DEF SlotTypes, InInfo, InfoSlot, Slots
<1>11. parser' = Dropped(r)
  BY DEF Only, Read, Dropped
<1>12. SlotSaid(x, kind) = InInfo(SaidAt(kind, ref))
  BY <1>2 DEF SlotSaid
<1> HIDE DEF r, w
<1>13. /\ parser' \in Parsers({<<>>}) /\ parser'.phase = parser.phase /\ parser'.metas = parser.metas
       /\ parser'.kstyle = parser.kstyle /\ parser'.kregion = parser.kregion
       /\ \A f \in {"t0", "t1", "for", "markup"} : parser'.event[f] = parser.event[f]
       /\ parser'.pending = [parser.pending EXCEPT ![slot] = w]
  <2> DEFINE s == slot
  <2>1. s \in Slots /\ w \in SlotTypes(s) /\ parser' = Dropped(Slotted(parser, s, w))
    BY <1>8, <1>9, <1>10, <1>11
  <2> HIDE DEF s
  <2>2. /\ parser' \in Parsers({<<>>}) /\ parser'.phase = parser.phase /\ parser'.metas = parser.metas
        /\ parser'.kstyle = parser.kstyle /\ parser'.kregion = parser.kregion
        /\ \A f \in {"t0", "t1", "for", "markup"} : parser'.event[f] = parser.event[f]
        /\ parser'.pending = [parser.pending EXCEPT ![s] = w]
    BY <1>1, <2>1, SlottedHas
  <2> QED BY <2>2 DEF s
<1>14. SlotPut(parser', slot, w) /\ w = InInfo(SaidAt(kind, ref))
  BY <1>1, <1>9, <1>13 DEF SlotPut, w
<1> QED BY <1>8, <1>9, <1>12, <1>13, <1>14

LEMMA IndexAttends ==
  ASSUME NEW x, NEW ok, Hearing(x, ok), x.do \in Slots, x.braces = FALSE, Only(SlotRead(parser, x)), ~parser'.wrong
  PROVE  Aheard
<1> DEFINE slot == x.do
           w == InInfo(SaidAt(KindOf(slot), x.ref))
           F == Kindred \ {slot}
<1>1. /\ SlotPut(parser', slot, w) /\ SlotSaid(x, KindOf(slot)) = w
      /\ parser'.metas = parser.metas /\ parser'.kstyle = parser.kstyle /\ parser'.kregion = parser.kregion
      /\ parser.pending[slot].at \in {"none", "info"}
  BY IndexSlot
<1>2. w.at = "info"
  BY DEF InInfo
<1> HIDE DEF w
<1>3. SlotTold(said', slot, w) /\ said'.latest = said.latest
  BY <1>1, <1>2, SlotToldIs
<1>4. /\ Shaped(said') /\ PlainHeard(said', parser') /\ parser'.pending[slot] = w /\ said'.over[slot] = w
      /\ Left(parser, parser', said, said', F)
  <2>1. slot \in Kindred
    BY DEF Kindred, Slots
  <2> QED BY <1>1, <1>3, <2>1, SlotRest
<1>5. /\ parser \in Parsers({<<>>}) /\ ItemsHold(parser, ok) /\ shared \in BOOLEAN /\ Attentive(parser, said, shared)
      /\ shared' \in BOOLEAN /\ (shared => shared') /\ Len(parser.metas) \in Nat
      /\ parser' \in Parsers({<<>>}) /\ parser'.phase = "event"
  BY <1>1, HearingHas, ParserHas DEF Hearing, SlotPut
<1> DEFINE n == 0
<1>6. Beheld(parser, parser', n, shared, shared')
  BY <1>1, <1>5 DEF Beheld, Spread, Foreign
<1> HIDE DEF F, n
<1>7. /\ HeaderHeld(parser', shared') /\ Bound(parser'.kstyle, parser') /\ Bound(parser'.kregion, parser')
      /\ "palette" \in F => OwnHeard(said', parser', "palette")
      /\ "bitmap" \in F => OwnHeard(said', parser', "bitmap")
      /\ "bitmaps" \in F => AllHeard(said'.over.bitmaps, parser'.pending.bitmaps, parser', "bitmap")
      /\ "motions" \in F => AllHeard(said'.over.motions, parser'.pending.motions, parser', "motion")
      /\ "region" \in F => RegionHeard(said', parser', shared')
      /\ "style" \in F /\ "secondary" \in F => BothHeard(said', parser', shared')
      /\ StyleKept(parser, parser', said, said', "style", "secondary") =>
           StyleHeard(said', parser', shared', "style", "secondary")
      /\ StyleKept(parser, parser', said, said', "secondary", "style") =>
           StyleHeard(said', parser', shared', "secondary", "style")
  BY <1>1, <1>3, <1>4, <1>5, <1>6, RestAttends
<1>8. \A f \in Kindred : f = slot \/ f \in F
  BY DEF F
<1>9. \A kind : Encoded(parser', w, kind) = w
  BY <1>2 DEF Encoded
<1>10. /\ OwnHeard(said', parser', "palette") /\ OwnHeard(said', parser', "bitmap")
  <2>1. ASSUME slot \in {"palette", "bitmap"} PROVE OwnHeard(said', parser', slot)
    BY <1>2, <1>4, <1>9 DEF OwnHeard, Alone
  <2> QED BY <1>7, <1>8, <2>1 DEF Kindred
<1>11. /\ AllHeard(said'.over.bitmaps, parser'.pending.bitmaps, parser', "bitmap")
       /\ AllHeard(said'.over.motions, parser'.pending.motions, parser', "motion")
  BY <1>7, <1>8 DEF Kindred, Slots
<1>12. RegionHeard(said', parser', shared')
  <2>1. ASSUME slot = "region" PROVE RegionHeard(said', parser', shared')
    <3>1. said'.over.region = w /\ parser'.pending.region = w
      BY <1>4, <2>1
    <3> QED BY <1>9, <3>1 DEF RegionHeard, Same
  <2> QED BY <1>7, <1>8, <2>1 DEF Kindred
<1>13. BothHeard(said', parser', shared')
  <2>1. parser'.pending[slot].at # "static" /\ parser.pending[slot].at # "static"
    BY <1>1, <1>2, <1>4
  <2>2. CASE slot = "style"
    <3>1. StyleHeard(said', parser', shared', "style", "secondary")
      BY <1>2, <1>4, <2>2 DEF StyleHeard
    <3>2. "secondary" \in F
      BY <1>8, <2>2 DEF Kindred
    <3>3. StyleKept(parser, parser', said, said', "secondary", "style")
      BY <1>1, <1>3, <1>4, <2>1, <2>2, <3>2 DEF StyleKept, Left
    <3> QED BY <1>7, <3>1, <3>3 DEF BothHeard
  <2>3. CASE slot = "secondary"
    <3>1. StyleHeard(said', parser', shared', "secondary", "style")
      BY <1>2, <1>4, <2>3 DEF StyleHeard
    <3>2. "style" \in F
      BY <1>8, <2>3 DEF Kindred
    <3>3. StyleKept(parser, parser', said, said', "style", "secondary")
      BY <1>1, <1>3, <1>4, <2>1, <2>3, <3>2 DEF StyleKept, Left
    <3> QED BY <1>7, <3>1, <3>3 DEF BothHeard
  <2> QED BY <1>7, <1>8, <2>2, <2>3 DEF Kindred
<1>14. Attentive(parser', said', shared')
  BY <1>4, <1>7, <1>10, <1>11, <1>12, <1>13, AttentiveIs
<1> QED BY <1>5, <1>14 DEF Aheard

(* The list that a statement adds leaves to, if the headers have it.         *)
TouchedBy(x) == IF Adds(x.body) THEN StartOf(x).meta ELSE 0
LEMMA OwnReads ==
  ASSUME NEW x, NEW ok, Hearing(x, ok), x.do \in Slots, x.braces = TRUE, Only(SlotRead(parser, x)), ~parser'.wrong
  PROVE  /\ ReadOf(x).v \in Val(KindOf(x.do)) /\ Grows(parser.metas, StartOf(x).meta, ReadOf(x))
         /\ x.ref = NoRef \/ ~shared => HeardOf(x) = SaidOf(x)
         /\ Nameless(HeardOf(x)) = Nameless(SaidOf(x))
         /\ ~Adds(x.body) => ReadOf(x).metas = parser.metas
<1> DEFINE kind == KindOf(x.do)
           v == StartOf(x)
           leaves == LeavesOf(x)
           r == ReadOf(x)
           t == TwinOf(x)
           body == x.body
<1>1. /\ parser \in Parsers({<<>>}) /\ Tables /\ kind \in Marked4 /\ v \in Val(kind) /\ Says(kind, ok, body)
      /\ leaves \in Seq(Leaf) /\ v.meta \in 0 .. Len(parser.metas) /\ Len(parser.metas) \in Nat
      /\ x.ref = NoRef \/ ~shared => Held(v, parser.metas) = leaves
  BY HearingHas, SlotBody, SlotSays, ParserHas
<1>2. v.meta <= Len(parser.metas)
  BY <1>1
<1>3. /\ r = ItemFrom(kind, parser, v, body)
      /\ t = ItemFrom(kind, With(parser, <<leaves>>), Based(v, leaves), body)
  BY DEF ReadOf, TwinOf
<1> HIDE DEF kind, v, leaves, r, t, body
<1>4. /\ r \in Parsers(Val(kind)) /\ Grows(parser.metas, v.meta, r)
      /\ Held(v, parser.metas) = leaves => Sealed(kind, r.v, r.metas) = Sealed(kind, t.v, t.metas)
      /\ Nameless(Sealed(kind, r.v, r.metas)) = Nameless(Sealed(kind, t.v, t.metas))
      /\ ~Adds(body) => r.metas = parser.metas /\ r.v.meta = v.meta
  BY <1>1, <1>2, <1>3, ItemHeard
<1>5. Sealed(kind, r.v, r.metas) = HeardOf(x) /\ Sealed(kind, t.v, t.metas) = SaidOf(x)
  BY DEF HeardOf, SaidOf, kind, r, t
<1>6. r.v \in Val(kind)
  BY <1>4, ParserHas
<1> QED BY <1>1, <1>4, <1>5, <1>6 DEF kind, v, leaves, r, t, body

LEMMA OwnSlotHas ==
  ASSUME NEW x, NEW ok, Hearing(x, ok), x.do \in Slots, x.braces = TRUE, Only(SlotRead(parser, x)), ~parser'.wrong
  PROVE  /\ SlotPut(parser', x.do, OwnOfIts(x)) /\ SlotTold(said', x.do, Own(SaidOf(x)))
         /\ said'.latest = IF KindOf(x.do) = "style" THEN SaidOf(x) ELSE said.latest
         /\ parser'.metas = ReadOf(x).metas
         /\ parser'.kstyle = IF KindOf(x.do) = "style" THEN ReadOf(x).v ELSE parser.kstyle
         /\ parser'.kregion = IF KindOf(x.do) = "region" THEN ReadOf(x).v ELSE parser.kregion
<1> DEFINE kind == KindOf(x.do)
           s == x.do
           r == ReadOf(x)
           w == OwnOfIts(x)
           V == Val(kind)
<1>1. /\ parser \in Parsers({<<>>}) /\ parser.phase = "event" /\ s \in Slots
      /\ r \in ItemOf(kind, parser, ok) /\ w \in SlotTypes(s) /\ SlotRead(parser, x) = Slotted(r, s, w)
  BY HearingHas, SlotBody DEF Hearing
<1>2. /\ r \in Parsers(V) /\ Moves(parser, r) /\ r.event = parser.event /\ r.pending = parser.pending
      /\ r.kregion = (IF kind = "region" THEN r.v ELSE parser.kregion)
      /\ r.kstyle = (IF kind = "style" THEN r.v ELSE parser.kstyle)
  BY <1>1 DEF ItemOf, Aside
<1>3. parser' = Dropped(Slotted(r, s, w))
  BY <1>1 DEF Only, Read, Dropped
<1> HIDE DEF r, w, V, s
<1>4. /\ parser' \in Parsers({<<>>}) /\ parser'.phase = r.phase /\ parser'.metas = r.metas
      /\ parser'.kstyle = r.kstyle /\ parser'.kregion = r.kregion /\ parser'.wrong = r.wrong
      /\ \A f \in {"t0", "t1", "for", "markup"} : parser'.event[f] = r.event[f]
      /\ parser'.pending = [r.pending EXCEPT ![s] = w]
  BY <1>1, <1>2, <1>3, SlottedHas
<1>5. r.phase = "event"
  BY <1>1, <1>2, <1>4 DEF Moves
<1>6. SlotPut(parser', s, w)
  BY <1>2, <1>4, <1>5 DEF SlotPut
<1>7. SlotSaid(x, kind) = Own(SaidOf(x))
  BY SlotSays
<1>8. Own(SaidOf(x)).at = "own" /\ Own(SaidOf(x)).own = SaidOf(x)
  BY DEF Own
<1>9. SlotTold(said', x.do, Own(SaidOf(x))) /\ said'.latest = IF kind = "style" THEN SaidOf(x) ELSE said.latest
  BY <1>7, <1>8, SlotToldIs
<1> QED BY <1>2, <1>4, <1>6, <1>9 DEF r, w, s

LEMMA OwnHas ==
  ASSUME NEW x, NEW ok, Hearing(x, ok), x.do \in Slots, x.braces = TRUE, Only(SlotRead(parser, x)), ~parser'.wrong
  PROVE  /\ Beheld(parser, parser', TouchedBy(x), shared, shared') /\ Bound(ReadOf(x).v, parser')
         /\ Same(Own(SaidOf(x)), Own(Sealed(KindOf(x.do), ReadOf(x).v, parser'.metas)), shared')
         /\ x.ref = NoRef => /\ Private(ReadOf(x).v)
                             /\ SaidOf(x) = Sealed(KindOf(x.do), ReadOf(x).v, parser'.metas)
<1> DEFINE kind == KindOf(x.do)
           v == StartOf(x)
           r == ReadOf(x)
           m == TouchedBy(x)
<1>1. /\ parser \in Parsers({<<>>}) /\ Len(parser.metas) \in Nat /\ ItemsHold(parser, ok)
      /\ shared \in BOOLEAN /\ shared' = (shared \/ Shares(x))
      /\ v.meta \in 0 .. Len(parser.metas) /\ (x.ref = NoRef => v.meta = 0)
      /\ (x.ref # NoRef => Foreign(v.meta) /\ ~OutOf(kind, x.ref))
      /\ Grows(parser.metas, v.meta, r)
      /\ (~Adds(x.body) => r.metas = parser.metas) /\ parser'.metas = r.metas
  BY HearingHas, SlotSays, OwnReads, OwnSlotHas, ParserHas
<1>2. m # 0 => m = v.meta /\ Adds(x.body) /\ x.ref # NoRef
  BY <1>1 DEF TouchedBy
<1>3. m # 0 => Shares(x)
  <2>1. SUFFICES ASSUME m # 0 PROVE Shares(x)
    OBVIOUS
  <2>2. v = Item(kind, x.ref)
    BY <1>2, <2>1 DEF StartOf
  <2> QED BY <1>1, <1>2, <2>1, <2>2 DEF Shares, Adds
<1>4. Foreign(m)
  BY <1>1, <1>2 DEF Foreign
<1>5. Spread(parser, parser', m)
  <2>1. CASE Adds(x.body)
    <3>1. m = v.meta
      BY <2>1 DEF TouchedBy
    <3> QED BY <1>1, <3>1 DEF Grows, Spread
  <2>2. CASE ~Adds(x.body)
    BY <1>1, <2>2 DEF Spread
  <2> QED BY <2>1, <2>2
<1>6. Beheld(parser, parser', m, shared, shared')
  <2>1. shared' \in BOOLEAN /\ (shared \/ m # 0 => shared')
    BY <1>1, <1>3, HearingHas
  <2> QED BY <1>4, <1>5, <2>1 DEF Beheld
<1>7. Bound(r.v, parser')
  BY <1>1 DEF Bound, Grows
<1>8. HeardOf(x) = Sealed(kind, r.v, parser'.metas)
  BY <1>1 DEF HeardOf
<1>9. Same(Own(SaidOf(x)), Own(HeardOf(x)), shared')
  <2>1. /\ x.ref = NoRef \/ ~shared => HeardOf(x) = SaidOf(x)
        /\ Nameless(HeardOf(x)) = Nameless(SaidOf(x))
    BY OwnReads
  <2>2. WithoutMeta(Own(HeardOf(x))) = Own(Nameless(HeardOf(x)))
    BY DEF WithoutMeta, Own, Nameless
  <2>3. WithoutMeta(Own(SaidOf(x))) = Own(Nameless(SaidOf(x)))
    BY DEF WithoutMeta, Own, Nameless
  <2>4. ~shared' => ~shared
    BY <1>1
  <2> QED BY <2>1, <2>2, <2>3, <2>4 DEF Same
<1>10. x.ref = NoRef => Private(r.v) /\ SaidOf(x) = HeardOf(x)
  <2>1. SUFFICES ASSUME x.ref = NoRef PROVE Private(r.v) /\ SaidOf(x) = HeardOf(x)
    OBVIOUS
  <2>2. r.v.meta \in Nat /\ (r.v.meta = 0 \/ r.v.meta > Len(parser.metas))
    BY <1>1, <2>1 DEF Grows
  <2>3. Private(r.v)
    BY <1>1, <2>2 DEF Private, ItemsHold
  <2>4. SaidOf(x) = HeardOf(x)
    BY <2>1, OwnReads
  <2> QED BY <2>3, <2>4
<1> QED BY <1>6, <1>7, <1>8, <1>9, <1>10

LEMMA OwnAttends ==
  ASSUME NEW x, NEW ok, Hearing(x, ok), x.do \in Slots, x.braces = TRUE, Only(SlotRead(parser, x)), ~parser'.wrong
  PROVE  Aheard
<1> DEFINE slot == x.do
           kind == KindOf(slot)
           F == Kindred \ {slot}
           w == OwnOfIts(x)
           w2 == Own(SaidOf(x))
           m == TouchedBy(x)
           v == ReadOf(x).v
<1>1. /\ SlotPut(parser', slot, w) /\ SlotTold(said', slot, w2)
      /\ said'.latest = (IF kind = "style" THEN SaidOf(x) ELSE said.latest)
      /\ parser'.kstyle = (IF kind = "style" THEN v ELSE parser.kstyle)
      /\ parser'.kregion = (IF kind = "region" THEN v ELSE parser.kregion)
  BY OwnSlotHas
<1>2. /\ Beheld(parser, parser', m, shared, shared') /\ Bound(v, parser')
      /\ Same(w2, Own(Sealed(kind, v, parser'.metas)), shared')
      /\ x.ref = NoRef => Private(v) /\ w2 = Own(Sealed(kind, v, parser'.metas))
  BY OwnHas
<1>3. w = IF kind \in {"style", "region"} THEN Static(slot) ELSE Own(v)
  BY DEF OwnOfIts
<1>4. kind \in {"palette", "bitmap"} => x.ref = NoRef /\ slot = kind
  BY HearingHas DEF Formed, Derives, KindOf, Slots
<1>5. w2.at = "own" /\ w2 = Own(SaidOf(x))
  BY DEF Own
<1> HIDE DEF w, w2, m, v
<1>6. /\ Shaped(said') /\ PlainHeard(said', parser') /\ parser'.pending[slot] = w /\ said'.over[slot] = w2
      /\ Left(parser, parser', said, said', F)
  <2> DEFINE s == slot
  <2>1. s \in Kindred /\ SlotPut(parser', s, w) /\ SlotTold(said', s, w2)
    BY <1>1 DEF Kindred, Slots
  <2> HIDE DEF s
  <2>2. /\ Shaped(said') /\ PlainHeard(said', parser') /\ parser'.pending[s] = w /\ said'.over[s] = w2
        /\ Left(parser, parser', said, said', Kindred \ {s})
    BY <2>1, SlotRest
  <2> QED BY <2>2 DEF s
<1>7. /\ parser \in Parsers({<<>>}) /\ ItemsHold(parser, ok) /\ shared \in BOOLEAN /\ Attentive(parser, said, shared)
      /\ shared' \in BOOLEAN /\ parser' \in Parsers({<<>>}) /\ parser'.phase = "event"
  BY <1>1, HearingHas DEF Hearing, SlotPut
<1> HIDE DEF F
<1>8. /\ HeaderHeld(parser', shared')
      /\ parser'.kstyle = parser.kstyle => Bound(parser'.kstyle, parser')
      /\ parser'.kregion = parser.kregion => Bound(parser'.kregion, parser')
      /\ "palette" \in F => OwnHeard(said', parser', "palette")
      /\ "bitmap" \in F => OwnHeard(said', parser', "bitmap")
      /\ "bitmaps" \in F => AllHeard(said'.over.bitmaps, parser'.pending.bitmaps, parser', "bitmap")
      /\ "motions" \in F => AllHeard(said'.over.motions, parser'.pending.motions, parser', "motion")
      /\ "region" \in F /\ parser'.kregion = parser.kregion => RegionHeard(said', parser', shared')
      /\ "style" \in F /\ "secondary" \in F /\ parser'.kstyle = parser.kstyle /\ said'.latest = said.latest =>
           BothHeard(said', parser', shared')
  BY <1>2, <1>6, <1>7, RestAttends
<1>9. \A f \in Kindred : f = slot \/ f \in F
  BY DEF F
<1>10. Bound(parser'.kstyle, parser') /\ Bound(parser'.kregion, parser')
  BY <1>1, <1>2, <1>8
<1>11. OwnHeard(said', parser', "palette") /\ OwnHeard(said', parser', "bitmap")
  <2>1. ASSUME slot \in {"palette", "bitmap"} PROVE OwnHeard(said', parser', slot)
    <3>1. kind = slot
      BY <2>1 DEF KindOf
    <3>2. w = Own(v) /\ Private(v) /\ w2 = Own(Sealed(kind, v, parser'.metas))
      BY <1>2, <1>3, <1>4, <2>1, <3>1
    <3>3. w.at = "own" /\ w.own = v
      BY <3>2 DEF Own
    <3>4. Alone(w, parser') /\ Encoded(parser', w, kind) = w2
      BY <1>2, <3>2, <3>3 DEF Alone, Encoded
    <3> QED BY <1>6, <3>1, <3>4 DEF OwnHeard
  <2> QED BY <1>8, <1>9, <2>1 DEF Kindred
<1>12. /\ AllHeard(said'.over.bitmaps, parser'.pending.bitmaps, parser', "bitmap")
       /\ AllHeard(said'.over.motions, parser'.pending.motions, parser', "motion")
  BY <1>8, <1>9 DEF Kindred, Slots
<1>13. RegionHeard(said', parser', shared')
  <2>1. CASE slot = "region"
    <3>1. kind = "region" /\ said'.over.region = w2 /\ parser'.pending.region = w /\ w.at = "static"
      BY <1>3, <1>6, <2>1 DEF KindOf, Static
    <3>2. Encoded(parser', w, "region") = Own(Sealed("region", v, parser'.metas))
      BY <1>1, <3>1 DEF Encoded
    <3> QED BY <1>2, <3>1, <3>2 DEF RegionHeard
  <2>2. CASE slot # "region"
    <3>1. kind # "region"
      BY <2>2 DEF KindOf, Slots
    <3> QED BY <1>1, <1>8, <1>9, <2>2, <3>1 DEF Kindred
  <2> QED BY <2>1, <2>2
<1>14. BothHeard(said', parser', shared')
  <2>1. ASSUME kind = "style", NEW a \in {"style", "secondary"}, NEW b, a = slot
        PROVE  StyleHeard(said', parser', shared', a, b)
    <3>1. w.at = "static" /\ said'.over[a] = w2 /\ parser'.pending[a] = w
      BY <1>3, <1>6, <2>1 DEF Static
    <3>2. Encoded(parser', w, "style") = Own(Sealed("style", v, parser'.metas))
      BY <1>1, <2>1, <3>1 DEF Encoded
    <3>3. w2 = Own(said'.latest)
      BY <1>1, <1>5, <2>1
    <3> QED BY <1>2, <1>5, <2>1, <3>1, <3>2, <3>3 DEF StyleHeard
  <2>2. ASSUME kind = "style", NEW a \in {"style", "secondary"}, a # slot
        PROVE  StyleHeard(said', parser', shared', a, slot)
    <3>1. a \in F /\ parser'.pending[a] = parser.pending[a] /\ said'.over[a] = said.over[a]
      BY <1>6, <1>9, <2>2 DEF Kindred, Left
    <3>2. StyleHeard(said, parser, shared, a, slot)
      <4>1. slot \in {"style", "secondary"}
        BY <2>2 DEF KindOf
      <4>2. StyleHeard(said, parser, shared, "style", "secondary") /\ StyleHeard(said, parser, shared, "secondary", "style")
        BY <1>7 DEF Attentive, Heard
      <4> QED BY <2>2, <4>1, <4>2
    <3>3. w.at = "static" /\ parser'.pending[slot] = w
      BY <1>3, <1>6, <2>2 DEF Static
    <3>4. CASE parser.pending[a].at = "static"
      <4>1. said'.over[a].at = "own"
        BY <3>1, <3>2, <3>4 DEF StyleHeard
      <4>2. Encoded(parser', parser'.pending[a], "style") = Own(Sealed("style", v, parser'.metas))
        BY <1>1, <2>2, <3>1, <3>4 DEF Encoded
      <4>3. w2 = Own(said'.latest)
        BY <1>1, <1>5, <2>2
      <4> QED BY <1>2, <2>2, <3>1, <3>3, <3>4, <4>1, <4>2, <4>3 DEF StyleHeard
    <3>5. CASE parser.pending[a].at # "static"
      BY <3>1, <3>2, <3>5 DEF StyleHeard
    <3> QED BY <3>4, <3>5
  <2>3. CASE slot = "style"
    <3>1. kind = "style"
      BY <2>3 DEF KindOf
    <3>2. StyleHeard(said', parser', shared', "style", "secondary")
      BY <2>1, <2>3, <3>1
    <3>3. StyleHeard(said', parser', shared', "secondary", slot)
      BY <2>2, <2>3, <3>1
    <3> QED BY <2>3, <3>2, <3>3 DEF BothHeard
  <2>4. CASE slot = "secondary"
    <3>1. kind = "style"
      BY <2>4 DEF KindOf
    <3>2. StyleHeard(said', parser', shared', "secondary", "style")
      BY <2>1, <2>4, <3>1
    <3>3. StyleHeard(said', parser', shared', "style", slot)
      BY <2>2, <2>4, <3>1
    <3> QED BY <2>4, <3>2, <3>3 DEF BothHeard
  <2>5. CASE slot \notin {"style", "secondary"}
    <3>1. kind # "style"
      BY <2>5 DEF KindOf, Slots
    <3> QED BY <1>1, <1>8, <1>9, <2>5, <3>1 DEF Kindred
  <2> QED BY <2>3, <2>4, <2>5
<1>15. Attentive(parser', said', shared')
  BY <1>6, <1>8, <1>10, <1>11, <1>12, <1>13, <1>14, AttentiveIs
<1> QED BY <1>7, <1>15 DEF Aheard

LEMMA SlotAttends == ASSUME NEW x, NEW ok, Hearing(x, ok), SetSlot(x), ~parser'.wrong PROVE Aheard
<1>1. x.do \in Slots /\ Only(SlotRead(parser, x)) /\ (x.braces = TRUE \/ x.braces = FALSE)
  BY HearingHas DEF Formed, SetSlot
<1> QED BY <1>1, IndexAttends, OwnAttends

(* One more bitmap, or one more motion.                                      *)
LEMMA AppendIsEach ==
  ASSUME NEW n \in Nat, NEW s, s = [i \in 1 .. n |-> s[i]], NEW e
  PROVE  Append(s, e) = [i \in 1 .. n + 1 |-> IF i = n + 1 THEN e ELSE s[i]]
<1> DEFINE S == Range(s) \cup {e}
<1>1. s \in Seq(S) /\ e \in S /\ Len(s) = n
  <2>1. \A i \in 1 .. n : s[i] \in S
    BY DEF Range
  <2>2. e \in S
    OBVIOUS
  <2> HIDE DEF S
  <2> QED BY <2>1, <2>2
<1> HIDE DEF S
<1> QED BY <1>1

LEMMA ListAppended ==
  ASSUME NEW V, NEW W, NEW p \in Parsers(V), NEW q \in Parsers(W), NEW m, Spread(p, q, m), Foreign(m),
         NEW list, NEW S, NEW pending \in Seq(S), NEW kind, AllHeard(list, pending, p, kind),
         \A i \in DOMAIN pending : pending[i].at # "static", NEW w, Alone(w, q), NEW e, e = Encoded(q, w, kind)
  PROVE  AllHeard(Append(list, e), Append(pending, w), q, kind)
<1> DEFINE n == Len(pending)
           list2 == Append(list, e)
           pending2 == Append(pending, w)
<1>1. n \in Nat /\ DOMAIN pending = 1 .. n /\ pending = [i \in 1 .. n |-> pending[i]]
  OBVIOUS
<1>2. /\ \A i \in 1 .. n : Alone(pending[i], p) /\ list[i] = Encoded(p, pending[i], kind)
      /\ list = [i \in 1 .. n |-> list[i]]
  BY <1>1 DEF AllHeard, ListHeard
<1> HIDE DEF n
<1>3. /\ list2 = [i \in 1 .. n + 1 |-> IF i = n + 1 THEN e ELSE list[i]]
      /\ pending2 = [i \in 1 .. n + 1 |-> IF i = n + 1 THEN w ELSE pending[i]]
  BY <1>1, <1>2, AppendIsEach
<1> HIDE DEF list2, pending2
<1>4. ASSUME NEW i \in 1 .. n + 1 PROVE Alone(pending2[i], q) /\ list2[i] = Encoded(q, pending2[i], kind)
  <2>1. CASE i = n + 1
    BY <1>3, <2>1
  <2>2. CASE i # n + 1
    <3>1. i \in 1 .. n
      BY <1>1, <2>2
    <3>2. list2[i] = list[i] /\ pending2[i] = pending[i] /\ pending[i].at # "static"
      BY <1>1, <1>3, <2>2, <3>1
    <3> DEFINE slot == pending[i]
    <3>3. Alone(slot, p) /\ slot.at # "static"
      BY <1>2, <3>1, <3>2
    <3> HIDE DEF slot
    <3>4. Alone(slot, q) /\ Encoded(q, slot, kind) = Encoded(p, slot, kind)
      BY <3>3, EncodedStill
    <3> QED BY <1>2, <3>1, <3>2, <3>4 DEF slot
  <2> QED BY <2>1, <2>2
<1>5. DOMAIN pending2 = 1 .. n + 1 /\ list2 = [i \in 1 .. n + 1 |-> list2[i]]
  BY <1>3
<1> QED BY <1>4, <1>5 DEF AllHeard, ListHeard, list2, pending2

ListField(kind) == IF kind = "bitmap" THEN "bitmaps" ELSE "motions"
ListAdded(kind, w, w2) ==
  /\ SlotPut(parser', ListField(kind), Append(parser.pending[ListField(kind)], w))
  /\ SlotTold(said', ListField(kind), Append(said.over[ListField(kind)], w2))
  /\ parser'.kstyle = parser.kstyle /\ parser'.kregion = parser.kregion /\ said'.latest = said.latest
  /\ Spread(parser, parser', 0)
LEMMA ListAttends ==
  ASSUME NEW x, NEW ok, Hearing(x, ok), NEW kind \in {"bitmap", "motion"}, NEW w, NEW w2,
         ListAdded(kind, w, w2), Alone(w, parser'), w2 = Encoded(parser', w, kind)
  PROVE  Aheard
<1> DEFINE f == ListField(kind)
           F == Kindred \ {f}
           u == Append(parser.pending[f], w)
           u2 == Append(said.over[f], w2)
<1>1. f \in Kindred /\ ((f = "bitmaps" /\ kind = "bitmap") \/ (f = "motions" /\ kind = "motion"))
  BY DEF Kindred, ListField
<1>2. SlotPut(parser', f, u) /\ SlotTold(said', f, u2)
  BY DEF ListAdded
<1>3. /\ parser \in Parsers({<<>>}) /\ ItemsHold(parser, ok) /\ shared \in BOOLEAN /\ Attentive(parser, said, shared)
      /\ shared' \in BOOLEAN /\ (shared => shared') /\ Len(parser.metas) \in Nat /\ parser.pending \in PendingOf
      /\ parser' \in Parsers({<<>>}) /\ parser'.phase = "event"
  BY <1>2, HearingHas, ParserHas DEF Hearing, SlotPut
<1> DEFINE m == 0
<1>4. Beheld(parser, parser', m, shared, shared')
  BY <1>3 DEF Beheld, Foreign, ListAdded
<1>5. AllHeard(u2, u, parser', kind)
  <2>1. AllHeard(said.over[f], parser.pending[f], parser, kind)
    BY <1>1, <1>3, AttentiveIs
  <2>2. \E S : parser.pending[f] \in Seq(S)
    BY <1>1, <1>3 DEF PendingOf
  <2>3. \A i \in DOMAIN parser.pending[f] : parser.pending[f][i].at # "static"
    BY <1>1, <1>3, PendingHas
  <2> DEFINE pending == parser.pending[f]
             list == said.over[f]
  <2> HIDE DEF pending, list, m
  <2>4. AllHeard(Append(list, w2), Append(pending, w), parser', kind)
    <3>1. PICK S : pending \in Seq(S)
      BY <2>2 DEF pending
    <3>2. Spread(parser, parser', m) /\ Foreign(m)
      BY <1>4 DEF Beheld
    <3>3. AllHeard(list, pending, parser, kind) /\ \A i \in DOMAIN pending : pending[i].at # "static"
      BY <2>1, <2>3 DEF list, pending
    <3> QED BY <1>3, <3>1, <3>2, <3>3, ListAppended
  <2> QED BY <2>4 DEF list, pending
<1> HIDE DEF f, u, u2, m
<1>6. /\ Shaped(said') /\ PlainHeard(said', parser') /\ parser'.pending[f] = u /\ said'.over[f] = u2
      /\ Left(parser, parser', said, said', F)
  BY <1>1, <1>2, SlotRest
<1>7. \A g \in Kindred : g = f \/ g \in F
  BY DEF F
<1> HIDE DEF F
<1>8. /\ HeaderHeld(parser', shared') /\ Bound(parser'.kstyle, parser') /\ Bound(parser'.kregion, parser')
      /\ "palette" \in F => OwnHeard(said', parser', "palette")
      /\ "bitmap" \in F => OwnHeard(said', parser', "bitmap")
      /\ "bitmaps" \in F => AllHeard(said'.over.bitmaps, parser'.pending.bitmaps, parser', "bitmap")
      /\ "motions" \in F => AllHeard(said'.over.motions, parser'.pending.motions, parser', "motion")
      /\ "region" \in F => RegionHeard(said', parser', shared')
      /\ "style" \in F /\ "secondary" \in F => BothHeard(said', parser', shared')
  BY <1>3, <1>4, <1>6, RestAttends DEF ListAdded
<1>9. /\ AllHeard(said'.over.bitmaps, parser'.pending.bitmaps, parser', "bitmap")
      /\ AllHeard(said'.over.motions, parser'.pending.motions, parser', "motion")
  BY <1>1, <1>5, <1>6, <1>7, <1>8 DEF Kindred
<1>10. /\ OwnHeard(said', parser', "palette") /\ OwnHeard(said', parser', "bitmap")
       /\ RegionHeard(said', parser', shared') /\ BothHeard(said', parser', shared')
  BY <1>1, <1>7, <1>8 DEF Kindred
<1>11. Attentive(parser', said', shared')
  BY <1>6, <1>8, <1>9, <1>10, AttentiveIs
<1> QED BY <1>3, <1>11 DEF Aheard

LEMMA BitmapPut ==
  ASSUME NEW V, NEW p \in Parsers(V), NEW w \in InfoSlot \cup LocalSlot, NEW q, q = Dropped(AddBitmap(p, w))
  PROVE  /\ q \in Parsers({<<>>}) /\ q.phase = p.phase /\ q.metas = p.metas /\ q.wrong = p.wrong
         /\ q.kstyle = p.kstyle /\ q.kregion = p.kregion /\ q.event = p.event
         /\ q.pending = [p.pending EXCEPT !["bitmaps"] = Append(p.pending["bitmaps"], w)]
<1> DEFINE list == Append(p.pending.bitmaps, w)
           pe == [p.pending EXCEPT !.bitmaps = list]
           r == AddBitmap(p, w)
<1>1. p.pending \in PendingOf
  BY ParserHas
<1>2. list \in Seq(InfoSlot \cup LocalSlot)
  BY <1>1 DEF PendingOf
<1>3. r = [p EXCEPT !.pending = pe]
  BY DEF AddBitmap, Parsers
<1> HIDE DEF list
<1>4. pe \in PendingOf
  BY <1>1, <1>2 DEF PendingOf
<1> HIDE DEF pe, r
<1>5. /\ r \in Parsers(V) /\ r.phase = p.phase /\ r.metas = p.metas /\ r.wrong = p.wrong
      /\ r.kstyle = p.kstyle /\ r.kregion = p.kregion /\ r.event = p.event /\ r.pending = pe
  BY <1>3, <1>4 DEF Parsers
<1> QED BY <1>5, DroppedHas DEF pe, list, r, Dropped

MotionAdded(p, w, q) == ~AddMotion(p, w).wrong /\ q = Dropped(AddMotion(p, w))
LEMMA MotionPut ==
  ASSUME NEW V, NEW p \in Parsers(V), NEW w \in InfoSlot \cup OwnSlot(MotionVal), NEW q, MotionAdded(p, w, q)
  PROVE  /\ q \in Parsers({<<>>}) /\ q.phase = p.phase /\ q.metas = p.metas /\ q.wrong = p.wrong
         /\ q.kstyle = p.kstyle /\ q.kregion = p.kregion /\ q.event = p.event
         /\ q.pending = [p.pending EXCEPT !["motions"] = Append(p.pending["motions"], w)]
<1> DEFINE list == Append(p.pending.motions, w)
           pe == [p.pending EXCEPT !.motions = list]
           r == AddMotion(p, w)
<1>1. p.pending \in PendingOf
  BY ParserHas
<1>2. list \in Seq(InfoSlot \cup OwnSlot(MotionVal))
  BY <1>1 DEF PendingOf
<1>3. r = [p EXCEPT !.pending = pe]
  <2>1. r = Ended(p, "exited") \/ r = [p EXCEPT !.pending = pe]
    BY DEF AddMotion, Parsers
  <2>0. ~r.wrong
    BY DEF MotionAdded
  <2> HIDE DEF r
  <2>2. r # Ended(p, "exited")
    BY <2>0, EndedIs
  <2> QED BY <2>1, <2>2
<1> HIDE DEF list
<1>4. pe \in PendingOf
  BY <1>1, <1>2 DEF PendingOf
<1> HIDE DEF pe, r
<1>5. /\ r \in Parsers(V) /\ r.phase = p.phase /\ r.metas = p.metas /\ r.wrong = p.wrong
      /\ r.kstyle = p.kstyle /\ r.kregion = p.kregion /\ r.event = p.event /\ r.pending = pe
  BY <1>3, <1>4 DEF Parsers
<1> QED BY <1>5, DroppedHas DEF pe, list, r, Dropped, MotionAdded

(* What was said of a bitmap or a motion.                                    *)
LEMMA ListTold ==
  ASSUME NEW x, NEW ok, Hearing(x, ok), NEW kind \in {"bitmap", "motion"}, ~parser'.wrong,
         x.do = IF kind = "bitmap" THEN "local" ELSE "motion"
  PROVE  /\ SlotTold(said', ListField(kind), Append(said.over[ListField(kind)], SlotSaid(x, kind)))
         /\ said'.latest = said.latest
<1> DEFINE slot == SlotSaid(x, kind)
<1>1. x.do \in Statements /\ Shaped(said) /\ KindRead(x.do) = kind /\ x.do \in {"local", "motion"}
  BY HeardShape DEF Statements, KindRead
<1>2. said' = SaySlot(x.do, slot)
  <2>1. said' = Say(x)
    BY <1>1, HearingHas
  <2>2. /\ x.do # "mapping" /\ x.do # "meta" /\ x.do # "language" /\ x.do # "directionality"
        /\ x.do # "text" /\ x.do # "karaoke" /\ x.do \in Slots \cup {"local", "motion"}
    BY <1>1
  <2> QED BY <1>1, <2>1, <2>2 DEF Say
<1> DEFINE f == ListField(kind)
           u == Append(said.over[f], slot)
<1>3. f \in {"bitmaps", "motions"} /\ said' = [said EXCEPT !.over[f] = u]
  <2>1. CASE kind = "bitmap"
    <3>1. f = "bitmaps" /\ x.do = "local"
      BY <2>1 DEF ListField
    <3> QED BY <1>2, <3>1 DEF SaySlot
  <2>2. CASE kind = "motion"
    <3>1. f = "motions" /\ x.do = "motion"
      BY <2>2 DEF ListField
    <3> QED BY <1>2, <3>1 DEF SaySlot
  <2> QED BY <2>1, <2>2
<1> HIDE DEF f, u
<1>4. DOMAIN said' = DOMAIN said /\ said'.times = said.times /\ said'.over = [said.over EXCEPT ![f] = u]
      /\ said'.latest = said.latest
  BY <1>1, <1>3 DEF Shaped
<1> QED BY <1>4 DEF SlotTold, f, u, slot

LEMMA LocalAttends == ASSUME NEW x, NEW ok, Hearing(x, ok), AddLocalBitmap(x), ~parser'.wrong PROVE Aheard
<1> DEFINE ref == x.ref
           c == Missing("bitmap", ref)
           q == ErrIf(c, parser)
           i == Found("bitmap", ref)
           z == ItemFrom("bitmap", parser, Bitmap0, x.body)
           slot == [at |-> "local", index |-> -1, own |-> z.v, freed |-> FALSE]
           r == LocalRead(parser, x)
           w2 == SlotSaid(x, "bitmap")
<1>1. /\ parser \in Parsers({<<>>}) /\ Going(parser) /\ ItemsHold(parser, ok) /\ Tables /\ Starts(parser, ok)
      /\ ok \in BOOLEAN /\ Typed(x) /\ Formed(x) /\ names = declared /\ parser.phase = "event"
      /\ x.do = "local" /\ Only(r) /\ "bitmap" \in AllKinds /\ Says("bitmap", ok, x.body)
  BY HearingHas, KindsAre, BodySays DEF Starts, Hearing, AddLocalBitmap
<1>2. (ref # NoRef => ref \in Reference) /\ (ref = NoRef \/ x.braces = FALSE)
  BY <1>1 DEF Typed, Refers, Formed, Derives
<1>3. /\ SlotTold(said', "bitmaps", Append(said.over["bitmaps"], w2)) /\ said'.latest = said.latest
  <2> DEFINE kind == "bitmap"
  <2>1. kind \in {"bitmap", "motion"} /\ x.do = (IF kind = "bitmap" THEN "local" ELSE "motion")
    BY <1>1
  <2> HIDE DEF kind
  <2>2. /\ SlotTold(said', ListField(kind), Append(said.over[ListField(kind)], SlotSaid(x, kind)))
        /\ said'.latest = said.latest
    BY <2>1, ListTold
  <2> QED BY <2>2 DEF kind, ListField
<1>4. ~r.wrong /\ parser' = Dropped(r)
  <2> HIDE DEF r
  <2>1. Leaves1(parser, r, ok)
    BY <1>1, <1>2, LocalReadIs DEF r
  <2>2. \E V : r \in Parsers(V)
    BY <2>1 DEF Leaves1, Steps
  <2> QED BY <1>1, <2>2, DroppedHas DEF Only, Read, Dropped
<1>5. r = CASE ref # NoRef /\ OutOf("bitmap", ref) -> Err(parser)
            [] ref # NoRef /\ ~OutOf("bitmap", ref) -> AddBitmap(q, InInfo(i))
            [] OTHER -> OwnLocal(z)
  BY DEF LocalRead
<1> HIDE DEF r, c, i
<1>6. ASSUME NEW V, NEW p \in Parsers(V), NEW w \in InfoSlot \cup LocalSlot, r = AddBitmap(p, w),
             p.phase = "event", p.kstyle = parser.kstyle, p.kregion = parser.kregion, p.event = parser.event,
             p.pending = parser.pending, Spread(parser, p, 0)
      PROVE  ListAdded("bitmap", w, w2) /\ parser'.metas = p.metas
  <2>1. /\ parser' \in Parsers({<<>>}) /\ parser'.phase = p.phase /\ parser'.metas = p.metas
        /\ parser'.kstyle = p.kstyle /\ parser'.kregion = p.kregion /\ parser'.event = p.event
        /\ parser'.pending = [p.pending EXCEPT !["bitmaps"] = Append(p.pending["bitmaps"], w)]
    <3>1. parser' = Dropped(AddBitmap(p, w))
      BY <1>4, <1>6
    <3>2. p \in Parsers(V) /\ w \in InfoSlot \cup LocalSlot
      BY <1>6
    <3> QED BY <3>1, <3>2, BitmapPut
  <2>2. SlotPut(parser', "bitmaps", Append(parser.pending["bitmaps"], w))
    BY <1>6, <2>1 DEF SlotPut
  <2>3. Spread(parser, parser', 0)
    BY <1>6, <2>1 DEF Spread
  <2> QED BY <1>3, <1>6, <2>1, <2>2, <2>3 DEF ListAdded, ListField
<1>7. CASE ref # NoRef
  <2>1. q \in Parsers({<<>>}) /\ (~q.wrong => ~c /\ q = parser)
    BY <1>1, ErrIfIs, ErrIfWrong
  <2>2. r = AddBitmap(q, InInfo(i))
    BY <1>1, <1>4, <1>5, <1>7, ErrIs
  <2> HIDE DEF q
  <2>3. InInfo(i) \in InfoSlot /\ InInfo(i).at = "info"
    BY <1>1, <1>2, <1>7, FoundIs DEF InInfo, InfoSlot, i
  <2>4. ~q.wrong
    <3>1. parser' = Dropped(AddBitmap(q, InInfo(i))) /\ ~AddBitmap(q, InInfo(i)).wrong
      BY <1>4, <2>2
    <3> QED BY <2>1, <2>3, <3>1, BitmapPut
  <2>5. q = parser /\ i = SaidAt("bitmap", ref)
    BY <1>1, <1>2, <1>7, <2>1, <2>4, FoundSaid DEF c, i
  <2> DEFINE w == InInfo(i)
             kind == "bitmap"
  <2>6. w2 = w
    BY <1>2, <1>7, <2>5 DEF SlotSaid
  <2>7. Spread(parser, parser, 0)
    BY <1>1, ParserHas DEF Spread
  <2> HIDE DEF w2
  <2>8. ListAdded("bitmap", w, w2)
    BY <1>1, <1>6, <2>2, <2>3, <2>5, <2>7
  <2>9. Alone(w, parser') /\ w2 = Encoded(parser', w, kind)
    BY <2>3, <2>6 DEF Alone, Encoded
  <2> HIDE DEF w, kind
  <2>10. kind \in {"bitmap", "motion"} /\ ListAdded(kind, w, w2)
    BY <2>8 DEF kind
  <2> QED BY <2>9, <2>10, ListAttends
<1>8. CASE ref = NoRef
  <2> DEFINE leaves == <<>>
             v0 == Bitmap0
             k == "bitmap"
             t == ItemFrom(k, With(parser, <<leaves>>), Based(v0, leaves), x.body)
  <2>1. v0 = Initial("bitmap") /\ v0.meta = 0 /\ v0 \in Val(k) /\ k \in Marked4 /\ leaves \in Seq(Leaf)
    <3>1. Reads(parser, parser)
      BY <1>1, ReadsItself
    <3>2. [parser EXCEPT !.v = Initial("bitmap")] \in ReadingOf("bitmap", parser, ok)
      BY <1>1, <3>1, InitialIs
    <3>3. Initial("bitmap") = Bitmap0
      BY DEF Initial
    <3>4. [parser EXCEPT !.v = Bitmap0].v = Bitmap0 /\ [parser EXCEPT !.v = Bitmap0] \in Parsers(Val("bitmap"))
      BY <1>1, <3>2, <3>3 DEF ReadingOf, Parsers
    <3> QED BY <3>3, <3>4, ParserHas, FormlessIs DEF Bitmap0, Marked4
  <2>2. z \in ItemOf("bitmap", parser, ok)
    <3>1. [parser EXCEPT !.v = Initial("bitmap")] \in ReadingOf("bitmap", parser, ok)
      BY <1>1, ReadsItself, InitialIs
    <3>2. [parser EXCEPT !.v = Bitmap0] \in ReadingOf("bitmap", parser, ok)
      BY <2>1, <3>1
    <3> QED BY <1>1, <3>2, ItemFromIs
  <2>3. w2 = Own(Sealed(k, t.v, t.metas))
    <3>1. Based(v0, leaves) = v0
      BY <2>1, MetaHas DEF Based
    <3>2. w2 = Own(OwnSaid("bitmap", Initial("bitmap"), <<>>, x.body))
      BY <1>8 DEF SlotSaid
    <3>3. OwnSaid("bitmap", Initial("bitmap"), <<>>, x.body) = Unfolded(k, t)
      BY <2>1, <3>1 DEF OwnSaid, With
    <3> QED BY <3>2, <3>3 DEF Unfolded
  <2>4. Held(v0, parser.metas) = leaves /\ v0.meta <= Len(parser.metas)
    BY <1>1, <2>1, ParserHas DEF Held
  <2>5. z = ItemFrom(k, parser, v0, x.body) /\ Says(k, ok, x.body)
    BY <1>1
  <2> HIDE DEF z, w2, t, v0, leaves, k
  <2>6. /\ z \in Parsers(Val(k)) /\ Grows(parser.metas, v0.meta, z)
        /\ Sealed(k, z.v, z.metas) = Sealed(k, t.v, t.metas)
    BY <1>1, <2>1, <2>4, <2>5, ItemHeard DEF t
  <2>7. z \in Parsers(Val("bitmap")) /\ Moves(parser, z) /\ Aside(parser, z)
        /\ z.kstyle = parser.kstyle /\ z.kregion = parser.kregion
    BY <2>2 DEF ItemOf
  <2>8. r = OwnLocal(z)
    BY <1>5, <1>8
  <2>9. Going(z) /\ r = AddBitmap(z, slot)
    <3>1. ~z.wrong => Going(z)
      BY <1>1, <2>7 DEF Moves, Going
    <3> QED BY <1>4, <2>8, <3>1 DEF OwnLocal
  <2>10. slot \in LocalSlot /\ slot.at = "local" /\ slot.own = z.v
    BY <2>7, ParserHas, ValsAre DEF LocalSlot
  <2> HIDE DEF slot
  <2>11. ~z.wrong
    <3>1. parser' = Dropped(AddBitmap(z, slot))
      BY <1>4, <2>9
    <3> QED BY <2>7, <2>10, <3>1, BitmapPut
  <2>12. z.phase = "event" /\ z.event = parser.event /\ z.pending = parser.pending
    BY <1>1, <2>7, <2>11 DEF Moves, Aside
  <2>13. Spread(parser, z, 0) /\ Bound(z.v, z) /\ Private(z.v)
    <3>1. Len(parser.metas) \in Nat /\ v0.meta = 0 /\ Grows(parser.metas, v0.meta, z)
      BY <1>1, <2>1, <2>6, ParserHas
    <3>2. Spread(parser, z, 0)
      BY <3>1 DEF Grows, Spread
    <3>3. z.v.meta \in 0 .. Len(z.metas) /\ (z.v.meta = 0 \/ z.v.meta > Len(parser.metas))
      BY <3>1 DEF Grows
    <3> QED BY <1>1, <3>1, <3>2, <3>3 DEF Private, ItemsHold, Bound
  <2>14. ListAdded("bitmap", slot, w2) /\ parser'.metas = z.metas
    BY <1>6, <2>7, <2>9, <2>10, <2>12, <2>13
  <2>15. Alone(slot, parser') /\ w2 = Encoded(parser', slot, "bitmap")
    BY <2>3, <2>6, <2>10, <2>13, <2>14 DEF Alone, Encoded, Bound, k
  <2> DEFINE kind == "bitmap"
  <2>16. kind \in {"bitmap", "motion"} /\ ListAdded(kind, slot, w2) /\ w2 = Encoded(parser', slot, kind)
    BY <2>14, <2>15
  <2> HIDE DEF kind
  <2> QED BY <2>15, <2>16, ListAttends
<1> QED BY <1>7, <1>8

LEMMA MotionAttends == ASSUME NEW x, NEW ok, Hearing(x, ok), AddEventMotion(x), ~parser'.wrong PROVE Aheard
<1> DEFINE ref == x.ref
           c == Missing("motion", ref)
           q == ErrIf(c, parser)
           i == Found("motion", ref)
           z == ItemFrom("motion", parser, Motion0, x.body)
           slot == Own(z.v)
           r == MotionRead(parser, x)
           w2 == SlotSaid(x, "motion")
<1>1. /\ parser \in Parsers({<<>>}) /\ Going(parser) /\ ItemsHold(parser, ok) /\ Tables /\ Starts(parser, ok)
      /\ ok \in BOOLEAN /\ Typed(x) /\ Formed(x) /\ names = declared /\ parser.phase = "event"
      /\ x.do = "motion" /\ Only(r) /\ "motion" \in AllKinds /\ Says("motion", ok, x.body)
  BY HearingHas, KindsAre, BodySays DEF Starts, Hearing, AddEventMotion
<1>2. (ref # NoRef => ref \in Reference) /\ (ref = NoRef \/ x.braces = FALSE)
  BY <1>1 DEF Typed, Refers, Formed, Derives
<1>3. /\ SlotTold(said', "motions", Append(said.over["motions"], w2)) /\ said'.latest = said.latest
  <2> DEFINE kind == "motion"
  <2>1. kind \in {"bitmap", "motion"} /\ x.do = (IF kind = "bitmap" THEN "local" ELSE "motion")
    BY <1>1
  <2> HIDE DEF kind
  <2>2. /\ SlotTold(said', ListField(kind), Append(said.over[ListField(kind)], SlotSaid(x, kind)))
        /\ said'.latest = said.latest
    BY <2>1, ListTold
  <2> QED BY <2>2 DEF kind, ListField
<1>4. ~r.wrong /\ parser' = Dropped(r)
  <2> HIDE DEF r
  <2>1. Leaves1(parser, r, ok)
    BY <1>1, <1>2, MotionReadIs DEF r
  <2>2. \E V : r \in Parsers(V)
    BY <2>1 DEF Leaves1, Steps
  <2> QED BY <1>1, <2>2, DroppedHas DEF Only, Read, Dropped
<1>5. r = CASE ref # NoRef /\ OutOf("motion", ref) -> Ended(parser, "exited")
            [] ref # NoRef /\ ~OutOf("motion", ref) -> AddMotion(q, InInfo(i))
            [] OTHER -> OwnMotion(z)
  BY DEF MotionRead
<1> HIDE DEF r, c, i
<1>6. ASSUME NEW V, NEW p \in Parsers(V), NEW w \in InfoSlot \cup OwnSlot(MotionVal), r = AddMotion(p, w),
             p.phase = "event", p.kstyle = parser.kstyle, p.kregion = parser.kregion, p.event = parser.event,
             p.pending = parser.pending, Spread(parser, p, 0)
      PROVE  ListAdded("motion", w, w2) /\ parser'.metas = p.metas
  <2>1. /\ parser' \in Parsers({<<>>}) /\ parser'.phase = p.phase /\ parser'.metas = p.metas
        /\ parser'.kstyle = p.kstyle /\ parser'.kregion = p.kregion /\ parser'.event = p.event
        /\ parser'.pending = [p.pending EXCEPT !["motions"] = Append(p.pending["motions"], w)]
    <3>1. MotionAdded(p, w, parser')
      BY <1>4, <1>6 DEF MotionAdded
    <3>2. p \in Parsers(V) /\ w \in InfoSlot \cup OwnSlot(MotionVal)
      OBVIOUS
    <3> DEFINE q2 == parser'
    <3>3. MotionAdded(p, w, q2)
      BY <3>1
    <3> HIDE DEF q2
    <3> QED BY <3>2, <3>3, MotionPut DEF q2
  <2>2. SlotPut(parser', "motions", Append(parser.pending["motions"], w))
    BY <1>6, <2>1 DEF SlotPut
  <2>3. Spread(parser, parser', 0)
    BY <1>6, <2>1 DEF Spread
  <2> QED BY <1>3, <1>6, <2>1, <2>2, <2>3 DEF ListAdded, ListField
<1>7. CASE ref # NoRef
  <2>1. q \in Parsers({<<>>}) /\ (~q.wrong => ~c /\ q = parser)
    BY <1>1, ErrIfIs, ErrIfWrong
  <2>2. r = AddMotion(q, InInfo(i))
    BY <1>1, <1>4, <1>5, <1>7, EndedIs
  <2> HIDE DEF q
  <2>3. InInfo(i) \in InfoSlot /\ InInfo(i).at = "info"
    BY <1>1, <1>2, <1>7, FoundIs DEF InInfo, InfoSlot, i
  <2>4. ~q.wrong
    <3>1. MotionAdded(q, InInfo(i), parser')
      BY <1>4, <2>2 DEF MotionAdded
    <3> QED BY <2>1, <2>3, <3>1, MotionPut
  <2>5. q = parser /\ i = SaidAt("motion", ref)
    BY <1>1, <1>2, <1>7, <2>1, <2>4, FoundSaid DEF c, i
  <2> DEFINE w == InInfo(i)
             kind == "motion"
  <2>6. w2 = w
    BY <1>2, <1>7, <2>5 DEF SlotSaid
  <2>7. Spread(parser, parser, 0)
    BY <1>1, ParserHas DEF Spread
  <2> HIDE DEF w2
  <2>8. ListAdded("motion", w, w2)
    BY <1>1, <1>6, <2>2, <2>3, <2>5, <2>7
  <2>9. Alone(w, parser') /\ w2 = Encoded(parser', w, kind)
    BY <2>3, <2>6 DEF Alone, Encoded
  <2> HIDE DEF w, kind
  <2>10. kind \in {"bitmap", "motion"} /\ ListAdded(kind, w, w2)
    BY <2>8 DEF kind
  <2> QED BY <2>9, <2>10, ListAttends
<1>8. CASE ref = NoRef
  <2> DEFINE leaves == <<>>
             M == <<leaves>>
             k == "motion"
             t == ItemFrom(k, With(parser, M), Motion0, x.body)
  <2>1. Initial("motion") = Motion0 /\ M \in Seq(Seq(Leaf))
    <3>1. leaves \in Seq(Leaf)
      BY FormlessIs
    <3> HIDE DEF leaves
    <3>2. M \in Seq(Seq(Leaf))
      BY <3>1
    <3> QED BY <3>2 DEF Initial
  <2>2. z \in ItemOf("motion", parser, ok)
    <3>1. [parser EXCEPT !.v = Initial("motion")] \in ReadingOf("motion", parser, ok)
      BY <1>1, ReadsItself, InitialIs
    <3>2. [parser EXCEPT !.v = Motion0] \in ReadingOf("motion", parser, ok)
      BY <2>1, <3>1
    <3> QED BY <1>1, <3>2, ItemFromIs
  <2>3. w2 = Own(Sealed(k, t.v, t.metas))
    <3>1. w2 = Own(OwnSaid("motion", Initial("motion"), <<>>, x.body))
      BY <1>8 DEF SlotSaid
    <3>2. OwnSaid("motion", Initial("motion"), <<>>, x.body) = Unfolded(k, t)
      BY <2>1 DEF OwnSaid, With
    <3> QED BY <3>1, <3>2 DEF Unfolded
  <2>4. z = ItemFrom(k, parser, Motion0, x.body) /\ Says(k, ok, x.body)
    BY <1>1
  <2>5. z.metas = parser.metas /\ z.v.meta = 0 /\ t.v = z.v
    <3> HIDE DEF z, t, M
    <3>1. z = ItemFrom("motion", parser, Motion0, x.body) /\ t = ItemFrom("motion", With(parser, M), Motion0, x.body)
      BY <2>4 DEF t
    <3> QED BY <1>1, <2>1, <3>1, MotionHeard
  <2> HIDE DEF z, w2, t, M, leaves, k
  <2>6. \A metas : Sealed(k, z.v, metas) = Sealed(k, t.v, t.metas)
    BY <2>5 DEF Sealed
  <2>7. z \in Parsers(Val("motion")) /\ Moves(parser, z) /\ Aside(parser, z)
        /\ z.kstyle = parser.kstyle /\ z.kregion = parser.kregion
    BY <2>2 DEF ItemOf
  <2>8. r = OwnMotion(z)
    BY <1>5, <1>8
  <2>9. Going(z) /\ r = AddMotion(z, slot)
    <3>1. ~z.wrong => Going(z)
      BY <1>1, <2>7 DEF Moves, Going
    <3> QED BY <1>4, <2>8, <3>1 DEF OwnMotion
  <2>10. slot \in OwnSlot(MotionVal) /\ slot.at = "own" /\ slot.own = z.v
    BY <2>7, ParserHas, ValsAre DEF OwnSlot, Own
  <2> HIDE DEF slot
  <2>11. ~z.wrong
    <3>1. MotionAdded(z, slot, parser')
      BY <1>4, <2>9 DEF MotionAdded
    <3> QED BY <2>7, <2>10, <3>1, MotionPut
  <2>12. z.phase = "event" /\ z.event = parser.event /\ z.pending = parser.pending
    BY <1>1, <2>7, <2>11 DEF Moves, Aside
  <2>13. Spread(parser, z, 0) /\ Bound(z.v, z) /\ Private(z.v)
    BY <1>1, <2>5, ParserHas DEF Spread, Bound, Private
  <2>14. ListAdded("motion", slot, w2) /\ parser'.metas = z.metas
    BY <1>6, <2>7, <2>9, <2>10, <2>12, <2>13
  <2>15. Alone(slot, parser') /\ w2 = Encoded(parser', slot, "motion")
    BY <2>3, <2>6, <2>10, <2>13, <2>14 DEF Alone, Encoded, Bound, k
  <2> DEFINE kind == "motion"
  <2>16. kind \in {"bitmap", "motion"} /\ ListAdded(kind, slot, w2) /\ w2 = Encoded(parser', slot, kind)
    BY <2>14, <2>15
  <2> HIDE DEF kind
  <2> QED BY <2>15, <2>16, ListAttends
<1> QED BY <1>7, <1>8

-----------------------------------------------------------------------------
(* Karaoke: the steps of its body change nothing that is said of the event   *)
(* but for its styles.                                                       *)

Plain4 == {"t0", "t1", "for", "markup"}
Steady(p, r) ==
  /\ r.metas = p.metas /\ r.phase = p.phase /\ r.kstyle = p.kstyle /\ r.kregion = p.kregion
  /\ r.v.meta = p.v.meta /\ \A f \in Plain4 : r.event[f] = p.event[f]
Sings(p, r) ==
  ~r.wrong => ~p.wrong /\ Steady(p, r) /\ r.pending = p.pending /\ r.event.set["style"] = p.event.set["style"]

LEMMA SingsBoth == ASSUME NEW p, NEW q, NEW r, Sings(p, q), Sings(q, r) PROVE Sings(p, r)
BY DEF Sings, Steady

LEMMA SingsItself == ASSUME NEW p PROVE Sings(p, p)
BY DEF Sings, Steady

LEMMA WrongSings == ASSUME NEW p, NEW r, r.wrong PROVE Sings(p, r)
BY DEF Sings

LEMMA EndedSings ==
  ASSUME NEW V, NEW q \in Parsers(V), NEW p PROVE Sings(p, Ended(q, "exited")) /\ Sings(p, Err(q))
BY ErrIs, EndedIs, WrongSings

LEMMA ValueSings ==
  ASSUME NEW p \in Parsers(KaraokeVal), NEW w, w.meta = p.v.meta PROVE Sings(p, [p EXCEPT !.v = w])
BY DEF Sings, Steady, Parsers

LEMMA ErrIfSings ==
  ASSUME NEW p \in Parsers(KaraokeVal), NEW c PROVE Sings(p, ErrIf(c, p))
<1> DEFINE q == ErrIf(c, p)
<1>1. q.wrong \/ q = p
  BY ErrIfWrong
<1> HIDE DEF q
<1>2. Sings(p, q)
  BY <1>1, WrongSings, SingsItself
<1> QED BY <1>2 DEF q

LEMMA AppendSings ==
  ASSUME NEW p \in Parsers(KaraokeVal), NEW slot, NEW d PROVE Sings(p, AppendCurve(p, slot, d))
<1> DEFINE c == slot.at = "own" /\ CurveWrong(slot.own)
           e == ErrIf(c, p)
           curves == Append(e.v.curves, slot)
           durations == Append(e.v.durations, d)
           w == [e.v EXCEPT !.curves = curves, !.durations = durations]
<1>1. AppendCurve(p, slot, d) = [e EXCEPT !.v.curves = Append(@, slot), !.v.durations = Append(@, d)]
  BY DEF AppendCurve
<1> HIDE DEF c
<1>2. e \in Parsers(KaraokeVal) /\ Sings(p, e)
  BY ErrIfIs, ErrIfSings
<1> HIDE DEF e
<1>3. e.v \in KaraokeVal
  BY <1>2, ParserHas
<1>4. AppendCurve(p, slot, d) = [e EXCEPT !.v = w]
  BY <1>1, <1>2, <1>3 DEF Parsers, KaraokeVal, MotionOf
<1> HIDE DEF curves, durations
<1>5. w.meta = e.v.meta
  BY <1>3 DEF KaraokeVal, MotionOf
<1> HIDE DEF w
<1>6. Sings(e, [e EXCEPT !.v = w])
  BY <1>2, <1>5, ValueSings
<1> QED BY <1>2, <1>4, <1>6, SingsBoth

LEMMA PauseSings ==
  ASSUME NEW p \in Parsers(KaraokeVal), NEW top, NEW d PROVE Sings(p, Pause(p, d, top))
BY AppendSings DEF Pause

LEMMA JumpSings ==
  ASSUME NEW p \in Parsers(KaraokeVal), NEW x1, NEW d, NEW high PROVE Sings(p, Jump(p, x1, d, high))
BY AppendSings DEF Jump

LEMMA TransitionSings ==
  ASSUME NEW U, NEW p0 \in Parsers(U), NEW ok \in BOOLEAN, NEW p \in Steps(KaraokeVal, p0, ok),
         NEW glyph \in Int, NEW s, s.time \in Int, NEW morph
  PROVE  Sings(p, Transition(p, glyph, s, morph))
<1> DEFINE d == Wait(p.v, s)
           x1 == 2 * glyph + 1
           low == Height(p, FALSE)
           high == Height(p, TRUE)
           q == Pause(p, d, FALSE)
<1>1. p \in Parsers(KaraokeVal) /\ p.v \in KaraokeVal
  BY ParserHas DEF Steps
<1>2. d \in Int
  <2>1. SumSeq(p.v.durations) \in Int
    BY <1>1, KaraokeValHas, SumIs
  <2> QED BY <2>1 DEF Wait
<1>3. Transition(p, glyph, s, morph) \in {Ended(p, "exited"), Jump(q, x1, 0, low), Jump(p, x1, d, high)}
  BY <1>2 DEF Transition
<1> HIDE DEF d, x1, low, high
<1>4. q \in Parsers(KaraokeVal) /\ Sings(p, q)
  BY <1>1, <1>2, PauseIs, PauseSings DEF Steps
<1> HIDE DEF q
<1>5. Sings(p, Jump(q, x1, 0, low)) /\ Sings(p, Jump(p, x1, d, high)) /\ Sings(p, Ended(p, "exited"))
  BY <1>1, <1>4, JumpSings, SingsBoth, EndedSings
<1> QED BY <1>3, <1>5

(* Words that are not refused.                                               *)
LEMMA WordsOnly ==
  ASSUME NEW p \in Parsers(KaraokeVal), NEW s, NEW morph
  PROVE  LET text == Expanded(Backslashed(p.event.text \o s.text))
         IN \/ Words(p, s, morph).wrong
            \/ Words(p, s, morph) = Transition([p EXCEPT !.event.text = text, !.event.hasText = TRUE],
                                               GlyphCount(text) - 1, s, morph)
<1> DEFINE raw == p.event.text \o s.text
           back == Backslashed(raw)
           e == Err(p)
           w == [e EXCEPT !.event.text = back, !.event.hasText = TRUE]
<1>1. e.wrong /\ e \in Parsers(KaraokeVal)
  BY ErrIs
<1>2. w.wrong
  <2> HIDE DEF e, back
  <2> QED BY <1>1 DEF Parsers
<1>3. Broken(raw) => Words(p, s, morph) = w
  BY DEF Words
<1>4. ~Broken(raw) => LET text == Expanded(back)
                      IN Words(p, s, morph) = Transition([p EXCEPT !.event.text = text, !.event.hasText = TRUE],
                                                         GlyphCount(text) - 1, s, morph)
  BY DEF Words
<1> HIDE DEF w
<1> QED BY <1>2, <1>3, <1>4

LEMMA WordsSing ==
  ASSUME NEW U, NEW p0 \in Parsers(U), NEW ok \in BOOLEAN, NEW p \in Steps(KaraokeVal, p0, ok),
         NEW s, s.text \in Seq(STRING), s.time \in Int, NEW morph
  PROVE  Sings(p, Words(p, s, morph))
<1> DEFINE all == p.event.text \o s.text
           back == Backslashed(all)
           text == Expanded(back)
           w == [p.event EXCEPT !.text = text, !.hasText = TRUE]
           q == [p EXCEPT !.event = w]
           glyph == GlyphCount(text) - 1
<1>1. p \in Parsers(KaraokeVal) /\ p.event \in EventOf
  BY ParserHas DEF Steps
<1>2. all \in Seq(Word)
  <2>1. s.text \in Seq(Word) /\ p.event.text \in Seq(Word)
    BY <1>1, SpeltIs DEF EventOf
  <2> QED BY <2>1
<1>3. \/ Words(p, s, morph).wrong
      \/ Words(p, s, morph) = Transition([p EXCEPT !.event.text = text, !.event.hasText = TRUE], glyph, s, morph)
  BY <1>1, WordsOnly
<1> HIDE DEF all
<1>4. back \in Seq(Word)
  BY <1>2, BackslashedIs
<1> HIDE DEF back
<1>5. text \in Seq(Word)
  BY <1>4, ExpandedIs
<1> HIDE DEF text
<1>6. glyph \in Int
  BY <1>5, GlyphCountIs
<1> HIDE DEF glyph
<1>7. [p EXCEPT !.event.text = text, !.event.hasText = TRUE] = q
  BY <1>1 DEF Parsers, EventOf
<1>8. w \in EventOf /\ w.set = p.event.set /\ \A f \in Plain4 : w[f] = p.event[f]
  BY <1>1, <1>5 DEF EventOf, Plain4
<1> HIDE DEF w
<1>9. q \in Steps(KaraokeVal, p0, ok)
  BY <1>8, EventSteps
<1>10. Sings(p, q)
  BY <1>1, <1>8 DEF Sings, Steady, Parsers
<1> HIDE DEF q
<1>11. Sings(q, Transition(q, glyph, s, morph))
  BY <1>6, <1>9, TransitionSings
<1> QED BY <1>3, <1>7, <1>10, <1>11, SingsBoth, WrongSings

(* The styles of a morph are said once, by an event that has set neither.    *)
Morphed(p, r, s) ==
  /\ Steady(p, r) /\ p.event.set["style"] = FALSE /\ r.event.set["style"] = TRUE
  /\ r.pending = [p.pending EXCEPT !["style"] = InInfo(SaidAt("style", s.ref)),
                                   !["secondary"] = InInfo(SaidAt("style", s.ref2))]

SlottedSo(p, q, slot, w) ==
  /\ q.phase = p.phase /\ q.metas = p.metas /\ q.v = p.v
  /\ q.kstyle = p.kstyle /\ q.kregion = p.kregion /\ q.wrong = p.wrong
  /\ q.event.text = p.event.text /\ \A f \in Plain4 : q.event[f] = p.event[f]
  /\ \A s \in Slots : q.event.set[s] = IF s = slot THEN TRUE ELSE p.event.set[s]
  /\ q.pending = [p.pending EXCEPT ![slot] = w]
LEMMA SlottedIs ==
  ASSUME NEW V, NEW p \in Parsers(V), NEW slot \in Slots, NEW w \in SlotTypes(slot)
  PROVE  SlottedSo(p, Slotted(p, slot, w), slot, w)
<1> DEFINE ev == [p.event EXCEPT !.set[slot] = TRUE]
           pe == [p.pending EXCEPT ![slot] = w]
           u == Marked(p, slot)
           r == Slotted(p, slot, w)
<1>1. p.event \in EventOf /\ p.pending \in PendingOf
  BY ParserHas
<1>2. /\ ev \in EventOf /\ ev.text = p.event.text /\ \A f \in Plain4 : ev[f] = p.event[f]
      /\ \A s \in Slots : ev.set[s] = IF s = slot THEN TRUE ELSE p.event.set[s]
  BY <1>1 DEF EventOf, Plain4
<1>3. pe \in PendingOf
  BY <1>1, SlotTypesAre
<1>4. u = [p EXCEPT !.event = ev]
  BY DEF Marked, Parsers
<1> HIDE DEF ev
<1>5. /\ u \in Parsers(V) /\ u.event = ev /\ u.pending = p.pending /\ u.phase = p.phase /\ u.metas = p.metas
      /\ u.kstyle = p.kstyle /\ u.kregion = p.kregion /\ u.wrong = p.wrong /\ u.v = p.v
  <2> HIDE DEF u
  <2> QED BY <1>2, <1>4 DEF Parsers
<1> HIDE DEF u
<1>6. r = [u EXCEPT !.pending = pe]
  BY <1>5 DEF Slotted, u, Parsers
<1> HIDE DEF pe, r
<1>7. /\ r \in Parsers(V) /\ r.event = ev /\ r.pending = pe /\ r.phase = p.phase /\ r.metas = p.metas
      /\ r.kstyle = p.kstyle /\ r.kregion = p.kregion /\ r.wrong = p.wrong /\ r.v = p.v
  BY <1>3, <1>5, <1>6 DEF Parsers
<1>8. r.pending = [p.pending EXCEPT ![slot] = w]
  BY <1>7 DEF pe
<1> QED BY <1>2, <1>7, <1>8 DEF r, SlottedSo

LEMMA MorphSung ==
  ASSUME NEW p0, NEW ok \in BOOLEAN, Starts(p0, ok), names = declared, NEW p \in Steps(KaraokeVal, p0, ok),
         NEW s, s.ref \in Reference, s.ref2 \in Reference, ~MorphStyles(p, s).wrong
  PROVE  ~p.wrong /\ Morphed(p, MorphStyles(p, s), s)
<1> DEFINE c == \E r \in {s.ref, s.ref2} : Missing("style", r)
           q == ErrIf(c, p)
           i == Found("style", s.ref)
           j == Found("style", s.ref2)
           w == InInfo(i)
           w2 == InInfo(j)
           r == SetIndex(q, "style", KindOf("style"), i)
           t == SetIndex(r, "secondary", KindOf("secondary"), j)
           KS == Steps(KaraokeVal, p0, ok)
<1>1. p0 \in Parsers({<<>>}) /\ Tables /\ p \in Parsers(KaraokeVal)
  BY DEF Starts, ItemsHold, Steps
<1>2. /\ i \in Int /\ (~Missing("style", s.ref) => InTable("style", i))
      /\ j \in Int /\ (~Missing("style", s.ref2) => InTable("style", j))
      /\ ~Missing("style", s.ref) => i = SaidAt("style", s.ref)
      /\ ~Missing("style", s.ref2) => j = SaidAt("style", s.ref2)
  BY <1>1, FoundIs, FoundSaid, KindsAre
<1>3. MorphStyles(p, s) = IF p.event.set["style"] THEN Err(q) ELSE t
  BY DEF MorphStyles, KindOf
<1>4. c \/ (~Missing("style", s.ref) /\ ~Missing("style", s.ref2))
  OBVIOUS
<1> HIDE DEF c, i, j
<1>5. q \in Parsers(KaraokeVal) /\ (~q.wrong => ~c /\ q = p)
  BY <1>1, ErrIfIs, ErrIfWrong
<1>6. q \in KS
  BY <1>1, ErrSteps
<1> HIDE DEF q
<1>7. q \in Steps(KaraokeVal, q, ok)
  <2>1. Reads(q, q)
    BY <1>5, ReadsItself
  <2> QED BY <1>6, <2>1 DEF Steps, Reads
<1>8. "style" \in Slots /\ "secondary" \in Slots /\ KindOf("style") = "style" /\ KindOf("secondary") = "style"
  BY DEF Slots, KindOf
<1>9. ~q.wrong => InTable("style", i) /\ InTable("style", j)
  BY <1>2, <1>4, <1>5
<1>10. r \in Steps(KaraokeVal, q, ok)
  BY <1>2, <1>5, <1>7, <1>8, <1>9, SetIndexIs
<1>11. t = MorphStyles(p, s) /\ ~t.wrong
  BY <1>3, <1>5, ErrIs
<1>12. r \in Parsers(KaraokeVal)
  BY <1>10 DEF Steps
<1> HIDE DEF r
<1>13. t = Slotted(r, "secondary", w2) /\ ~r.wrong
  BY <1>8, <1>11, <1>12, SetIndexHas
<1>14. r = Slotted(q, "style", w) /\ ~q.wrong /\ q.event.set["style"] = FALSE
  <2> DEFINE slot == "style"
             kind == KindOf("style")
  <2>1. r = SetIndex(q, slot, kind, i) /\ slot \in Slots
    BY <1>8 DEF r
  <2> HIDE DEF slot, kind
  <2>2. q \in Parsers(KaraokeVal) /\ slot \in Slots /\ ~SetIndex(q, slot, kind, i).wrong
    BY <1>5, <1>13, <2>1
  <2>3. SetIndex(q, slot, kind, i) = Slotted(q, slot, InInfo(i)) /\ ~q.wrong /\ q.event.set[slot] = FALSE
    BY <2>2, SetIndexHas
  <2> QED BY <2>1, <2>3 DEF slot
<1>15. q = p /\ i = SaidAt("style", s.ref) /\ j = SaidAt("style", s.ref2)
  BY <1>2, <1>4, <1>5, <1>14
<1>16. w \in SlotTypes("style") /\ w2 \in SlotTypes("secondary")
  BY <1>2 DEF SlotTypes, InInfo, InfoSlot
<1> HIDE DEF w, w2, t
<1>17. /\ r.phase = p.phase /\ r.metas = p.metas /\ r.v = p.v /\ r.kstyle = p.kstyle /\ r.kregion = p.kregion
       /\ \A f \in Plain4 : r.event[f] = p.event[f]
       /\ r.event.set["style"] = TRUE
       /\ r.pending = [p.pending EXCEPT !["style"] = w]
  <2> DEFINE slot == "style"
  <2>1. r = Slotted(p, slot, w) /\ slot \in Slots /\ w \in SlotTypes(slot)
    BY <1>8, <1>14, <1>15, <1>16
  <2> HIDE DEF slot
  <2>2. SlottedSo(p, Slotted(p, slot, w), slot, w)
    BY <1>1, <2>1, SlottedIs
  <2>3. SlottedSo(p, r, slot, w)
    BY <2>1, <2>2
  <2> QED BY <2>1, <2>3 DEF slot, SlottedSo
<1>18. /\ t.phase = r.phase /\ t.metas = r.metas /\ t.v = r.v /\ t.kstyle = r.kstyle /\ t.kregion = r.kregion
       /\ \A f \in Plain4 : t.event[f] = r.event[f]
       /\ t.event.set["style"] = r.event.set["style"]
       /\ t.pending = [r.pending EXCEPT !["secondary"] = w2]
  <2> DEFINE slot == "secondary"
  <2>1. t = Slotted(r, slot, w2) /\ slot \in Slots /\ w2 \in SlotTypes(slot)
    BY <1>8, <1>13, <1>16
  <2>2. "style" \in Slots /\ "style" # slot
    BY <1>8
  <2> HIDE DEF slot
  <2>3. SlottedSo(r, Slotted(r, slot, w2), slot, w2)
    BY <1>12, <2>1, SlottedIs
  <2>4. SlottedSo(r, t, slot, w2)
    BY <2>1, <2>3
  <2> QED BY <2>2, <2>4 DEF slot, SlottedSo
<1>19. t.pending = [p.pending EXCEPT !["style"] = w, !["secondary"] = w2]
  BY <1>17, <1>18
<1>20. Steady(p, t)
  BY <1>17, <1>18 DEF Steady
<1>21. Morphed(p, t, s)
  BY <1>14, <1>15, <1>17, <1>18, <1>19, <1>20 DEF Morphed, w, w2
<1> QED BY <1>11, <1>14, <1>15, <1>21

LEMMA KaraokeSings ==
  ASSUME NEW p0, NEW ok \in BOOLEAN, Starts(p0, ok), names = declared, NEW p \in Steps(KaraokeVal, p0, ok),
         NEW s \in MarkerForm \cup MorphForm, NEW morph
  PROVE  LET r == KaraokeSet(p, s, morph)
         IN IF s.set = "styles" THEN ~r.wrong => ~p.wrong /\ Morphed(p, r, s) ELSE Sings(p, r)
<1>1. p0 \in Parsers({<<>>}) /\ p \in Parsers(KaraokeVal) /\ p.v \in KaraokeVal
  BY ParserHas DEF Starts, Steps
<1>2. CASE s.set = "pointer"
  <2> DEFINE w == [p.v EXCEPT !.semantics = s.name]
  <2>1. w.meta = p.v.meta
    BY <1>1 DEF KaraokeVal, MotionOf
  <2>2. KaraokeSet(p, s, morph) = [p EXCEPT !.v = w]
    BY <1>1, <1>2 DEF KaraokeSet, Parsers
  <2> HIDE DEF w
  <2> QED BY <1>1, <1>2, <2>1, <2>2, ValueSings
<1>3. CASE s.set = "heights"
  <2> DEFINE w == s.list
  <2>1. KaraokeSet(p, s, morph) = [p EXCEPT !.heights = w]
    BY <1>3 DEF KaraokeSet
  <2> HIDE DEF w
  <2>2. Sings(p, [p EXCEPT !.heights = w])
    BY <1>1 DEF Sings, Steady, Parsers
  <2> QED BY <1>3, <2>1, <2>2
<1>4. CASE s.set = "pause"
  <2>1. KaraokeSet(p, s, morph) = Pause(p, s.time, FALSE)
    BY <1>4 DEF KaraokeSet
  <2> QED BY <1>1, <1>4, <2>1, PauseSings
<1>5. CASE s.set = "styles"
  <2>1. KaraokeSet(p, s, morph) = MorphStyles(p, s)
    BY <1>5 DEF KaraokeSet
  <2> QED BY <1>5, <2>1, KaraokeFormsAre, MorphSung
<1>6. CASE s.set = "glyph"
  <2>1. KaraokeSet(p, s, morph) = Transition(p, s.glyph, s, morph)
    BY <1>6 DEF KaraokeSet
  <2> QED BY <1>1, <1>6, <2>1, KaraokeFormsAre, TransitionSings
<1>7. CASE s.set = "words"
  <2>1. KaraokeSet(p, s, morph) = Words(p, s, morph)
    BY <1>7 DEF KaraokeSet
  <2> QED BY <1>1, <1>7, <2>1, KaraokeFormsAre, WordsSing
<1> QED BY <1>2, <1>3, <1>4, <1>5, <1>6, <1>7, KaraokeFormsAre

LEMMA FinalizedSings ==
  ASSUME NEW U, NEW p0 \in Parsers(U), NEW ok \in BOOLEAN, NEW p \in Steps(KaraokeVal, p0, ok)
  PROVE  Sings(p, Finalized(p))
<1> DEFINE rest == End(p.event) - Start(p.event) - SumSeq(p.v.durations)
<1>1. p \in Parsers(KaraokeVal) /\ p.v \in KaraokeVal /\ p.event \in EventOf
  BY ParserHas DEF Steps
<1>2. rest \in Int
  <2>1. SumSeq(p.v.durations) \in Int
    BY <1>1, KaraokeValHas, SumIs
  <2>2. Start(p.event) \in Int /\ End(p.event) \in Int
    BY <1>1, TimesAre
  <2> HIDE DEF Start, End
  <2> QED BY <2>1, <2>2
<1>3. Finalized(p) \in {Err(p), Ended(p, "exited"), Pause(p, rest, TRUE)}
  BY <1>2 DEF Finalized
<1> HIDE DEF rest
<1> QED BY <1>1, <1>3, PauseSings, EndedSings

(* The one setting of styles among the first k of a body, if there is one.   *)
Sole(body, k, i) == \A j \in 1 .. k : body[j].set = "styles" <=> j = i
MorphPending(pending, s) ==
  [pending EXCEPT !["style"] = InInfo(SaidAt("style", s.ref)), !["secondary"] = InInfo(SaidAt("style", s.ref2))]
SungTo(p, body, k, r) ==
  ~r.wrong =>
    /\ ~p.wrong /\ Steady(p, r)
    /\ \/ /\ \A i \in 1 .. k : body[i].set # "styles"
          /\ r.pending = p.pending
       \/ /\ r.event.set["style"] = TRUE
          /\ \E i \in 1 .. k : Sole(body, k, i) /\ r.pending = MorphPending(p.pending, body[i])

LEMMA SungStep ==
  ASSUME NEW p0, NEW ok \in BOOLEAN, Starts(p0, ok), names = declared, NEW q \in Steps(KaraokeVal, p0, ok),
         NEW body \in Seq(MarkerForm \cup MorphForm), NEW k \in 1 .. Len(body), NEW morph, NEW p,
         SungTo(p, body, k - 1, q), NEW r, r = KaraokeStep(q, body[k], morph)
  PROVE  SungTo(p, body, k, r)
<1> SUFFICES ASSUME ~r.wrong PROVE SungTo(p, body, k, r)
  BY DEF SungTo
<1> DEFINE s == body[k]
<1>0. s \in MarkerForm \cup MorphForm /\ q \in Parsers(KaraokeVal) /\ q.event.set["style"] \in BOOLEAN
  <2>1. q.event \in EventOf /\ q \in Parsers(KaraokeVal)
    BY ParserHas DEF Steps
  <2> QED BY <2>1 DEF EventOf, Slots
<1>1. r = KaraokeSet(q, s, morph)
  <2>1. Going(q) \/ q.wrong
    BY DEF Starts, Steps, Moves, Going
  <2> QED BY <2>1 DEF KaraokeStep
<1> DEFINE r2 == KaraokeSet(q, s, morph)
<1>2. IF s.set = "styles" THEN ~r2.wrong => ~q.wrong /\ Morphed(q, r2, s) ELSE Sings(q, r2)
  BY <1>0, KaraokeSings
<1> HIDE DEF r2
<1>3. r = r2
  BY <1>1 DEF r2
<1> HIDE DEF s
<1>4. CASE s.set = "styles"
  <2>1. ~q.wrong /\ Morphed(q, r, s)
    BY <1>2, <1>3, <1>4
  <2>2. (\A i \in 1 .. k - 1 : body[i].set # "styles") /\ q.pending = p.pending /\ ~p.wrong /\ Steady(p, q)
    BY <2>1 DEF SungTo, Morphed
  <2>3. Steady(p, r) /\ r.event.set["style"] = TRUE /\ r.pending = MorphPending(p.pending, s)
    BY <2>1, <2>2 DEF Steady, Morphed, MorphPending
  <2>4. Sole(body, k, k)
    <3>1. \A j \in 1 .. k : j = k \/ j \in 1 .. k - 1
      OBVIOUS
    <3> QED BY <1>4, <2>2, <3>1 DEF Sole, s
  <2>5. k \in 1 .. k
    OBVIOUS
  <2> QED BY <2>2, <2>3, <2>4, <2>5 DEF SungTo, s
<1>5. CASE s.set # "styles"
  <2>1. Sings(q, r)
    BY <1>2, <1>3, <1>5
  <2>2. /\ ~q.wrong /\ Steady(q, r) /\ r.pending = q.pending
        /\ r.event.set["style"] = q.event.set["style"]
    BY <2>1 DEF Sings
  <2>3. ~p.wrong /\ Steady(p, r)
    BY <2>2 DEF SungTo, Steady
  <2>4. \A j \in 1 .. k : j = k \/ j \in 1 .. k - 1
    OBVIOUS
  <2>5. CASE (\A i \in 1 .. k - 1 : body[i].set # "styles") /\ q.pending = p.pending
    <3>1. \A i \in 1 .. k : body[i].set # "styles"
      BY <1>5, <2>4, <2>5 DEF s
    <3> QED BY <2>2, <2>3, <2>5, <3>1 DEF SungTo
  <2>6. ASSUME q.event.set["style"] = TRUE, NEW i \in 1 .. k - 1, Sole(body, k - 1, i),
               q.pending = MorphPending(p.pending, body[i])
        PROVE  SungTo(p, body, k, r)
    <3>1. i \in 1 .. k /\ i # k
      OBVIOUS
    <3>2. Sole(body, k, i)
      BY <1>5, <2>4, <2>6, <3>1 DEF Sole, s
    <3> QED BY <2>2, <2>3, <2>6, <3>1, <3>2 DEF SungTo
  <2> QED BY <2>2, <2>5, <2>6 DEF SungTo
<1> QED BY <1>4, <1>5

LEMMA BodySung ==
  ASSUME NEW p0, NEW ok \in BOOLEAN, Starts(p0, ok), names = declared, NEW p \in Steps(KaraokeVal, p0, ok),
         NEW body \in Seq(MarkerForm \cup MorphForm), NEW morph
  PROVE  KaraokeBody(p, body, morph) \in Steps(KaraokeVal, p0, ok)
         /\ SungTo(p, body, Len(body), KaraokeBody(p, body, morph))
<1> DEFINE S == Steps(KaraokeVal, p0, ok)
           n == Len(body)
<1>1. ASSUME NEW r \in S, NEW k \in 1 .. Len(body) PROVE KaraokeStep(r, body[k], morph) \in S
  <2>1. body[k] \in MarkerForm \cup MorphForm
    OBVIOUS
  <2>2. KaraokeSet(r, body[k], morph) \in S
    BY <2>1, KaraokeSetIs
  <2> QED BY <2>2 DEF KaraokeStep
<1> HIDE DEF S
<1>2. p \in S
  BY DEF S
<1>3. KaraokeBodyStays(S, MarkerForm \cup MorphForm, p, morph, body)
  BY <1>1, <1>2 DEF KaraokeBodyStays
<1>4. PICK at \in [0 .. n -> S] :
        /\ at[0] = p /\ KaraokeBody(p, body, morph) = at[n]
        /\ \A k \in 1 .. n : at[k] = KaraokeStep(at[k - 1], body[k], morph)
  BY <1>3, KaraokeBodyGoes
<1> DEFINE So == {k \in 0 .. n : SungTo(p, body, k, at[k])}
<1>5. n \in Nat /\ 0 \in 0 .. n /\ n \in 0 .. n
  OBVIOUS
<1>6. 0 \in So
  <2>1. SungTo(p, body, 0, p)
    BY DEF SungTo, Steady
  <2> QED BY <1>4, <1>5, <2>1
<1>7. ASSUME NEW k \in 1 .. n, k - 1 \in So PROVE k \in So
  <2>1. k - 1 \in 0 .. n /\ k \in 0 .. n
    BY <1>5
  <2>2. at[k - 1] \in Steps(KaraokeVal, p0, ok)
    BY <2>1 DEF S
  <2>3. SungTo(p, body, k - 1, at[k - 1]) /\ at[k] = KaraokeStep(at[k - 1], body[k], morph)
    BY <1>4, <1>7
  <2> DEFINE q == at[k - 1]
             r == at[k]
  <2> HIDE DEF q, r
  <2>4. q \in Steps(KaraokeVal, p0, ok) /\ SungTo(p, body, k - 1, q) /\ r = KaraokeStep(q, body[k], morph)
    BY <2>2, <2>3 DEF q, r
  <2>5. SungTo(p, body, k, r)
    BY <2>4, SungStep
  <2> QED BY <2>1, <2>5 DEF r
<1> HIDE DEF So
<1>8. \A k \in 0 .. n : k \in So
  BY <1>5, <1>6, <1>7, UpTo
<1>9. n \in So /\ at[n] \in S
  BY <1>5, <1>8
<1> QED BY <1>4, <1>9 DEF So, S

(* What a karaoke statement adds to an event is heard.                       *)
Morphing == {"style", "secondary"}
KaraokeTold(w, w2) ==
  /\ parser' \in Parsers({<<>>}) /\ parser'.phase = "event" /\ parser'.metas = parser.metas
  /\ parser'.kstyle = parser.kstyle /\ parser'.kregion = parser.kregion
  /\ \A f \in Plain4 : parser'.event[f] = parser.event[f]
  /\ DOMAIN said' = DOMAIN said /\ said'.times = said.times /\ said'.latest = said.latest
  /\ DOMAIN said'.over = DOMAIN said.over
  /\ \A f \in OverFields \ (Morphing \cup {"motions"}) :
       parser'.pending[f] = parser.pending[f] /\ said'.over[f] = said.over[f]
  /\ parser'.pending.motions = Append(parser.pending.motions, w)
  /\ said'.over.motions = Append(said.over.motions, w2)
  /\ \/ \A f \in Morphing : parser'.pending[f] = parser.pending[f] /\ said'.over[f] = said.over[f]
     \/ \A f \in Morphing : parser'.pending[f].at = "info" /\ said'.over[f] = parser'.pending[f]

LEMMA KaraokeHeard ==
  ASSUME NEW x, NEW ok, Hearing(x, ok), NEW w, NEW w2, KaraokeTold(w, w2), Alone(w, parser'),
         w2 = Encoded(parser', w, "motion")
  PROVE  Aheard
<1> DEFINE F == Kindred \ (Morphing \cup {"motions"})
           F2 == Kindred \ {"motions"}
           kind == "motion"
           m == 0
<1>1. /\ parser \in Parsers({<<>>}) /\ ItemsHold(parser, ok) /\ shared \in BOOLEAN /\ Attentive(parser, said, shared)
      /\ shared' \in BOOLEAN /\ (shared => shared') /\ Len(parser.metas) \in Nat /\ parser.pending \in PendingOf
      /\ Shaped(said) /\ PlainHeard(said, parser)
      /\ parser' \in Parsers({<<>>}) /\ parser'.phase = "event" /\ parser'.metas = parser.metas
      /\ parser'.kstyle = parser.kstyle /\ parser'.kregion = parser.kregion /\ said'.latest = said.latest
  BY HeardShape, HearingHas, ParserHas DEF Hearing, KaraokeTold
<1>2. Beheld(parser, parser', m, shared, shared')
  BY <1>1 DEF Beheld, Spread, Foreign
<1>3. AllHeard(said'.over.motions, parser'.pending.motions, parser', kind)
  <2> DEFINE pending == parser.pending.motions
             list == said.over.motions
  <2>1. AllHeard(list, pending, parser, kind)
    BY <1>1, AttentiveIs
  <2>2. \E S : pending \in Seq(S)
    BY <1>1 DEF PendingOf
  <2>3. \A i \in DOMAIN pending : pending[i].at # "static"
    BY <1>1, PendingHas
  <2>4. parser'.pending.motions = Append(pending, w) /\ said'.over.motions = Append(list, w2)
    BY DEF KaraokeTold
  <2> HIDE DEF pending, list, m
  <2>5. w2 = Encoded(parser', w, kind)
    OBVIOUS
  <2> HIDE DEF kind
  <2>6. AllHeard(Append(list, w2), Append(pending, w), parser', kind)
    <3>1. PICK S : pending \in Seq(S)
      BY <2>2
    <3>2. Spread(parser, parser', m) /\ Foreign(m)
      BY <1>2 DEF Beheld
    <3> QED BY <1>1, <2>1, <2>3, <2>5, <3>1, <3>2, ListAppended
  <2> QED BY <2>4, <2>6
<1>4. Shaped(said') /\ PlainHeard(said', parser')
  <2>1. /\ {"mapping", "language", "direction", "meta", "markup"} \subseteq OverFields \ (Morphing \cup {"motions"})
        /\ {"t0", "t1", "for", "markup"} \subseteq Plain4
    BY DEF OverFields, Morphing, Plain4
  <2> QED BY <1>1, <2>1 DEF Shaped, PlainHeard, KaraokeTold
<1>5. /\ {"palette", "bitmap", "region", "bitmaps"} \subseteq F
      /\ {"palette", "bitmap", "region", "bitmaps", "style", "secondary"} \subseteq F2
      /\ F \subseteq OverFields \ (Morphing \cup {"motions"}) /\ \A f \in F2 : f \in F \/ f \in Morphing
      /\ "style" \in Morphing /\ "secondary" \in Morphing
  BY DEF Kindred, Morphing, OverFields
<1> HIDE DEF F, F2, m
<1>6. Left(parser, parser', said, said', F)
  BY <1>5 DEF Left, KaraokeTold
<1>7. /\ HeaderHeld(parser', shared') /\ Bound(parser'.kstyle, parser') /\ Bound(parser'.kregion, parser')
      /\ OwnHeard(said', parser', "palette") /\ OwnHeard(said', parser', "bitmap")
      /\ AllHeard(said'.over.bitmaps, parser'.pending.bitmaps, parser', "bitmap")
      /\ RegionHeard(said', parser', shared')
  BY <1>1, <1>2, <1>5, <1>6, RestAttends
<1>8. BothHeard(said', parser', shared')
  <2>1. CASE \A f \in Morphing : parser'.pending[f] = parser.pending[f] /\ said'.over[f] = said.over[f]
    <3>1. Left(parser, parser', said, said', F2)
      BY <1>5, <1>6, <2>1 DEF Left
    <3> QED BY <1>1, <1>2, <1>5, <3>1, RestAttends
  <2>2. CASE \A f \in Morphing : parser'.pending[f].at = "info" /\ said'.over[f] = parser'.pending[f]
    BY <1>5, <2>2 DEF BothHeard, StyleHeard
  <2> QED BY <2>1, <2>2 DEF KaraokeTold
<1>9. Attentive(parser', said', shared')
  BY <1>3, <1>4, <1>7, <1>8, AttentiveIs DEF kind
<1> QED BY <1>1, <1>9 DEF Aheard

LEMMA MinOfOne == ASSUME NEW i \in Int PROVE Min({i}) = i
BY DEF Min

LEMMA AsLong ==
  ASSUME NEW p, NEW list, NEW S, NEW pending \in Seq(S), NEW kind, AllHeard(list, pending, p, kind)
  PROVE  Len(list) = Len(pending)
<1> DEFINE n == Len(pending)
           R == Range(list)
<1>1. n \in Nat /\ list = [i \in 1 .. n |-> list[i]]
  BY DEF AllHeard, ListHeard
<1>2. \A i \in 1 .. n : list[i] \in R
  BY <1>1 DEF Range
<1> HIDE DEF n, R
<1>3. list \in Seq(R) /\ Len(list) = n
  BY <1>1, <1>2
<1> QED BY <1>3 DEF n

(* Styles of a morph leave the motions.                                      *)
LEMMA MorphMotions ==
  ASSUME NEW pending, DOMAIN pending = OverFields, NEW s
  PROVE  MorphPending(pending, s).motions = pending.motions
<1> DEFINE a == InInfo(SaidAt("style", s.ref))
           b == InInfo(SaidAt("style", s.ref2))
<1>1. MorphPending(pending, s) = [pending EXCEPT !["style"] = a, !["secondary"] = b]
  BY DEF MorphPending
<1>2. "motions" \in OverFields
  BY DEF OverFields
<1> HIDE DEF a, b
<1> QED BY <1>1, <1>2

LEMMA KaraokeAttends == ASSUME NEW x, NEW ok, Hearing(x, ok), Karaoke(x), ~parser'.wrong PROVE Aheard
<1> DEFINE S == Steps(KaraokeVal, parser, ok)
           body == x.body
           n == Len(body)
           drawn == [Motion0 EXCEPT !.semantics = "glyph_pointer_1"]
           flat == <<0, 0>>
           z == [parser EXCEPT !.heights = flat]
           start == [z EXCEPT !.v = drawn]
           q == KaraokeBody(start, body, x.morph)
           f == IF Going(q) THEN Finalized(q) ELSE q
           r == KaraokeRead(parser, x)
           w == Own(f.v)
           w2 == Own(Sealed("motion", f.v, parser'.metas))
<1>1. /\ parser \in Parsers({<<>>}) /\ Going(parser) /\ Tables /\ Starts(parser, ok)
      /\ ok \in BOOLEAN /\ Typed(x) /\ names = declared /\ parser.phase = "event"
      /\ x.do = "karaoke" /\ Only(r) /\ parser \in Steps({<<>>}, parser, ok) /\ Attentive(parser, said, shared)
      /\ parser.pending \in PendingOf
  BY HearingHas, StartsItself, ParserHas DEF Starts, Hearing, Karaoke
<1>2. body \in Seq(MarkerForm \cup MorphForm)
  BY <1>1 DEF Typed
<1>3. drawn \in KaraokeVal /\ drawn.meta = 0
  <2>1. drawn.meta = 0
    BY DEF Motion0
  <2> QED BY <2>1, DrawnMotion
<1>4. r = KaraokeDone(f)
  BY DEF KaraokeRead
<1> HIDE DEF drawn
<1>5. flat \in Int \X Int
  OBVIOUS
<1> HIDE DEF flat
<1>6. z \in Steps({<<>>}, parser, ok)
  BY <1>1, <1>5, HeightsSteps
<1>7. start \in S
  <2> HIDE DEF z
  <2> QED BY <1>1, <1>3, <1>6, ValueSteps
<1>8. /\ start.v.meta = 0 /\ start.metas = parser.metas /\ start.phase = parser.phase
      /\ start.kstyle = parser.kstyle /\ start.kregion = parser.kregion
      /\ start.event = parser.event /\ start.pending = parser.pending
  BY <1>1, <1>3 DEF Parsers
<1> HIDE DEF start
<1>9. q \in S /\ SungTo(start, body, n, q)
  BY <1>1, <1>2, <1>7, BodySung
<1> HIDE DEF q
<1>10. f \in S /\ Sings(q, f)
  <2>1. Finalized(q) \in S /\ Sings(q, Finalized(q))
    BY <1>1, <1>9, FinalizedIs, FinalizedSings
  <2>2. Sings(q, q)
    BY SingsItself
  <2> QED BY <1>9, <2>1, <2>2
<1> HIDE DEF f
<1>11. f \in Parsers(KaraokeVal) /\ f.v \in KaraokeVal /\ (Going(f) \/ f.wrong)
  <2>1. f \in Parsers(KaraokeVal) /\ Moves(parser, f)
    BY <1>10 DEF Steps
  <2> QED BY <1>1, <2>1, ParserHas DEF Moves, Going
<1>12. ~r.wrong /\ parser' = Dropped(r)
  <2>1. Leaves1(parser, r, ok)
    BY <1>1, <1>2, KaraokeReadIs
  <2> HIDE DEF r
  <2>2. \E V : r \in Parsers(V)
    BY <2>1 DEF Leaves1, Steps
  <2> QED BY <1>1, <2>2, DroppedHas DEF Only, Read, Dropped
<1> HIDE DEF r
<1>13. MotionAdded(f, w, parser')
  <2> DEFINE c == f.v.curves = <<>>
             e == ErrIf(c, f)
  <2>1. Going(f)
    <3>1. ~Going(f) => r = f
      BY <1>4 DEF KaraokeDone
    <3> QED BY <1>11, <1>12, <3>1
  <2>2. r = OwnMotion(e)
    BY <1>4, <2>1 DEF KaraokeDone
  <2> HIDE DEF c
  <2>3. e.phase = f.phase /\ e.v = f.v /\ e \in Parsers(KaraokeVal)
    BY <1>11, ErrIfIs
  <2>4. Going(e)
    BY <2>1, <2>3 DEF Going
  <2>5. r = AddMotion(e, w)
    BY <2>2, <2>3, <2>4 DEF OwnMotion
  <2>6. w \in InfoSlot \cup OwnSlot(MotionVal)
    BY <1>11, KaraokeValIs DEF OwnSlot, Own
  <2> HIDE DEF e, w
  <2>7. MotionAdded(e, w, parser')
    BY <1>12, <2>5 DEF MotionAdded
  <2>8. ~e.wrong
    BY <2>3, <2>6, <2>7, MotionPut
  <2>9. e = f
    BY <1>11, <2>8, ErrIfWrong DEF e
  <2> QED BY <2>7, <2>9
<1>14. w \in InfoSlot \cup OwnSlot(MotionVal)
  BY <1>11, KaraokeValIs DEF OwnSlot, Own
<1>15. w.own = f.v /\ w.at = "own" /\ w2 = Encoded(parser', w, "motion")
  BY DEF Own, Encoded
<1> HIDE DEF w
<1>16. /\ parser' \in Parsers({<<>>}) /\ parser'.phase = f.phase /\ parser'.metas = f.metas
       /\ parser'.wrong = f.wrong /\ parser'.kstyle = f.kstyle /\ parser'.kregion = f.kregion
       /\ parser'.event = f.event
       /\ parser'.pending = [f.pending EXCEPT !["motions"] = Append(f.pending["motions"], w)]
  BY <1>11, <1>13, <1>14, MotionPut
<1>17. ~q.wrong /\ Steady(q, f) /\ f.pending = q.pending
  BY <1>10, <1>16 DEF Sings
<1>18. /\ f.v.meta = 0 /\ f.metas = parser.metas /\ f.phase = parser.phase
       /\ f.kstyle = parser.kstyle /\ f.kregion = parser.kregion
       /\ \A g \in Plain4 : f.event[g] = parser.event[g]
  BY <1>8, <1>9, <1>17 DEF SungTo, Steady
<1>19. Shaped(said) /\ said' = Say(x) /\ DOMAIN said.over = OverFields
  <2>1. x.do \in Statements
    BY <1>1 DEF Statements
  <2> QED BY <2>1, HeardShape, HearingHas
<1> DEFINE styles == {i \in DOMAIN body : body[i].set = "styles"}
           morph == body[Min(styles)]
           moved == parser'.pending.motions[Len(said.over.motions) + 1].own
           over == [said.over EXCEPT !.motions = Append(@, Own(Sealed("motion", moved, parser'.metas)))]
           over2 == IF styles = {} THEN over
                    ELSE [over EXCEPT !.style = InInfo(SaidAt("style", morph.ref)),
                                      !.secondary = InInfo(SaidAt("style", morph.ref2))]
           heard == MarksOf(body, Len(over.motions))
           pieces == heard.pieces
           words == heard.words
           marks == heard.marks
<1>20. said' = [said EXCEPT !.pieces = pieces, !.words = words, !.marks = marks, !.over = over2]
  BY <1>1, <1>19 DEF Say, Slots
<1> HIDE DEF pieces, words, marks
<1> HIDE DEF over2
<1>21. DOMAIN said' = DOMAIN said /\ said'.times = said.times /\ said'.latest = said.latest /\ said'.over = over2
  BY <1>19, <1>20 DEF Shaped
<1>22. \/ (\A i \in 1 .. n : body[i].set # "styles") /\ f.pending = parser.pending
       \/ \E i \in 1 .. n : Sole(body, n, i) /\ f.pending = MorphPending(parser.pending, body[i])
  BY <1>8, <1>9, <1>17 DEF SungTo
<1>30. DOMAIN parser.pending = OverFields
  BY <1>1 DEF PendingOf, OverFields
<1>31. \A i : MorphPending(parser.pending, body[i]).motions = parser.pending.motions
  BY <1>30, MorphMotions
<1>32. f.pending.motions = parser.pending.motions
  BY <1>22, <1>31
<1>23. moved = f.v
  <2>1. AllHeard(said.over.motions, parser.pending.motions, parser, "motion")
    BY <1>1, AttentiveIs
  <2>2. parser.pending.motions \in Seq(InfoSlot \cup OwnSlot(MotionVal))
    BY <1>1 DEF PendingOf
  <2>3. Len(said.over.motions) = Len(parser.pending.motions)
    BY <2>1, <2>2, AsLong
  <2>4. f.pending \in PendingOf
    BY <1>11, ParserHas
  <2>5. parser'.pending.motions = Append(parser.pending.motions, w)
    BY <1>16, <1>32, <2>4 DEF PendingOf
  <2>6. Append(parser.pending.motions, w)[Len(parser.pending.motions) + 1] = w
    BY <2>2
  <2> QED BY <1>15, <2>3, <2>5, <2>6
<1> HIDE DEF moved, w2
<1>24. over = [said.over EXCEPT !.motions = Append(@, w2)]
  BY <1>23 DEF w2
<1> HIDE DEF over
<1> DEFINE u == Append(parser.pending.motions, w)
           u2 == Append(said.over.motions, w2)
           Others == OverFields \ (Morphing \cup {"motions"})
<1>25. Morphing \subseteq OverFields \ {"motions"} /\ "motions" \in OverFields /\ f.pending \in PendingOf
  BY <1>11, ParserHas DEF Morphing, OverFields
<1>26. /\ DOMAIN over = OverFields /\ over.motions = u2
       /\ \A g \in OverFields \ {"motions"} : over[g] = said.over[g]
  BY <1>19, <1>24, <1>25
<1>27. /\ parser'.pending.motions = u
       /\ \A g \in OverFields \ {"motions"} : parser'.pending[g] = f.pending[g]
  <2>1. DOMAIN f.pending = OverFields
    BY <1>25 DEF PendingOf, OverFields
  <2> QED BY <1>16, <1>25, <1>32, <2>1
<1> HIDE DEF u, u2
<1>28. /\ DOMAIN over2 = OverFields /\ over2.motions = u2
       /\ \A g \in Others : over2[g] = said.over[g] /\ parser'.pending[g] = parser.pending[g]
       /\ \/ \A g \in Morphing : parser'.pending[g] = parser.pending[g] /\ over2[g] = said.over[g]
          \/ \A g \in Morphing : parser'.pending[g].at = "info" /\ over2[g] = parser'.pending[g]
  <2>1. CASE (\A i \in 1 .. n : body[i].set # "styles") /\ f.pending = parser.pending
    <3>1. styles = {}
      BY <1>2, <2>1
    <3>2. over2 = over
      BY <3>1 DEF over2
    <3> QED BY <1>25, <1>26, <1>27, <2>1, <3>2
  <2>2. ASSUME NEW i \in 1 .. n, Sole(body, n, i), f.pending = MorphPending(parser.pending, body[i])
        PROVE  /\ DOMAIN over2 = OverFields /\ over2.motions = u2
               /\ \A g \in Others : over2[g] = said.over[g] /\ parser'.pending[g] = parser.pending[g]
               /\ \A g \in Morphing : parser'.pending[g].at = "info" /\ over2[g] = parser'.pending[g]
    <3> DEFINE a == InInfo(SaidAt("style", body[i].ref))
               b == InInfo(SaidAt("style", body[i].ref2))
    <3>1. styles = {i}
      BY <1>2, <2>2 DEF Sole
    <3>2. i \in Int
      OBVIOUS
    <3>3. Min(styles) = i
      BY <3>1, <3>2, MinOfOne
    <3>4. over2 = [over EXCEPT !.style = InInfo(SaidAt("style", morph.ref)),
                               !.secondary = InInfo(SaidAt("style", morph.ref2))]
      BY <3>1 DEF over2
    <3> HIDE DEF styles
    <3>5. over2 = [over EXCEPT !["style"] = a, !["secondary"] = b]
      BY <3>3, <3>4
    <3>6. f.pending = [parser.pending EXCEPT !["style"] = a, !["secondary"] = b]
      BY <2>2 DEF MorphPending
    <3>7. a.at = "info" /\ b.at = "info"
      BY DEF InInfo
    <3> HIDE DEF a, b
    <3>8. /\ "style" \in OverFields /\ "secondary" \in OverFields
          /\ \A g \in OverFields : g = "motions" \/ g = "style" \/ g = "secondary" \/ g \in Others
          /\ \A g \in Others : g # "style" /\ g # "secondary" /\ g # "motions" /\ g \in OverFields
      BY DEF OverFields, Morphing
    <3> HIDE DEF Others
    <3>9. \A g \in OverFields : /\ over2[g] = IF g = "style" THEN a ELSE IF g = "secondary" THEN b ELSE over[g]
                               /\ f.pending[g] = IF g = "style" THEN a ELSE IF g = "secondary" THEN b
                                                 ELSE parser.pending[g]
      BY <1>26, <1>30, <3>5, <3>6
    <3>10. DOMAIN over2 = OverFields
      BY <1>26, <3>5
    <3>11. over2["motions"] = u2
      BY <1>25, <1>26, <3>9
    <3>12. \A g \in Others : over2[g] = said.over[g] /\ parser'.pending[g] = parser.pending[g]
      BY <1>26, <1>27, <3>8, <3>9
    <3>13. \A g \in {"style", "secondary"} : parser'.pending[g].at = "info" /\ over2[g] = parser'.pending[g]
      BY <1>27, <3>7, <3>8, <3>9
    <3> QED BY <3>10, <3>11, <3>12, <3>13 DEF Morphing
  <2> QED BY <1>22, <2>1, <2>2
<1>29. KaraokeTold(w, w2)
  BY <1>1, <1>16, <1>18, <1>19, <1>21, <1>27, <1>28 DEF KaraokeTold, u, u2
<1>33. Alone(w, parser')
  <2>1. w.own.meta = 0
    BY <1>15, <1>18
  <2>2. 0 \in 0 .. Len(parser'.metas)
    BY <1>16, ParserHas
  <2> QED BY <2>1, <2>2 DEF Alone, Bound, Private
<1> HIDE DEF w2
<1>34. w2 = Encoded(parser', w, "motion")
  BY <1>15 DEF w2
<1> QED BY <1>29, <1>33, <1>34, KaraokeHeard

-----------------------------------------------------------------------------
(* What every step leaves of it.                                             *)

LEMMA ToldStill ==
  ASSUME NEW entry, NEW ev, NEW but \in BOOLEAN, NEW but2 \in BOOLEAN, but => but2, Told(entry, ev, but)
  PROVE  Told(entry, ev, but2)
<1> DEFINE want == EventSaid(entry)
           got == [f \in DOMAIN want |-> ev[f]]
<1>1. Told(entry, ev, but) <=> IF but THEN Bare(got) = Bare(want) ELSE got = want
  BY DEF Told
<1>2. Told(entry, ev, but2) <=> IF but2 THEN Bare(got) = Bare(want) ELSE got = want
  BY DEF Told
<1> HIDE DEF want, got
<1> QED BY <1>1, <1>2

LEMMA AllToldStill ==
  ASSUME AllTold, shared \in BOOLEAN, shared' \in BOOLEAN, shared => shared', UNCHANGED <<sent, saidlog>>
  PROVE  AllTold'
<1> DEFINE but == shared'
<1>1. \A n \in DOMAIN saidlog : Told(saidlog[n], sent[n], but)
  BY ToldStill DEF AllTold
<1>2. \A n \in DOMAIN saidlog' : Told(saidlog'[n], sent'[n], shared')
  BY <1>1
<1>3. Len(saidlog') = Len(sent')
  BY DEF AllTold
<1> QED BY <1>2, <1>3 DEF AllTold

LEMMA IntactNext ==
  ASSUME Intact(parser', said', shared'), Defs, UNCHANGED header PROVE Intact(parser, said, shared)'
<1>1. info' = info /\ header' = header
  BY DEF Defs
<1>2. Lists(parser') => Lists(parser)'
  BY <1>1 DEF Lists, Bound, Alone, Private
<1>3. HeaderHeld(parser', shared') => HeaderHeld(parser, shared)'
  BY <1>1 DEF HeaderHeld, SentItem, Held
<1>4. Heard(said', parser', shared') => Heard(said, parser, shared)'
  OBVIOUS
<1> QED BY <1>1, <1>2, <1>3, <1>4 DEF Intact

LEMMA RetoldNext ==
  ASSUME Retold, Defs, Events, shared \in BOOLEAN, shared' \in BOOLEAN, shared => shared',
         parser.wrong => parser'.wrong, parser'.phase = "defs" => parser.phase = "defs",
         ~parser'.wrong /\ names = declared => Intact(parser', said', shared')
  PROVE  Retold'
<1>1. UNCHANGED <<sent, saidlog, header>> /\ names' = names /\ declared' = declared
  BY DEF Defs, Events
<1>2. (parser.phase = "defs" => saidlog = <<>> /\ sent = <<>>)'
  BY <1>1 DEF Retold
<1>3. ASSUME ~parser'.wrong, names' = declared' PROVE Intact(parser, said, shared)' /\ AllTold'
  <2>1. Intact(parser', said', shared')
    BY <1>1, <1>3
  <2>2. Intact(parser, said, shared)'
    BY <1>1, <2>1, IntactNext
  <2>3. AllTold
    BY <1>1, <1>3 DEF Retold
  <2>4. AllTold'
    BY <1>1, <2>3, AllToldStill
  <2> QED BY <2>2, <2>4
<1> QED BY <1>2, <1>3 DEF Retold

(* Statements of an event.                                                   *)
LEMMA EventHears ==
  ASSUME NEW x, NEW ok, Hearing(x, ok), ~parser'.wrong,
         \/ SetTimes(x) \/ SetText(x) \/ SetSlot(x) \/ AddLocalBitmap(x) \/ AddEventMotion(x) \/ SetMapping(x)
         \/ AddEventMeta(x) \/ SetId(x) \/ SetLanguage(x) \/ SetDirectionality(x) \/ Karaoke(x)
  PROVE  Aheard
BY TimesAttend, TextAttends, SlotAttends, LocalAttends, MotionAttends, MappingAttends, MetaAttends,
   IdAttends, SpokenAttends, KaraokeAttends

(* Statements before the events and between them.                            *)
LEMMA ListsStill ==
  ASSUME NEW p, NEW q, Lists(p), q.metas = p.metas, q.kstyle = p.kstyle, q.kregion = p.kregion,
         q.pending = p.pending
  PROVE  Lists(q)
BY DEF Lists, Bound, Alone

LEMMA HeaderHeldStill ==
  ASSUME NEW p, NEW q, NEW but, HeaderHeld(p, but), q.metas = p.metas PROVE HeaderHeld(q, but)
BY DEF HeaderHeld, SentItem

LEMMA HeardFirst ==
  ASSUME NEW p \in Parsers({<<>>}), p.pending = Pending0, p.event = Event0, NEW but \in BOOLEAN
  PROVE  Heard(Said0, p, but)
<1>1. NoSlot.at = "none"
  BY DEF NoSlot
<1>2. \A kind : Encoded(p, NoSlot, kind) = NoSlot
  BY <1>1 DEF Encoded
<1>3. /\ Pending0.region = NoSlot /\ Pending0.style = NoSlot /\ Pending0.secondary = NoSlot
      /\ Pending0["palette"] = NoSlot /\ Pending0["bitmap"] = NoSlot /\ Pending0.bitmaps = <<>>
      /\ Pending0.motions = <<>> /\ Pending0.markup = FALSE /\ DOMAIN Pending0 = OverFields
  BY DEF Pending0, OverFields
<1>4. Said0.over = Pending0 /\ Shaped(Said0)
  BY <1>3 DEF Said0, Shaped
<1>10. \A f \in {"t0", "t1", "for"} : Said0.times[f] = Event0[f]
  BY DEF Said0, Event0
<1>11. Event0.markup = FALSE
  BY DEF Event0
<1> HIDE DEF Pending0, Said0, Event0
<1>5. PlainHeard(Said0, p)
  BY <1>3, <1>4, <1>10, <1>11 DEF PlainHeard
<1>6. /\ ListHeard(Said0.over.bitmaps, p.pending.bitmaps, p, "bitmap")
      /\ ListHeard(Said0.over.motions, p.pending.motions, p, "motion")
  BY <1>3, <1>4 DEF ListHeard
<1>7. OwnsHeard(Said0, p)
  BY <1>2, <1>3, <1>4, <1>6 DEF OwnsHeard
<1>8. RegionHeard(Said0, p, but)
  BY <1>2, <1>3, <1>4 DEF RegionHeard, Same
<1>9. StyleHeard(Said0, p, but, "style", "secondary") /\ StyleHeard(Said0, p, but, "secondary", "style")
  BY <1>1, <1>3, <1>4 DEF StyleHeard
<1> QED BY <1>4, <1>5, <1>7, <1>8, <1>9 DEF Heard

LEMMA SyntaxRetold ==
  ASSUME Books, Headed, Logged, shared \in BOOLEAN, loose' \in BOOLEAN, NEW x, Ready(x, ~loose'),
         Retold, Listen(x), SyntaxError(x)
  PROVE  Retold'
<1> DEFINE ok == ~loose'
           r == Ended(parser, "stopped")
<1>1. Ready(x, ok) /\ ok \in BOOLEAN /\ SyntaxError(x)
  BY DEF Ready
<1> HIDE DEF ok
<1>2. After(parser, parser', ok) /\ Defs /\ Events
  BY <1>1, SyntaxErrorIs
<1>3. parser \in Parsers({<<>>})
  BY DEF Ready, Parsing
<1>4. r \in Parsers({<<>>}) /\ r.wrong
  BY <1>3, EndedIs
<1>5. parser' = [r EXCEPT !.v = <<>>]
  BY DEF SyntaxError, Only, Read
<1> HIDE DEF r
<1>6. parser'.wrong
  BY <1>4, <1>5, DroppedHas
<1>7. shared' = (shared \/ Shares(x))
  BY DEF Listen
<1>8. shared' \in BOOLEAN /\ (shared => shared')
  <2>1. (shared \/ Shares(x)) \in BOOLEAN
    OBVIOUS
  <2> QED BY <1>7, <2>1
<1> QED BY <1>2, <1>6, <1>8, RetoldNext DEF After

(* A statement that leaves the lists of metadata and what refers to them.    *)
LEMMA CalmIs ==
  ASSUME NEW r \in Parsers({<<>>}), Read(r), r.metas = parser.metas, r.kstyle = parser.kstyle,
         r.kregion = parser.kregion, r.pending = parser.pending, NEW but, Lists(parser), HeaderHeld(parser, but)
  PROVE  /\ parser' \in Parsers({<<>>}) /\ parser'.phase = r.phase /\ parser'.event = r.event
         /\ parser'.wrong = r.wrong /\ parser'.pending = parser.pending
         /\ Lists(parser') /\ HeaderHeld(parser', but)
<1> DEFINE q == parser'
<1>1. q = [r EXCEPT !.v = <<>>]
  BY DEF Read
<1> HIDE DEF q
<1>2. /\ q \in Parsers({<<>>}) /\ q.phase = r.phase /\ q.event = r.event /\ q.pending = parser.pending
      /\ q.metas = parser.metas /\ q.kstyle = parser.kstyle /\ q.kregion = parser.kregion /\ q.wrong = r.wrong
  BY <1>1, DroppedHas
<1>3. Lists(q) /\ HeaderHeld(q, but)
  BY <1>2, ListsStill, HeaderHeldStill
<1> QED BY <1>2, <1>3 DEF q

LEMMA NotShared ==
  ASSUME NEW x, Listen(x), shared \in BOOLEAN
  PROVE  /\ shared' \in BOOLEAN /\ (shared => shared') /\ (x.do \notin Slots => shared' = shared)
         /\ (x.do = "event" => said' = Said0)
<1>1. shared' = (shared \/ Shares(x))
  BY DEF Listen
<1>2. (shared \/ Shares(x)) \in BOOLEAN
  OBVIOUS
<1>3. x.do \notin Slots => ~Shares(x)
  BY DEF Shares
<1>4. said' = CASE x.do = "event" -> Said0
               [] x.do \in Statements /\ ~parser'.wrong -> Say(x)
               [] OTHER -> said
  BY DEF Listen
<1>5. x.do \in Statements => x.do # "event"
  BY DEF Statements, Slots
<1> QED BY <1>1, <1>2, <1>3, <1>4, <1>5

LEMMA StatementIntact ==
  ASSUME Books, Headed, shared \in BOOLEAN, NEW x, NEW ok, Ready(x, ok), Retold, Listen(x),
         ~Unreadable(x), Statement(x), ~parser'.wrong, ~parser.wrong, names = declared, UNCHANGED header
  PROVE  Intact(parser', said', shared')
<1>1. Intact(parser, said, shared)
  BY DEF Retold
<1>2. parser \in Parsers({<<>>}) /\ Place(x) = parser.phase
  BY PlaceIs DEF Ready, Parsing
<1>3. Lists(parser) /\ HeaderHeld(parser, shared)
  BY <1>1 DEF Intact
<1>4. /\ shared' \in BOOLEAN /\ (shared => shared') /\ (x.do \notin Slots => shared' = shared)
      /\ (x.do = "event" => said' = Said0)
  BY NotShared
<1>5. ASSUME \/ SetTimes(x) \/ SetText(x) \/ SetSlot(x) \/ AddLocalBitmap(x) \/ AddEventMotion(x) \/ SetMapping(x)
             \/ AddEventMeta(x) \/ SetId(x) \/ SetLanguage(x) \/ SetDirectionality(x) \/ Karaoke(x)
      PROVE  Intact(parser', said', shared')
  <2>1. x.do \in Statements \cup {"id"}
    BY <1>5 DEF Statements, SetTimes, SetText, SetSlot, AddLocalBitmap, AddEventMotion, SetMapping,
                AddEventMeta, SetId, SetLanguage, SetDirectionality, Karaoke
  <2>2. Place(x) = "event"
    BY <2>1 DEF Place, Statements, Slots
  <2>3. Hearing(x, ok)
    BY <1>1, <1>2, <2>2 DEF Hearing, Intact, Attentive
  <2>4. Aheard
    BY <1>5, <2>3, EventHears
  <2>5. parser'.phase = "event" /\ Attentive(parser', said', shared')
    BY <2>4 DEF Aheard
  <2> QED BY <1>1, <1>2, <2>2, <2>5 DEF Intact, Attentive
<1>6. CASE Comment(x) \/ Timebase(x)
  <2>1. parser.phase = "defs" /\ x.do \notin Slots
    BY <1>2, <1>6 DEF Comment, Timebase, Place, Slots
  <2>2. PICK r \in Parsers({<<>>}) : /\ Read(r) /\ r.metas = parser.metas /\ r.kstyle = parser.kstyle
                                     /\ r.kregion = parser.kregion /\ r.pending = parser.pending
                                     /\ r.phase = parser.phase
    <3>1. Typed(x) /\ parser.comments \in Seq(Word)
      BY <1>2, ParserHas, GrammarTyped DEF Ready
    <3>2. CASE Comment(x)
      <4>1. x.name \in Word
        BY <3>1, <3>2 DEF Comment, Typed
      <4> DEFINE c == Append(parser.comments, x.name)
                 r == [parser EXCEPT !.comments = c]
      <4>2. c \in Seq(Word)
        BY <3>1, <4>1, AppendIs
      <4>3. Read(parser) \/ Read(r)
        BY <3>2 DEF Comment, Only
      <4> HIDE DEF c
      <4>4. /\ r \in Parsers({<<>>}) /\ r.metas = parser.metas /\ r.kstyle = parser.kstyle
            /\ r.kregion = parser.kregion /\ r.pending = parser.pending /\ r.phase = parser.phase
        BY <1>2, <4>2 DEF Parsers
      <4> QED BY <1>2, <4>3, <4>4
    <3>3. CASE Timebase(x)
      <4>1. x.time \in Int
        BY <3>1, <3>3 DEF Timebase, Typed
      <4> DEFINE r == [parser EXCEPT !.timebase = x.time]
      <4>2. Read(r)
        BY <3>3 DEF Timebase, Only
      <4>3. /\ r \in Parsers({<<>>}) /\ r.metas = parser.metas /\ r.kstyle = parser.kstyle
            /\ r.kregion = parser.kregion /\ r.pending = parser.pending /\ r.phase = parser.phase
        BY <1>2, <4>1 DEF Parsers
      <4> QED BY <4>2, <4>3
    <3> QED BY <1>6, <3>2, <3>3
  <2>3. /\ parser'.phase = "defs" /\ parser'.pending = parser.pending
        /\ Lists(parser') /\ HeaderHeld(parser', shared)
    BY <1>3, <2>1, <2>2, CalmIs
  <2> QED BY <1>1, <1>4, <2>1, <2>3 DEF Intact
<1>7. CASE HeadersFail(x)
  <2> DEFINE r == Ended(parser, "exited")
  <2>1. Read(r)
    BY <1>7 DEF HeadersFail, Only
  <2>2. r \in Parsers({<<>>}) /\ r.wrong
    BY <1>2, EndedIs
  <2> HIDE DEF r
  <2>3. parser'.wrong
    BY <2>1, <2>2, DroppedHas DEF Read
  <2> QED BY <2>3
<1>8. CASE OpenEvent(x)
  <2> DEFINE z == [parser EXCEPT !.phase = "event"]
             r == [z EXCEPT !.event = Event0]
  <2>1. parser.phase = "events" /\ x.do \notin Slots /\ x.do = "event"
    BY <1>2, <1>8 DEF OpenEvent, Place, Slots
  <2>2. Read(r)
    BY <1>8 DEF OpenEvent, Only
  <2>3. "event" \in Phases /\ Event0 \in EventOf
    BY Event0Is DEF Phases
  <2>4. /\ z \in Parsers({<<>>}) /\ z.metas = parser.metas /\ z.kstyle = parser.kstyle
        /\ z.kregion = parser.kregion /\ z.pending = parser.pending /\ z.phase = "event"
    BY <1>2, <2>3 DEF Parsers
  <2> HIDE DEF z
  <2>5. /\ r \in Parsers({<<>>}) /\ r.metas = parser.metas /\ r.kstyle = parser.kstyle
        /\ r.kregion = parser.kregion /\ r.pending = parser.pending /\ r.phase = "event" /\ r.event = Event0
    BY <2>3, <2>4 DEF Parsers
  <2> HIDE DEF r
  <2>6. /\ parser'.phase = "event" /\ parser'.pending = parser.pending /\ parser'.event = Event0
        /\ Lists(parser') /\ HeaderHeld(parser', shared) /\ parser' \in Parsers({<<>>})
    BY <1>3, <2>2, <2>5, CalmIs
  <2>7. parser'.pending = Pending0
    BY <1>1, <2>1, <2>6 DEF Intact
  <2>8. Heard(Said0, parser', shared)
    BY <2>6, <2>7, HeardFirst
  <2> QED BY <1>1, <1>4, <2>1, <2>6, <2>8 DEF Intact
<1>9. CASE Finish(x)
  <2> DEFINE r == [parser EXCEPT !.phase = "done"]
  <2>1. parser.phase = "events" /\ x.do \notin Slots
    BY <1>2, <1>9 DEF Finish, Place, Slots
  <2>2. Read(r)
    BY <1>9 DEF Finish, Only
  <2>3. "done" \in Phases
    BY DEF Phases
  <2>4. /\ r \in Parsers({<<>>}) /\ r.metas = parser.metas /\ r.kstyle = parser.kstyle
        /\ r.kregion = parser.kregion /\ r.pending = parser.pending /\ r.phase = "done"
    BY <1>2, <2>3 DEF Parsers
  <2> HIDE DEF r
  <2>5. parser'.phase = "done" /\ Lists(parser') /\ HeaderHeld(parser', shared)
    BY <1>3, <2>2, <2>4, CalmIs
  <2> QED BY <1>1, <1>4, <2>1, <2>5 DEF Intact
<1> QED BY <1>5, <1>6, <1>7, <1>8, <1>9 DEF Statement

LEMMA StatementRetold ==
  ASSUME Books, Headed, shared \in BOOLEAN, loose' \in BOOLEAN, NEW x, Ready(x, ~loose'), Retold, Listen(x),
         ~Unreadable(x), Statement(x)
  PROVE  Retold'
<1> DEFINE ok == ~loose'
<1>1. Ready(x, ok) /\ ok \in BOOLEAN
  BY DEF Ready
<1> HIDE DEF ok
<1>2. After(parser, parser', ok) /\ Defs /\ Events
  BY <1>1, StatementIs
<1>3. shared' \in BOOLEAN /\ (shared => shared')
  BY NotShared
<1>4. ~parser'.wrong /\ names = declared => Intact(parser', said', shared')
  BY <1>1, <1>2, StatementIntact DEF After, Events
<1> QED BY <1>2, <1>3, <1>4, RetoldNext DEF After

(* A definition adds to the headers before any event.                        *)
NamesOf(f) == f = [k \in AllKinds |-> f[k]] /\ \A k \in AllKinds : f[k] \in Seq(Word)
Appended(f, kind, a, h) == h = [f EXCEPT ![kind] = Append(@, a)]
LEMMA SameAppended ==
  ASSUME NEW f, NEW g, NamesOf(f), NamesOf(g), \A k \in AllKinds : Len(f[k]) = Len(g[k]),
         NEW kind \in AllKinds, NEW a \in Word, NEW b \in Word, NEW h,
         Appended(f, kind, a, h), Appended(g, kind, b, h)
  PROVE  f = g
<1> DEFINE f2 == [f EXCEPT ![kind] = Append(@, a)]
           g2 == [g EXCEPT ![kind] = Append(@, b)]
<1>1. /\ f2[kind] = Append(f[kind], a) /\ g2[kind] = Append(g[kind], b)
      /\ \A k \in AllKinds : k # kind => f2[k] = f[k] /\ g2[k] = g[k]
  BY DEF NamesOf
<1>2. f2 = g2
  BY DEF Appended
<1> HIDE DEF f2, g2
<1>3. \A k \in AllKinds : k # kind => f[k] = g[k]
  BY <1>1, <1>2
<1> DEFINE s == f[kind]
           t == g[kind]
<1>4. Append(s, a) = Append(t, b) /\ s \in Seq(Word) /\ t \in Seq(Word) /\ Len(s) = Len(t)
  BY <1>1, <1>2 DEF NamesOf
<1> HIDE DEF s, t
<1>5. \A i \in 1 .. Len(s) : s[i] = t[i]
  <2>1. \A i \in 1 .. Len(s) : Append(s, a)[i] = s[i] /\ Append(t, b)[i] = t[i]
    BY <1>4
  <2> QED BY <1>4, <2>1
<1>6. s = t
  <2>1. s = [i \in 1 .. Len(s) |-> s[i]] /\ t = [i \in 1 .. Len(t) |-> t[i]]
    BY <1>4
  <2>2. [i \in 1 .. Len(s) |-> s[i]] = [i \in 1 .. Len(t) |-> t[i]]
    BY <1>4, <1>5
  <2> QED BY <2>1, <2>2
<1> QED BY <1>3, <1>6 DEF s, t, NamesOf

LEMMA DefineReads ==
  ASSUME Books, loose' \in BOOLEAN, loose => loose', NEW x, Ready(x, ~loose'), ~Unreadable(x), Define(x)
  PROVE  LET r == ItemFrom(x.kind, parser, Initial(x.kind), x.body)
         IN /\ r \in ItemOf(x.kind, parser, ~loose') /\ AddItem(x, r)
            /\ x.do = "define" /\ x.kind \in AllKinds /\ x.name \in Word
<1> DEFINE ok == ~loose'
           kind == x.kind
           r == ItemFrom(kind, parser, Initial(kind), x.body)
<1>1. x.do = "define" /\ AddItem(x, r)
  BY DEF Define
<1>2. Typed(x) /\ ok \in BOOLEAN /\ (ok => ~loose) /\ loose \in BOOLEAN /\ Parsing
  BY GrammarTyped DEF Ready
<1>3. kind \in AllKinds /\ x.name \in Word /\ Says(kind, ok, x.body)
  BY <1>1, <1>2, BodySays DEF Typed
<1> HIDE DEF ok
<1>4. Starts(parser, ok)
  BY <1>2, ReadyIs DEF Ready, ok
<1>5. parser \in Parsers({<<>>}) /\ Going(parser) /\ Fine(parser, ok) /\ ItemsHold(parser, ok)
  BY <1>4 DEF Starts
<1>6. [parser EXCEPT !.v = Initial(kind)] \in ReadingOf(kind, parser, ok)
  BY <1>2, <1>3, <1>5, ReadsItself, InitialIs
<1>7. r \in ItemOf(kind, parser, ok)
  BY <1>2, <1>3, <1>5, <1>6, ItemFromIs
<1> QED BY <1>1, <1>3, <1>7 DEF ok

LEMMA DefineRetold ==
  ASSUME Books, Headed, shared \in BOOLEAN, loose' \in BOOLEAN, loose => loose', NEW x, Ready(x, ~loose'),
         Retold, Listen(x), ~Unreadable(x), Define(x)
  PROVE  Retold'
<1> DEFINE ok == ~loose'
           kind == x.kind
           r == ItemFrom(kind, parser, Initial(kind), x.body)
<1>1. x.do = "define" /\ AddItem(x, r) /\ kind \in AllKinds /\ x.name \in Word /\ r \in ItemOf(kind, parser, ok)
  BY DefineReads
<1>2. parser \in Parsers({<<>>})
  BY DEF Ready, Parsing
<1> HIDE DEF ok
<1>8. /\ Read(r) /\ Events
      /\ IF Going(r)
         THEN /\ info' = [info EXCEPT ![kind] = Append(@, r.v)]
              /\ declared' = [declared EXCEPT ![kind] = Append(@, x.name)]
              /\ \E name \in NamesRead(x.name) : names' = [names EXCEPT ![kind] = Append(@, name)]
         ELSE Defs
  BY <1>1 DEF AddItem
<1> HIDE DEF r
<1>9. /\ r \in Parsers(Val(kind)) /\ r.pending = parser.pending /\ (parser.wrong => r.wrong)
      /\ Len(parser.metas) <= Len(r.metas) /\ (r.phase = parser.phase \/ r.wrong)
      /\ kind \in {"style", "region"} => r.v.meta <= Len(r.metas)
      /\ r.kregion = IF kind = "region" THEN r.v ELSE parser.kregion
      /\ r.kstyle = IF kind = "style" THEN r.v ELSE parser.kstyle
  BY <1>1 DEF ItemOf, Moves, Aside, HasMeta
<1>10. parser.phase = "defs" /\ header = <<>> /\ header' = <<>> /\ sent' = sent /\ saidlog' = saidlog
  <2>1. Place(x) = "defs"
    BY <1>1 DEF Place
  <2>2. parser.phase = "defs"
    BY <2>1, PlaceIs
  <2> QED BY <1>8, <2>2 DEF Headed, Events
<1>11. saidlog = <<>> /\ sent = <<>>
  BY <1>10 DEF Retold
<1> DEFINE q == parser'
<1>12. /\ q \in Parsers({<<>>}) /\ q.phase = r.phase /\ q.wrong = r.wrong /\ q.metas = r.metas
       /\ q.kstyle = r.kstyle /\ q.kregion = r.kregion /\ q.pending = r.pending
  BY <1>8, <1>9, DroppedHas DEF Read
<1> HIDE DEF q
<1>13. ASSUME names' = declared', ~r.wrong PROVE names = declared
  <2>1. CASE ~Going(r)
    BY <1>8, <1>13, <2>1 DEF Defs
  <2>2. CASE Going(r)
    <3>1. PICK w \in NamesRead(x.name) : names' = [names EXCEPT ![kind] = Append(@, w)]
      BY <1>8, <2>2
    <3>2. w \in Word
      BY <1>1, <3>1, NamesReadAre
    <3>3. names' = [names EXCEPT ![kind] = Append(@, w)]
      BY <3>1
    <3>4. declared' = [declared EXCEPT ![kind] = Append(@, x.name)]
      BY <1>8, <2>2
    <3>5. /\ NamesOf(names) /\ NamesOf(declared)
          /\ \A k \in AllKinds : Len(names[k]) = Len(declared[k])
      BY DEF Books, Tables, NamesOf
    <3> DEFINE h == names'
    <3>6. Appended(names, kind, w, h) /\ Appended(declared, kind, x.name, h)
      BY <1>13, <3>3, <3>4 DEF Appended
    <3> HIDE DEF h
    <3> QED BY <1>1, <3>2, <3>5, <3>6, SameAppended
  <2> QED BY <2>1, <2>2
<1>14. ASSUME names' = declared', ~q.wrong PROVE Intact(parser, said, shared)' /\ AllTold'
  <2>1. Intact(parser, said, shared)
    BY <1>9, <1>12, <1>13, <1>14 DEF Retold
  <2>2. q.phase = "defs" /\ q.pending = Pending0
    BY <1>9, <1>10, <1>12, <1>14, <2>1 DEF Intact
  <2>3. Bound(q.kstyle, q) /\ Bound(q.kregion, q)
    <3>1. Len(parser.metas) \in Nat /\ Len(r.metas) \in Nat
      BY <1>2, <1>9, ParserHas
    <3>2. Bound(parser.kstyle, parser) /\ Bound(parser.kregion, parser)
      BY <2>1 DEF Intact, Lists
    <3>3. kind \in {"style", "region"} => r.v.meta \in Nat
      <4>1. kind \in {"style", "region"} => kind \in Marked4
        BY DEF Marked4
      <4> QED BY <1>9, <4>1, ParserHas, MetaHas
    <3> QED BY <1>9, <1>12, <3>1, <3>2, <3>3 DEF Bound
  <2>4. Lists(parser)'
    <3>1. Pending0.palette = NoSlot /\ Pending0.bitmap = NoSlot /\ NoSlot.at = "none"
          /\ DOMAIN Pending0.bitmaps = {} /\ DOMAIN Pending0.motions = {}
      BY DEF Pending0, NoSlot
    <3>2. /\ parser'.pending = Pending0 /\ Bound(parser'.kstyle, parser') /\ Bound(parser'.kregion, parser')
      BY <2>2, <2>3 DEF q
    <3> HIDE DEF Pending0
    <3> QED BY <3>1, <3>2 DEF Lists, Alone
  <2>5. (HeaderHeld(parser, shared))'
    BY <1>10 DEF HeaderHeld
  <2>6. parser'.phase = "defs" /\ parser'.pending = Pending0
    BY <2>2 DEF q
  <2>7. Intact(parser, said, shared)'
    BY <2>4, <2>5, <2>6 DEF Intact
  <2>8. AllTold'
    BY <1>10, <1>11 DEF AllTold
  <2> QED BY <2>7, <2>8
<1>15. (parser.phase = "defs" => saidlog = <<>> /\ sent = <<>>)'
  BY <1>10, <1>11
<1> QED BY <1>14, <1>15 DEF Retold, q

(* The headers are sent as they are.                                         *)
LEMMA HeadersRetold ==
  ASSUME Books, Headed, shared \in BOOLEAN, loose' \in BOOLEAN, loose => loose', NEW x, Ready(x, ~loose'),
         Retold, Listen(x), ~Unreadable(x), Headers(x)
  PROVE  Retold'
<1> DEFINE Items(k) == [i \in DOMAIN info[k] |-> Sealed(k, info[k][i], parser.metas)]
<1>1. /\ Defs /\ UNCHANGED <<sent, saidlog>> /\ Read([parser EXCEPT !.phase = "events"]) /\ x.do = "headers"
      /\ header' = [comments |-> parser.comments, items |-> [k \in AllKinds |-> Items(k)]]
  BY DEF Headers
<1>2. parser \in Parsers({<<>>}) /\ parser.phase = "defs" /\ Tables
  <2>1. Place(x) = "defs"
    BY <1>1 DEF Place
  <2> QED BY <2>1, PlaceIs DEF Ready, Parsing, Books
<1>3. header' # <<>>
  <2>1. "items" \in DOMAIN header'
    BY <1>1
  <2> QED BY <2>1
<1>4. \A k \in AllKinds : header'.items[k] = Items(k)
  BY <1>1
<1>5. saidlog = <<>> /\ sent = <<>>
  BY <1>2 DEF Retold
<1> DEFINE r == [parser EXCEPT !.phase = "events"]
           q == parser'
<1>6. /\ r \in Parsers({<<>>}) /\ r.metas = parser.metas /\ r.kstyle = parser.kstyle
      /\ r.kregion = parser.kregion /\ r.pending = parser.pending /\ r.phase = "events" /\ r.wrong = parser.wrong
  <2>1. "events" \in Phases
    BY DEF Phases
  <2> QED BY <1>2, <2>1 DEF Parsers
<1>7. q = [r EXCEPT !.v = <<>>]
  BY <1>1 DEF Read
<1> HIDE DEF r, q
<1>8. /\ q \in Parsers({<<>>}) /\ q.phase = "events" /\ q.wrong = parser.wrong /\ q.pending = parser.pending
      /\ q.metas = parser.metas /\ q.kstyle = parser.kstyle /\ q.kregion = parser.kregion
  BY <1>6, <1>7, DroppedHas
<1>9. info' = info /\ names' = names /\ declared' = declared
  BY <1>1 DEF Defs
<1>10. ASSUME NEW k \in AllKinds, NEW i \in DOMAIN info[k]
       PROVE  IF HasMeta(k) THEN SentItem(Items(k)[i], info[k][i], q, shared')
              ELSE Items(k)[i] = info[k][i]
  <2> DEFINE w == info[k][i]
             v == Items(k)[i]
  <2>1. v = Sealed(k, w, parser.metas) /\ w \in Val(k)
    BY <1>2, <1>10 DEF Tables
  <2>2. HasMeta(k) => w.meta <= Len(parser.metas)
    BY <1>10 DEF Ready, Parsing, ItemsHold
  <2> HIDE DEF v, w
  <2>3. ASSUME HasMeta(k) PROVE SentItem(v, w, q, shared')
    <3>1. w.meta \in Nat /\ "meta" \in DOMAIN w
      <4>1. CASE k = "motion"
        BY <2>1, <4>1, ValsAre DEF MotionVal, MotionOf
      <4>2. CASE k # "motion"
        <5>1. k \in Marked4
          BY <2>3, <4>2 DEF HasMeta, Marked4
        <5> QED BY <2>1, <5>1, MetaHas
      <4> QED BY <4>1, <4>2
    <3> DEFINE h == Held(w, parser.metas)
    <3>2. v = [w EXCEPT !.meta = h]
      BY <2>1, <2>3, <3>1 DEF Sealed, Held
    <3>3. h \in Seq(Leaf)
      <4>1. parser.metas \in Seq(Seq(Leaf)) /\ Len(parser.metas) \in Nat
        BY <1>2, ParserHas
      <4>2. w.meta # 0 => w.meta \in 1 .. Len(parser.metas)
        BY <2>2, <2>3, <3>1, <4>1
      <4>3. <<>> \in Seq(Leaf)
        OBVIOUS
      <4> QED BY <4>1, <4>2, <4>3 DEF Held
    <3>4. h = Held(w, q.metas)
      BY <1>8
    <3> HIDE DEF h
    <3>5. v.meta = h
      BY <3>1, <3>2
    <3> QED BY <3>2, <3>3, <3>4, <3>5 DEF SentItem
  <2>4. ~HasMeta(k) => v = w
    BY <2>1 DEF Sealed
  <2> QED BY <2>3, <2>4 DEF v, w
<1> HIDE DEF Items
<1>11. ASSUME names' = declared', ~q.wrong PROVE Intact(parser, said, shared)' /\ AllTold'
  <2>1. Intact(parser, said, shared)
    BY <1>8, <1>9, <1>11 DEF Retold
  <2>2. Lists(q) /\ q.pending = Pending0
    BY <1>2, <1>8, <2>1, ListsStill DEF Intact
  <2>3. Lists(parser')
    BY <2>2 DEF q
  <2>4. Lists(parser)'
    BY <1>9, <2>3 DEF Lists, Bound, Alone, Private
  <2>5. HeaderHeld(parser, shared)'
    BY <1>4, <1>9, <1>10 DEF HeaderHeld, SentItem, q
  <2>6. parser'.phase = "events" /\ parser'.pending = Pending0
    BY <1>8, <2>2 DEF q
  <2>7. Intact(parser, said, shared)'
    BY <1>3, <2>4, <2>5, <2>6 DEF Intact
  <2>8. AllTold'
    BY <1>1, <1>5 DEF AllTold
  <2> QED BY <2>7, <2>8
<1>12. (parser.phase = "defs" => saidlog = <<>> /\ sent = <<>>)'
  BY <1>1, <1>5
<1> QED BY <1>11, <1>12 DEF Retold, q

-----------------------------------------------------------------------------
(* The event that is sent is as it was said.                                 *)

Styled == {"region", "style", "secondary"}
Fields(g, D) == g = [f \in D |-> g[f]]
LEMMA BareSame ==
  ASSUME NEW but \in BOOLEAN, NEW D, Styled \subseteq D, NEW got, NEW want,
         Fields(got, D), Fields(want, D),
         \A f \in D \ Styled : got[f] = want[f], \A f \in Styled : Same(want[f], got[f], but)
  PROVE  IF but THEN Bare(got) = Bare(want) ELSE got = want
<1>1. "region" \in Styled /\ "style" \in Styled /\ "secondary" \in Styled
      /\ \A f \in Styled : f = "region" \/ f = "style" \/ f = "secondary"
  BY DEF Styled
<1> HIDE DEF Styled
<1>2. CASE ~but
  <2>1. \A f \in D : got[f] = want[f]
    BY <1>2 DEF Same
  <2>2. [f \in D |-> got[f]] = [f \in D |-> want[f]]
    BY <2>1
  <2> QED BY <1>2, <2>2 DEF Fields
<1>3. CASE but
  <2> DEFINE Bared(g) == [f \in D |-> IF f \in Styled THEN WithoutMeta(g[f]) ELSE g[f]]
  <2>1. \A g : g = [f \in D |-> g[f]] => Bare(g) = Bared(g)
    <3> SUFFICES ASSUME NEW g, g = [f \in D |-> g[f]] PROVE Bare(g) = Bared(g)
      OBVIOUS
    <3> DEFINE a == WithoutMeta(g["region"])
               b == WithoutMeta(g["style"])
               c == WithoutMeta(g["secondary"])
    <3>1. Bare(g) = [g EXCEPT !["region"] = a, !["style"] = b, !["secondary"] = c]
      BY DEF Bare
    <3>2. \A f \in D : Bared(g)[f] = IF f = "region" THEN a ELSE IF f = "style" THEN b
                                    ELSE IF f = "secondary" THEN c ELSE g[f]
      BY <1>1
    <3>3. DOMAIN Bared(g) = D /\ Bared(g) = [f \in D |-> Bared(g)[f]]
      OBVIOUS
    <3> HIDE DEF a, b, c, Bared
    <3>4. [g EXCEPT !["region"] = a, !["style"] = b, !["secondary"] = c] = Bared(g)
      BY <1>1, <3>2, <3>3
    <3> QED BY <3>1, <3>4
  <2>2. \A f \in Styled : WithoutMeta(want[f]) = WithoutMeta(got[f])
    BY <1>3 DEF Same
  <2>3. Bared(got) = Bared(want)
    BY <2>2
  <2> HIDE DEF Bared
  <2> QED BY <1>3, <2>1, <2>3 DEF Fields
<1> QED BY <1>2, <1>3

LEMMA TimesHeard ==
  ASSUME NEW ev \in EventOf, TimesGiven(ev) = 2, NEW t, \A f \in TimeFields : t[f] = ev[f], NEW timebase \in Int
  PROVE  LET start == IF t.t0 >= 0 THEN t.t0 ELSE t.t1 - t.for
         IN /\ timebase + start = timebase + Start(ev)
            /\ timebase + (IF t.t1 >= 0 THEN t.t1 ELSE start + t.for) = timebase + End(ev)
<1> DEFINE given == {f \in TimeFields : ev[f] >= 0}
<1>1. Cardinality(given) = 2
  BY DEF TimesGiven, TimeFields
<1>2. ev.t0 < 0 /\ ev.t1 < 0 => FALSE
  <2>1. SUFFICES ASSUME ev.t0 < 0, ev.t1 < 0 PROVE FALSE
    OBVIOUS
  <2>2. ev.t0 \in Int /\ ev.t1 \in Int
    BY DEF EventOf
  <2>3. given \in SUBSET {"for"}
    BY <2>1, <2>2 DEF TimeFields
  <2> HIDE DEF given
  <2>4. Cardinality({"for"}) = 1 /\ IsFiniteSet({"for"})
    BY FS_Singleton
  <2>5. Cardinality(given) <= 1
    BY <2>3, <2>4, FS_Subset
  <2> QED BY <1>1, <2>5
<1>3. ev.t0 \in Int /\ ev.t1 \in Int /\ ev.for \in Int
  BY DEF EventOf
<1>4. t.t0 = ev.t0 /\ t.t1 = ev.t1 /\ t.for = ev.for
  BY DEF TimeFields
<1>5. Start(ev) = (IF ev.t0 < 0 THEN ev.t1 - ev.for ELSE ev.t0) /\ End(ev) = (IF ev.t1 < 0 THEN ev.t0 + ev.for ELSE ev.t1)
  BY DEF Start, End
<1> QED BY <1>2, <1>3, <1>4, <1>5

(* The overrides as they are encoded.                                        *)
Verbatim == {"mapping", "language", "direction", "markup", "meta"}
EncodedAs(p, pending, enc) ==
  /\ DOMAIN enc = OverFields /\ \A f \in Verbatim : enc[f] = pending[f]
  /\ enc.region = Encoded(p, pending.region, "region")
  /\ enc.style = Encoded(p, pending.style, "style")
  /\ enc.secondary = Encoded(p, pending.secondary, "style")
  /\ \A f \in {"palette", "bitmap"} : enc[f] = Encoded(p, pending[f], f)
  /\ enc.bitmaps = [i \in DOMAIN pending.bitmaps |-> Encoded(p, pending.bitmaps[i], "bitmap")]
  /\ enc.motions = [i \in DOMAIN pending.motions |-> Encoded(p, pending.motions[i], "motion")]

LEMMA EncodedAll ==
  ASSUME NEW p, NEW pending, DOMAIN pending = OverFields
  PROVE  EncodedAs(p, pending, EncodedOver(p, pending))
<1> DEFINE bitmaps == [i \in DOMAIN pending.bitmaps |-> Encoded(p, pending.bitmaps[i], "bitmap")]
           motions == [i \in DOMAIN pending.motions |-> Encoded(p, pending.motions[i], "motion")]
           region == Encoded(p, pending.region, "region")
           style == Encoded(p, pending.style, "style")
           secondary == Encoded(p, pending.secondary, "style")
           palette == Encoded(p, pending.palette, "palette")
           bitmap == Encoded(p, pending.bitmap, "bitmap")
           a == [pending EXCEPT !["region"] = region, !["style"] = style, !["secondary"] = secondary]
           b == [a EXCEPT !["palette"] = palette, !["bitmap"] = bitmap]
           c == [b EXCEPT !["bitmaps"] = bitmaps, !["motions"] = motions]
           D == {"region", "style", "secondary", "palette", "bitmap", "bitmaps", "motions"}
<1>1. EncodedOver(p, pending) = c
  BY DEF EncodedOver, Each
<1>2. D \subseteq OverFields /\ Verbatim \subseteq OverFields \ D
  BY DEF OverFields, Verbatim
<1> HIDE DEF bitmaps, motions, region, style, secondary, palette, bitmap
<1>3. /\ DOMAIN a = OverFields /\ a["region"] = region /\ a["style"] = style /\ a["secondary"] = secondary
      /\ \A f \in OverFields \ D : a[f] = pending[f]
  BY <1>2
<1> HIDE DEF a
<1>4. /\ DOMAIN b = OverFields /\ b["region"] = region /\ b["style"] = style /\ b["secondary"] = secondary
      /\ b["palette"] = palette /\ b["bitmap"] = bitmap /\ \A f \in OverFields \ D : b[f] = pending[f]
  BY <1>2, <1>3
<1> HIDE DEF b
<1>5. /\ DOMAIN c = OverFields /\ c["region"] = region /\ c["style"] = style /\ c["secondary"] = secondary
      /\ c["palette"] = palette /\ c["bitmap"] = bitmap /\ c["bitmaps"] = bitmaps /\ c["motions"] = motions
      /\ \A f \in OverFields \ D : c[f] = pending[f]
  BY <1>2, <1>4
<1> HIDE DEF c, D
<1> USE DEF bitmaps, motions, region, style, secondary, palette, bitmap
<1> QED BY <1>1, <1>2, <1>5 DEF EncodedAs

(* The overrides as they were said, of an event that is not cut short by a   *)
(* keepalive.                                                                *)
Fully(sd) ==
  IF sd.over.style.at = "own" /\ sd.over.secondary.at = "own"
  THEN [sd.over EXCEPT !.style = Own(sd.latest), !.secondary = Own(sd.latest)] ELSE sd.over
FullHas(sd, full) ==
  /\ DOMAIN full = OverFields /\ \A f \in OverFields \ {"style", "secondary"} : full[f] = sd.over[f]
  /\ \A f \in {"style", "secondary"} :
       full[f] = IF sd.over.style.at = "own" /\ sd.over.secondary.at = "own" THEN Own(sd.latest) ELSE sd.over[f]
LEMMA FullyIs == ASSUME NEW sd, Shaped(sd) PROVE FullHas(sd, Fully(sd))
<1> DEFINE over == sd.over
           w == Own(sd.latest)
           twice == over.style.at = "own" /\ over.secondary.at = "own"
<1>1. DOMAIN over = OverFields /\ "style" \in OverFields /\ "secondary" \in OverFields
  BY DEF Shaped, OverFields
<1>2. Fully(sd) = IF twice THEN [over EXCEPT !["style"] = w, !["secondary"] = w] ELSE over
  BY DEF Fully
<1>3. FullHas(sd, Fully(sd)) <=>
        /\ DOMAIN Fully(sd) = OverFields
        /\ \A f \in OverFields \ {"style", "secondary"} : Fully(sd)[f] = over[f]
        /\ \A f \in {"style", "secondary"} : Fully(sd)[f] = IF twice THEN w ELSE over[f]
  BY DEF FullHas
<1> HIDE DEF over, w, twice
<1> QED BY <1>1, <1>2, <1>3

LEMMA StyleFull ==
  ASSUME NEW p, NEW sd, NEW but, NEW slot, NEW other, {slot, other} = {"style", "secondary"}, slot # other,
         StyleHeard(sd, p, but, slot, other), StyleHeard(sd, p, but, other, slot), NEW full, FullHas(sd, full),
         p.pending[slot].at \in {"none", "info", "static"}, p.pending[other].at \in {"none", "info", "static"}
  PROVE  Same(full[slot], Encoded(p, p.pending[slot], "style"), but)
<1>1. sd.over.style = sd.over["style"] /\ sd.over.secondary = sd.over["secondary"]
  OBVIOUS
<1>2. full[slot] = IF sd.over[slot].at = "own" /\ sd.over[other].at = "own" THEN Own(sd.latest) ELSE sd.over[slot]
  BY <1>1 DEF FullHas
<1>3. CASE p.pending[slot].at = "static"
  <2>1. /\ sd.over[slot].at = "own" /\ Same(Own(sd.latest), Encoded(p, p.pending[slot], "style"), but)
        /\ p.pending[other].at # "static" => sd.over[slot] = Own(sd.latest)
    BY <1>3 DEF StyleHeard
  <2>2. p.pending[other].at = "static" => sd.over[other].at = "own"
    BY DEF StyleHeard
  <2>3. full[slot] = Own(sd.latest)
    BY <1>2, <2>1, <2>2
  <2> QED BY <2>1, <2>3
<1>4. CASE p.pending[slot].at # "static"
  <2>1. sd.over[slot] = p.pending[slot] /\ p.pending[slot].at \in {"none", "info"}
    BY <1>4 DEF StyleHeard
  <2>2. Encoded(p, p.pending[slot], "style") = p.pending[slot]
    BY <2>1 DEF Encoded
  <2>3. full[slot] = p.pending[slot]
    BY <1>2, <2>1
  <2> QED BY <2>2, <2>3 DEF Same
<1> QED BY <1>3, <1>4

AsSaid(full, enc, but) ==
  /\ \A f \in OverFields \ Styled : enc[f] = full[f]
  /\ \A f \in Styled : Same(full[f], enc[f], but)

LEMMA FullTold ==
  ASSUME NEW p \in Parsers({<<>>}), NEW sd, NEW but \in BOOLEAN, Heard(sd, p, but),
         NEW kept, kept = [p.pending EXCEPT !.markup = p.event.markup],
         NEW enc, EncodedAs(p, kept, enc), NEW full, FullHas(sd, full)
  PROVE  AsSaid(full, enc, but)
<1> DEFINE pending == p.pending
<1>1. pending \in PendingOf /\ DOMAIN pending = OverFields
  <2>1. pending \in PendingOf
    BY ParserHas
  <2> QED BY <2>1 DEF PendingOf, OverFields
<1>2. kept["markup"] = p.event.markup /\ \A f \in OverFields \ {"markup"} : kept[f] = pending[f]
  <2>1. "markup" \in OverFields
    BY DEF OverFields
  <2> QED BY <1>1, <2>1
<1>3. /\ kept.region = pending.region /\ kept.style = pending.style /\ kept.secondary = pending.secondary
      /\ kept.bitmaps = pending.bitmaps /\ kept.motions = pending.motions
      /\ \A f \in {"palette", "bitmap", "mapping", "language", "direction", "meta"} : kept[f] = pending[f]
  BY <1>2 DEF OverFields
<1>4. /\ PlainHeard(sd, p) /\ OwnsHeard(sd, p) /\ RegionHeard(sd, p, but)
      /\ StyleHeard(sd, p, but, "style", "secondary") /\ StyleHeard(sd, p, but, "secondary", "style")
  BY DEF Heard
<1>5. \A f \in Verbatim : enc[f] = full[f]
  <2>1. \A f \in Verbatim : enc[f] = kept[f] /\ full[f] = sd.over[f]
    BY DEF EncodedAs, FullHas, Verbatim, OverFields
  <2>2. sd.over["markup"] = p.event.markup
        /\ \A f \in {"mapping", "language", "direction", "meta"} : sd.over[f] = pending[f]
    BY <1>4 DEF PlainHeard
  <2>3. \A f \in Verbatim : f = "markup" \/ f \in {"mapping", "language", "direction", "meta"}
    BY DEF Verbatim
  <2>4. \A f \in {"mapping", "language", "direction", "meta"} : kept[f] = pending[f] /\ f \in Verbatim
    BY <1>3 DEF Verbatim
  <2>5. "markup" \in Verbatim
    BY DEF Verbatim
  <2>6. enc["markup"] = full["markup"]
    BY <1>2, <2>1, <2>2, <2>5, Zenon
  <2>7. \A f \in {"mapping", "language", "direction", "meta"} : enc[f] = full[f]
    BY <2>1, <2>2, <2>4, Zenon
  <2> QED BY <2>3, <2>6, <2>7, Zenon
<1>6. \A f \in {"palette", "bitmap"} : enc[f] = full[f]
  <2>1. \A f \in {"palette", "bitmap"} : full[f] = sd.over[f]
    BY DEF FullHas, OverFields
  <2>2. \A f \in {"palette", "bitmap"} : enc[f] = Encoded(p, kept[f], f)
    BY DEF EncodedAs
  <2>3. \A f \in {"palette", "bitmap"} : sd.over[f] = Encoded(p, pending[f], f)
    BY <1>4 DEF OwnsHeard
  <2> QED BY <1>3, <2>1, <2>2, <2>3
<1>7. enc["bitmaps"] = full["bitmaps"] /\ enc["motions"] = full["motions"]
  <2>1. full["bitmaps"] = sd.over.bitmaps /\ full["motions"] = sd.over.motions
    BY DEF FullHas, OverFields
  <2>2. /\ enc.bitmaps = [i \in DOMAIN pending.bitmaps |-> Encoded(p, pending.bitmaps[i], "bitmap")]
        /\ enc.motions = [i \in DOMAIN pending.motions |-> Encoded(p, pending.motions[i], "motion")]
    BY <1>3 DEF EncodedAs
  <2>3. /\ ListHeard(sd.over.bitmaps, pending.bitmaps, p, "bitmap")
        /\ ListHeard(sd.over.motions, pending.motions, p, "motion")
    BY <1>4 DEF OwnsHeard
  <2>4. \A list, items, kind : ListHeard(list, items, p, kind) =>
          list = [i \in DOMAIN items |-> Encoded(p, items[i], kind)]
    BY DEF ListHeard
  <2> QED BY <2>1, <2>2, <2>3, <2>4
<1>8. Same(full["region"], enc["region"], but)
  <2>1. full["region"] = sd.over.region
    BY DEF FullHas, OverFields
  <2> QED BY <1>3, <1>4, <2>1 DEF RegionHeard, EncodedAs
<1>9. Same(full["style"], enc["style"], but) /\ Same(full["secondary"], enc["secondary"], but)
  <2>1. pending["style"].at \in {"none", "info", "static"} /\ pending["secondary"].at \in {"none", "info", "static"}
    BY <1>1, PendingHas
  <2>2. /\ Same(full["style"], Encoded(p, pending["style"], "style"), but)
        /\ Same(full["secondary"], Encoded(p, pending["secondary"], "style"), but)
    BY <1>4, <2>1, StyleFull
  <2> QED BY <1>3, <2>2 DEF EncodedAs
<1>10. \A f \in OverFields \ Styled : f \in Verbatim \/ f \in {"palette", "bitmap"} \/ f = "bitmaps" \/ f = "motions"
  BY DEF OverFields, Styled, Verbatim
<1>11. \A f \in Styled : f = "region" \/ f = "style" \/ f = "secondary"
  BY DEF Styled
<1> QED BY <1>5, <1>6, <1>7, <1>8, <1>9, <1>10, <1>11 DEF AsSaid

(* A keepalive leaves nothing.                                               *)
LEMMA NothingTold ==
  ASSUME NEW p, NEW but, NEW enc, EncodedAs(p, Pending0, enc) PROVE AsSaid(Pending0, enc, but)
<1>1. NoSlot.at = "none"
  BY DEF NoSlot
<1>2. \A kind : Encoded(p, NoSlot, kind) = NoSlot
  BY <1>1 DEF Encoded
<1>3. /\ Pending0["region"] = NoSlot /\ Pending0["style"] = NoSlot /\ Pending0["secondary"] = NoSlot
      /\ Pending0["palette"] = NoSlot /\ Pending0["bitmap"] = NoSlot /\ Pending0["bitmaps"] = <<>>
      /\ Pending0["motions"] = <<>>
  BY DEF Pending0
<1>4. \A f \in OverFields \ Styled : f \in Verbatim \/ f = "palette" \/ f = "bitmap" \/ f = "bitmaps" \/ f = "motions"
  BY DEF OverFields, Styled, Verbatim
<1>5. \A f \in Styled : f = "region" \/ f = "style" \/ f = "secondary"
  BY DEF Styled
<1> HIDE DEF Pending0
<1>6. enc.bitmaps = <<>> /\ enc.motions = <<>>
  BY <1>3 DEF EncodedAs
<1>7. \A f \in {"palette", "bitmap"} : enc[f] = NoSlot
  BY <1>2, <1>3 DEF EncodedAs
<1>8. enc["region"] = NoSlot /\ enc["style"] = NoSlot /\ enc["secondary"] = NoSlot
  BY <1>2, <1>3 DEF EncodedAs
<1>9. \A f \in Verbatim : enc[f] = Pending0[f]
  BY DEF EncodedAs
<1>10. \A a : Same(a, a, but)
  BY DEF Same
<1> QED BY <1>3, <1>4, <1>5, <1>6, <1>7, <1>8, <1>9, <1>10 DEF AsSaid

LEMMA EventTold ==
  ASSUME NEW but \in BOOLEAN, parser \in Parsers({<<>>}), Heard(said, parser, but), TimesGiven(parser.event) = 2,
         NEW keepalive \in BOOLEAN, NEW kept,
         kept = IF keepalive THEN Pending0 ELSE [parser.pending EXCEPT !.markup = parser.event.markup],
         NEW start, NEW end, start = parser.timebase + Start(parser.event), end = parser.timebase + End(parser.event),
         NEW entry, entry = [said |-> said, times |-> SaidTimes, keepalive |-> keepalive]
  PROVE  Told(entry, EncodedEvent(parser, kept, start, end), but)
<1> DEFINE full == Fully(said)
           base == IF keepalive THEN Pending0 ELSE full
           enc == EncodedOver(parser, kept)
           times == [t0 |-> entry.times.start, t1 |-> entry.times.end]
           sent3 == [t0 |-> start, t1 |-> end, text |-> parser.event.text]
           want == Beside(base, times)
           ev == Beside(enc, sent3)
           got == [f \in DOMAIN want |-> ev[f]]
           D == OverFields \cup {"t0", "t1"}
<1>1. /\ parser.pending \in PendingOf /\ parser.event \in EventOf /\ parser.timebase \in Int
      /\ Shaped(said) /\ PlainHeard(said, parser)
  BY ParserHas DEF Heard
<1>2. entry.said = said /\ entry.times = SaidTimes /\ entry.keepalive = keepalive
  OBVIOUS
<1>3. EventSaid(entry) = want
  BY <1>2 DEF EventSaid, Fully
<1>4. EncodedEvent(parser, kept, start, end) = ev
  BY DEF EncodedEvent
<1>5. entry.times.start = start /\ entry.times.end = end
  <2> DEFINE t == said.times
  <2>1. \A f \in TimeFields : t[f] = parser.event[f]
    BY <1>1 DEF PlainHeard, TimeFields
  <2>2. /\ SaidTimes.start = parser.timebase + (IF t.t0 >= 0 THEN t.t0 ELSE t.t1 - t.for)
        /\ SaidTimes.end = parser.timebase + (IF t.t1 >= 0 THEN t.t1
                                              ELSE (IF t.t0 >= 0 THEN t.t0 ELSE t.t1 - t.for) + t.for)
    BY DEF SaidTimes
  <2> HIDE DEF t
  <2> QED BY <1>1, <1>2, <2>1, <2>2, TimesHeard
<1>6. FullHas(said, full)
  BY <1>1, FullyIs
<1>7. DOMAIN kept = OverFields
  BY <1>1 DEF PendingOf, OverFields, Pending0
<1>8. EncodedAs(parser, kept, enc)
  BY <1>7, EncodedAll
<1> HIDE DEF full, enc
<1>9. AsSaid(base, enc, but)
  <2>1. CASE keepalive
    BY <1>8, <2>1, NothingTold
  <2>2. CASE ~keepalive
    <3>1. kept = [parser.pending EXCEPT !.markup = parser.event.markup]
      BY <2>2
    <3>2. AsSaid(full, enc, but)
      BY <1>6, <1>8, <3>1, FullTold
    <3> QED BY <2>2, <3>2
  <2> QED BY <2>1, <2>2
<1>10. DOMAIN base = OverFields /\ DOMAIN enc = OverFields
  <2>1. DOMAIN Pending0 = OverFields
    BY DEF Pending0, OverFields
  <2>2. DOMAIN full = OverFields /\ DOMAIN enc = OverFields
    BY <1>6, <1>8 DEF FullHas, EncodedAs
  <2> HIDE DEF Pending0
  <2> QED BY <2>1, <2>2
<1>11. DOMAIN times = {"t0", "t1"} /\ DOMAIN sent3 = {"t0", "t1", "text"}
       /\ times["t0"] = start /\ times["t1"] = end /\ sent3["t0"] = start /\ sent3["t1"] = end
  BY <1>5
<1> HIDE DEF base, times, sent3
<1>12. "t0" \notin OverFields /\ "t1" \notin OverFields /\ Styled \subseteq D /\ Styled \subseteq OverFields
  BY DEF OverFields, Styled
<1>13. want = [f \in D |-> want[f]] /\ DOMAIN want = D /\ got = [f \in D |-> got[f]]
  BY <1>10, <1>11 DEF Beside
<1>14. \A f \in OverFields : want[f] = base[f] /\ ev[f] = enc[f]
  BY <1>10 DEF Beside
<1>15. want["t0"] = start /\ want["t1"] = end /\ ev["t0"] = start /\ ev["t1"] = end
  BY <1>10, <1>11, <1>12 DEF Beside
<1>16. \A f \in D : got[f] = ev[f]
  BY <1>13
<1> HIDE DEF want, ev, got
<1>17. \A f \in D \ Styled : got[f] = want[f]
  BY <1>9, <1>14, <1>15, <1>16 DEF AsSaid
<1>18. \A f \in Styled : Same(want[f], got[f], but)
  BY <1>9, <1>12, <1>14, <1>16 DEF AsSaid
<1> HIDE DEF D
<1>19. IF but THEN Bare(got) = Bare(want) ELSE got = want
  <2>1. Fields(got, D) /\ Fields(want, D)
    BY <1>13 DEF Fields
  <2> QED BY <1>12, <1>17, <1>18, <2>1, BareSame
<1> QED BY <1>3, <1>4, <1>19 DEF Told, got

-----------------------------------------------------------------------------
(* And so of every event that was sent.                                      *)

LEMMA ListsFirst ==
  ASSUME NEW p, p.pending = Pending0, Bound(p.kstyle, p), Bound(p.kregion, p) PROVE Lists(p)
<1>1. Pending0.palette = NoSlot /\ Pending0.bitmap = NoSlot /\ NoSlot.at = "none"
      /\ DOMAIN Pending0.bitmaps = {} /\ DOMAIN Pending0.motions = {}
  BY DEF Pending0, NoSlot
<1> HIDE DEF Pending0
<1> QED BY <1>1 DEF Lists, Alone

LEMMA AppendEach ==
  ASSUME NEW s, s \in Seq(Range(s)), NEW e
  PROVE  /\ Len(s) \in Nat /\ Len(Append(s, e)) = Len(s) + 1
         /\ DOMAIN Append(s, e) = 1 .. Len(s) + 1 /\ DOMAIN s = 1 .. Len(s)
         /\ Append(s, e)[Len(s) + 1] = e /\ \A i \in 1 .. Len(s) : Append(s, e)[i] = s[i]
<1> DEFINE S == Range(s) \cup {e}
           t == Append(s, e)
<1>1. s \in Seq(S) /\ e \in S
  <2> DEFINE R == Range(s)
  <2>1. R \subseteq S /\ s \in Seq(R) /\ e \in S
    OBVIOUS
  <2> HIDE DEF R, S
  <2> QED BY <2>1
<1> HIDE DEF S
<1> QED BY <1>1

LEMMA AllToldMore ==
  ASSUME AllTold, Logged, shared' = shared, NEW entry, NEW e, Told(entry, e, shared),
         saidlog' = Append(saidlog, entry), sent' = Append(sent, e)
  PROVE  AllTold'
<1> DEFINE m == Len(saidlog)
<1>1. saidlog \in Seq(Range(saidlog)) /\ sent \in Seq(Range(sent)) /\ Len(sent) = m
  BY DEF Logged, AllTold
<1>2. /\ m \in Nat /\ Len(saidlog') = m + 1 /\ DOMAIN saidlog' = 1 .. m + 1 /\ DOMAIN saidlog = 1 .. m
      /\ saidlog'[m + 1] = entry /\ \A i \in 1 .. m : saidlog'[i] = saidlog[i]
  BY <1>1, AppendEach
<1>3. Len(sent') = m + 1 /\ sent'[m + 1] = e /\ \A i \in 1 .. m : sent'[i] = sent[i]
  <2> DEFINE n == Len(sent)
  <2>1. /\ Len(sent') = n + 1 /\ sent'[n + 1] = e /\ \A i \in 1 .. n : sent'[i] = sent[i]
    BY <1>1, AppendEach
  <2>2. n = m
    BY <1>1
  <2> QED BY <2>1, <2>2
<1>4. \A n \in 1 .. m : Told(saidlog[n], sent[n], shared)
  BY <1>2 DEF AllTold
<1> HIDE DEF m
<1>5. \A n \in DOMAIN saidlog' : Told(saidlog'[n], sent'[n], shared')
  <2> SUFFICES ASSUME NEW n \in 1 .. m + 1 PROVE Told(saidlog'[n], sent'[n], shared')
    BY <1>2
  <2>1. CASE n = m + 1
    BY <1>2, <1>3, <2>1
  <2>2. CASE n \in 1 .. m
    BY <1>2, <1>3, <1>4, <2>2
  <2>3. n = m + 1 \/ n \in 1 .. m
    BY <1>2
  <2> QED BY <2>1, <2>2, <2>3
<1> QED BY <1>2, <1>3, <1>5 DEF AllTold

(* The end of an event in which nothing is wrong.                            *)
Closing(kept, start, end, due) ==
  /\ ~parser.wrong /\ TimesGiven(parser.event) = 2 /\ due \in BOOLEAN
  /\ start = parser.timebase + Start(parser.event) /\ end = parser.timebase + End(parser.event)
  /\ kept = IF due THEN Pending0 ELSE [parser.pending EXCEPT !.markup = parser.event.markup]
  /\ parser' = Turned(parser, "events", Event0, Pending0)
  /\ sent' = Append(sent, EncodedEvent(parser, kept, start, end))
  /\ saidlog' = Append(saidlog, [said |-> said, times |-> SaidTimes, keepalive |-> due])

LEMMA EndCloses ==
  ASSUME loose' \in BOOLEAN, loose => loose', NEW x, Ready(x, ~loose'), ~Unreadable(x), EndEvent(x)
  PROVE  /\ parser.phase = "event" /\ parser'.phase # "defs" /\ x.do = "end" /\ Defs /\ UNCHANGED header
         /\ ~parser'.wrong => \E kept, start, end, due : Closing(kept, start, end, due)
<1> DEFINE ok == ~loose'
           ev == parser.event
           c == TimesGiven(ev) # 2
           p == ErrIf(c, parser)
           start == p.timebase + Start(ev)
           end == p.timebase + End(ev)
           set == [p.pending EXCEPT !.markup = ev.markup]
           due == Due(start)
           kept == IF due THEN Pending0 ELSE set
           entry == [said |-> said, times |-> SaidTimes, keepalive |-> due]
           e == EncodedEvent(p, kept, start, end)
           q == parser'
<1>1. parser \in Parsers({<<>>}) /\ ok \in BOOLEAN /\ Starts(parser, ok)
  BY ReadyIs DEF Ready, Parsing
<1>2. x.do = "end" /\ parser.phase = "event"
  <2>1. x.do = "end"
    BY DEF EndEvent
  <2> QED BY <2>1, PlaceIs DEF Place, Slots
<1>4. Defs /\ UNCHANGED header
  BY DEF EndEvent
<1>5. \/ UsesFreed(kept) /\ Read(Crashed(p))
      \/ /\ Read([[p EXCEPT !.phase = "events", !.event = Event0] EXCEPT !.pending = Pending0])
         /\ sent' = Append(sent, e)
         /\ saidlog' = IF p.wrong THEN saidlog ELSE Append(saidlog, entry)
      \/ Read([Err([p EXCEPT !.phase = "events", !.event = Event0]) EXCEPT !.pending = LocalsFreed(kept)])
  BY DEF EndEvent
<1> HIDE DEF ok, c
<1>6. p \in Parsers({<<>>}) /\ (parser.wrong => p.wrong) /\ (~p.wrong => p = parser)
  <2>1. p \in Parsers({<<>>}) /\ Reads(parser, p)
    BY <1>1, ErrIfIs
  <2>2. ~p.wrong => p = parser
    BY <1>1, ErrIfWrong
  <2> QED BY <2>1, <2>2 DEF Reads, Moves
<1>7. ~p.wrong => TimesGiven(ev) = 2
  <2>1. c => p.wrong
    <3>1. c => p = Err(parser)
      BY DEF ErrIf
    <3> HIDE DEF p
    <3> QED BY <1>1, <3>1, ErrIs
  <2> QED BY <2>1 DEF c
<1>8. due \in BOOLEAN
  BY DEF Due, Tried, InOrder
<1> HIDE DEF p
<1>12. ~p.wrong => ~UsesFreed(kept)
  <2> SUFFICES ASSUME ~p.wrong PROVE ~UsesFreed(kept)
    OBVIOUS
  <2>1. p = parser /\ PendingFits(parser.pending, ok)
    BY <1>1, <1>6 DEF Starts, Fine
  <2>2. parser.pending \in PendingOf
    BY <1>1, ParserHas
  <2>3. kept.bitmaps = <<>> \/ kept.bitmaps = parser.pending.bitmaps
    <3>1. Pending0.bitmaps = <<>>
      BY DEF Pending0
    <3>2. set.bitmaps = parser.pending.bitmaps
      BY <2>1, <2>2 DEF PendingOf
    <3> HIDE DEF set, Pending0
    <3> QED BY <3>1, <3>2
  <2> HIDE DEF kept
  <2> QED BY <2>1, <2>3 DEF UsesFreed, PendingFits, SlotFits
<1>9. q.phase # "defs" /\ (~q.wrong => ~p.wrong /\ ~parser.wrong /\ ~UsesFreed(kept))
      /\ (~q.wrong => /\ q = Turned(p, "events", Event0, Pending0) /\ sent' = Append(sent, e)
                      /\ saidlog' = Append(saidlog, entry))
  <2>1. CASE UsesFreed(kept) /\ Read(Crashed(p))
    <3>1. q = [Crashed(p) EXCEPT !.v = <<>>]
      BY <2>1 DEF Read
    <3>2. q.phase = "crashed" /\ q.wrong = p.wrong
      BY <1>6, <3>1 DEF Crashed, Parsers
    <3> QED BY <1>12, <2>1, <3>2
  <2>2. CASE /\ Read([[p EXCEPT !.phase = "events", !.event = Event0] EXCEPT !.pending = Pending0])
             /\ sent' = Append(sent, e)
             /\ saidlog' = IF p.wrong THEN saidlog ELSE Append(saidlog, entry)
    <3>1. q = Turned(p, "events", Event0, Pending0)
      BY <2>2 DEF Read, Turned
    <3>2. q.phase = "events" /\ q.wrong = p.wrong
      BY <1>6, <3>1 DEF Turned, Parsers
    <3>3. ~p.wrong => saidlog' = Append(saidlog, entry)
      BY <2>2
    <3> QED BY <1>6, <1>12, <2>2, <3>1, <3>2, <3>3
  <2>3. CASE Read([Err([p EXCEPT !.phase = "events", !.event = Event0]) EXCEPT !.pending = LocalsFreed(kept)])
    <3> DEFINE freed == LocalsFreed(kept)
               z == [p EXCEPT !.phase = "events", !.event = Event0]
               y == [z EXCEPT !.wrong = TRUE]
    <3>1. z.phase = "events" /\ DOMAIN z = DOMAIN p /\ {"phase", "wrong", "pending", "v"} \subseteq DOMAIN p
      BY <1>6 DEF Parsers
    <3>2. q = [[y EXCEPT !.pending = freed] EXCEPT !.v = <<>>]
      BY <2>3 DEF Read, Err
    <3> HIDE DEF z, freed
    <3>3. y.phase = "events" /\ y.wrong = TRUE /\ DOMAIN y = DOMAIN p
      BY <3>1
    <3> HIDE DEF y
    <3>4. q.phase = "events" /\ q.wrong = TRUE
      BY <3>1, <3>2, <3>3
    <3> QED BY <3>4
  <2> QED BY <1>5, <2>1, <2>2, <2>3
<1>10. ASSUME ~q.wrong PROVE Closing(kept, start, end, due)
  <2>1. ~parser.wrong /\ p = parser /\ TimesGiven(ev) = 2
    BY <1>6, <1>7, <1>9, <1>10
  <2>2. start = parser.timebase + Start(parser.event) /\ end = parser.timebase + End(parser.event)
    BY <2>1
  <2>3. kept = IF due THEN Pending0 ELSE [parser.pending EXCEPT !.markup = parser.event.markup]
    BY <2>1
  <2>4. /\ q = Turned(parser, "events", Event0, Pending0) /\ sent' = Append(sent, EncodedEvent(parser, kept, start, end))
        /\ saidlog' = Append(saidlog, [said |-> said, times |-> SaidTimes, keepalive |-> due])
    BY <1>9, <1>10, <2>1
  <2> HIDE DEF kept, start, end, due, q
  <2> QED BY <1>8, <2>1, <2>2, <2>3, <2>4 DEF Closing, q
<1> HIDE DEF kept, start, end, due
<1> QED BY <1>2, <1>4, <1>9, <1>10 DEF q

LEMMA EndRetold ==
  ASSUME Logged, shared \in BOOLEAN, loose' \in BOOLEAN, loose => loose', NEW x,
         Ready(x, ~loose'), Retold, Listen(x), ~Unreadable(x), EndEvent(x)
  PROVE  Retold'
<1> DEFINE q == parser'
<1>1. /\ parser.phase = "event" /\ q.phase # "defs" /\ x.do = "end" /\ Defs /\ UNCHANGED header
      /\ ~q.wrong => \E kept, start, end, due : Closing(kept, start, end, due)
  BY EndCloses
<1>2. parser \in Parsers({<<>>})
  BY DEF Ready, Parsing
<1>3. shared' = shared
  BY <1>1, NotShared DEF Slots
<1> HIDE DEF q
<1>4. ASSUME ~q.wrong, names' = declared' PROVE Intact(parser, said, shared)' /\ AllTold'
  <2>1. PICK kept, start, end, due : Closing(kept, start, end, due)
    BY <1>1, <1>4
  <2> DEFINE entry == [said |-> said, times |-> SaidTimes, keepalive |-> due]
             e == EncodedEvent(parser, kept, start, end)
  <2>2. /\ ~parser.wrong /\ TimesGiven(parser.event) = 2 /\ due \in BOOLEAN
        /\ start = parser.timebase + Start(parser.event) /\ end = parser.timebase + End(parser.event)
        /\ kept = IF due THEN Pending0 ELSE [parser.pending EXCEPT !.markup = parser.event.markup]
        /\ q = Turned(parser, "events", Event0, Pending0)
        /\ sent' = Append(sent, e) /\ saidlog' = Append(saidlog, entry)
    BY <2>1 DEF Closing, q
  <2>3. Intact(parser, said, shared) /\ AllTold
    BY <1>1, <1>4, <2>2 DEF Retold, Defs
  <2>4. Lists(parser) /\ HeaderHeld(parser, shared) /\ Heard(said, parser, shared) /\ header # <<>>
    BY <1>1, <2>3 DEF Intact
  <2>5. /\ q.phase = "events" /\ q.pending = Pending0 /\ q.metas = parser.metas
        /\ q.kstyle = parser.kstyle /\ q.kregion = parser.kregion
    BY <1>2, <2>2 DEF Turned, Parsers
  <2>6. Bound(q.kstyle, q) /\ Bound(q.kregion, q)
    BY <2>4, <2>5 DEF Lists, Bound
  <2>7. Lists(q) /\ HeaderHeld(q, shared)
    BY <2>4, <2>5, <2>6, ListsFirst, HeaderHeldStill
  <2>8. Intact(q, said', shared')
    BY <1>1, <1>3, <2>4, <2>5, <2>7 DEF Intact
  <2>9. Intact(parser, said, shared)'
    BY <1>1, <2>8, IntactNext DEF q
  <2>10. Told(entry, e, shared)
    <3>1. entry = [said |-> said, times |-> SaidTimes, keepalive |-> due]
      OBVIOUS
    <3> HIDE DEF entry
    <3> QED BY <1>2, <2>2, <2>4, <3>1, EventTold
  <2> HIDE DEF entry, e
  <2>11. AllTold'
    BY <1>3, <2>2, <2>3, <2>10, AllToldMore
  <2> QED BY <2>9, <2>11
<1> QED BY <1>1, <1>4 DEF Retold, q

LEMMA RetoldInit == Init => Retold
<1> SUFFICES ASSUME Init PROVE Retold
  OBVIOUS
<1>1. saidlog = <<>> /\ sent = <<>> /\ header = <<>> /\ parser.phase = "defs" /\ parser.pending = Pending0
      /\ parser.kstyle = Style0 /\ parser.kregion = Region0 /\ parser.metas = <<>>
  BY DEF Init
<1>2. Style0.meta = 0 /\ Region0.meta = 0
  BY DEF Style0, Region0
<1>3. Lists(parser)
  <2>1. Bound(parser.kstyle, parser) /\ Bound(parser.kregion, parser)
    BY <1>1, <1>2 DEF Bound
  <2> QED BY <1>1, <2>1, ListsFirst
<1>4. Intact(parser, said, shared)
  BY <1>1, <1>3 DEF Intact, HeaderHeld
<1>5. AllTold
  BY <1>1 DEF AllTold
<1> QED BY <1>1, <1>4, <1>5 DEF Retold

(* A step reads a statement of the grammar, or loses one.                    *)
LEMMA StepIs ==
  ASSUME Reading, [Next]_vars
  PROVE  \/ UNCHANGED vars
         \/ \E x \in Grammar : Handled(x) /\ Listen(x) /\ Going(parser)
         \/ \E x : Lose(x)
<1> SUFFICES ASSUME Next
             PROVE  (\E x \in Grammar : Handled(x) /\ Listen(x) /\ Going(parser)) \/ (\E x : Lose(x))
  OBVIOUS
<1>1. PICK block \in Given : Going(parser) /\ (Understood(Head(block)) \/ Lose(Head(block)))
  BY DEF Next
<1>2. block \in Seq(Grammar) \ {<<>>}
  BY <1>1, GivenIs
<1>3. Head(block) \in Grammar
  BY <1>2
<1>4. ASSUME Understood(Head(block)) PROVE \E x \in Grammar : Handled(x) /\ Listen(x) /\ Going(parser)
  <2>1. PICK heard \in Readings(Head(block)) : Handled(heard) /\ Listen(heard)
    BY <1>4 DEF Understood
  <2>2. heard \in Grammar
    BY <1>3, GrammarHeard
  <2> QED BY <1>1, <2>1, <2>2
<1> QED BY <1>1, <1>4

LEMMA RetoldStill ==
  ASSUME Retold, shared \in BOOLEAN, UNCHANGED <<info, names, declared, parser, header, sent, said, saidlog, shared>>
  PROVE  Retold'
<1>1. Intact(parser, said, shared) => Intact(parser, said, shared)'
  BY IntactNext DEF Defs
<1>2. AllTold => AllTold'
  BY AllToldStill
<1> QED BY <1>1, <1>2 DEF Retold

LEMMA RetoldStep == IInv /\ Retold /\ [Next]_vars => Retold'
<1> SUFFICES ASSUME IInv, Retold, [Next]_vars PROVE Retold'
  OBVIOUS
<1>0. Reading /\ Books /\ Headed /\ Logged /\ Parsing /\ shared \in BOOLEAN /\ loose \in BOOLEAN
  BY DEF IInv, Reading
<1>1. CASE UNCHANGED vars
  <2>1. UNCHANGED <<info, names, declared, parser, header, sent, said, saidlog, shared>>
    BY <1>1 DEF vars
  <2> QED BY <1>0, <2>1, RetoldStill
<1>3. ASSUME NEW z, Lose(z) PROVE Retold'
  <2>1. UNCHANGED <<info, names, declared, parser, header, sent, said, saidlog, shared>>
    BY <1>3 DEF Lose, Defs, Events
  <2> QED BY <1>0, <2>1, RetoldStill
<1>2. ASSUME NEW x \in Grammar, Handled(x), Listen(x), Going(parser) PROVE Retold'
  <2>1. Going(parser)
    BY <1>2
  <2>3. x \in Grammar /\ Handled(x) /\ Listen(x)
    BY <1>2
  <2>4. loose' = (loose \/ LooseIn(x))
    BY <2>3 DEF Listen
  <2>5. loose' \in BOOLEAN /\ (loose => loose')
    <3>1. (loose \/ LooseIn(x)) \in BOOLEAN
      OBVIOUS
    <3> QED BY <2>4, <3>1
  <2>6. Ready(x, ~loose')
    BY <1>0, <2>1, <2>3, <2>4, <2>5 DEF Ready
  <2>7. CASE SyntaxError(x)
    BY <1>0, <2>3, <2>5, <2>6, <2>7, SyntaxRetold
  <2>8. CASE ~Unreadable(x) /\ Statement(x)
    BY <1>0, <2>3, <2>5, <2>6, <2>8, StatementRetold
  <2>9. CASE ~Unreadable(x) /\ Define(x)
    BY <1>0, <2>3, <2>5, <2>6, <2>9, DefineRetold
  <2>10. CASE ~Unreadable(x) /\ Headers(x)
    BY <1>0, <2>3, <2>5, <2>6, <2>10, HeadersRetold
  <2>11. CASE ~Unreadable(x) /\ EndEvent(x)
    BY <1>0, <2>3, <2>5, <2>6, <2>11, EndRetold
  <2>12. \/ SyntaxError(x)
         \/ ~Unreadable(x) /\ (Statement(x) \/ Define(x) \/ Headers(x) \/ EndEvent(x))
    BY <2>3, Zenon DEF Handled, Statement
  <2> QED BY <2>7, <2>8, <2>9, <2>10, <2>11, <2>12
<1> QED BY <1>0, <1>1, <1>2, <1>3, StepIs

LEMMA RetoldStands == Retold => EventsStandAlone
<1> SUFFICES ASSUME Retold, ~parser.wrong, names = declared
             PROVE  \A n \in DOMAIN saidlog \ spoilt : Told(saidlog[n], sent[n], shared)
  BY DEF EventsStandAlone, Told
<1> QED BY DEF Retold, AllTold

(* Unless an error was told, or a name was spoilt, every event whose tags and*)
(* words the lexer did not move its buffer under is sent with what its own   *)
(* statements say and nothing of the events before it, whatever became of    *)
(* their tags and words, but for what EventsStandAlone names: whatever the   *)
(* statements are and in whatever order, though the encoder points into the  *)
(* static variables of the parser and into the headers, and a derived item   *)
(* shares its list of metadata.                                              *)
THEOREM EventsStandAloneAlways == Spec => []EventsStandAlone
<1>1. Init => IInv /\ Retold
  BY InitIs, RetoldInit
<1>2. IInv /\ Retold /\ [Next]_vars => IInv' /\ Retold'
  BY NextIs, RetoldStep
<1>3. Retold => EventsStandAlone
  BY RetoldStands
<1> QED BY <1>1, <1>2, <1>3, PTL DEF Spec

-----------------------------------------------------------------------------
(* A karaoke body, as it is read and as it is said.                          *)

Mark == [glyph : Int, at : Int, motion : Int]
Tune == [at : Int, words : Seq(Word), pieces : Seq(Piece), marks : Seq(Mark)]
Apart(p, q) ==
  /\ ~p.wrong /\ q.phase = p.phase /\ q.pending.motions = p.pending.motions
  /\ \A f \in TimeFields : q.event[f] = p.event[f]
(* Where the motion is, the text that was reached, and the marks that were   *)
(* said of it, which are the nth motion's.                                   *)
Sits(q, h) == SumSeq(q.v.durations) = h.at /\ Hears(q.event.text, h.words, h.pieces)
OnMark(v, m, n) == m.motion = n /\ ReachedAt(v, m.glyph, m.at)
InTune(p, q, h, n) ==
  ~q.wrong =>
    /\ Apart(p, q) /\ Sits(q, h)
    /\ \A m \in Range(h.marks) : m \in Range(said.marks) \/ OnMark(q.v, m, n)
(* One step of both.                                                         *)
Steps2(q, r, h, g, n) ==
  ~r.wrong =>
    /\ ~q.wrong /\ Apart(q, r) /\ (Sits(q, h) => Sits(r, g))
    /\ \A k, t : ReachedAt(q.v, k, t) => ReachedAt(r.v, k, t)
    /\ Sits(q, h) => \A m \in Range(g.marks) : m \in Range(h.marks) \/ OnMark(r.v, m, n)

LEMMA TuneOn ==
  ASSUME NEW p, NEW q, NEW r, NEW h, NEW g, NEW n, InTune(p, q, h, n), Steps2(q, r, h, g, n)
  PROVE  InTune(p, r, g, n)
<1> SUFFICES ASSUME ~r.wrong
             PROVE  /\ Apart(p, r) /\ Sits(r, g)
                    /\ \A m \in Range(g.marks) : m \in Range(said.marks) \/ OnMark(r.v, m, n)
  BY DEF InTune
<1>1. ~q.wrong /\ Apart(q, r) /\ Apart(p, q) /\ Sits(q, h) /\ Sits(r, g)
  BY DEF InTune, Steps2
<1>2. Apart(p, r)
  BY <1>1 DEF Apart
<1>3. ASSUME NEW m \in Range(g.marks) PROVE m \in Range(said.marks) \/ OnMark(r.v, m, n)
  <2>1. m \in Range(h.marks) \/ OnMark(r.v, m, n)
    BY <1>1 DEF Steps2
  <2>2. m \in Range(h.marks) => m \in Range(said.marks) \/ OnMark(q.v, m, n)
    BY <1>1 DEF InTune
  <2>3. OnMark(q.v, m, n) => OnMark(r.v, m, n)
    BY DEF OnMark, Steps2
  <2> QED BY <2>1, <2>2, <2>3
<1> QED BY <1>1, <1>2, <1>3

LEMMA MarkByIs ==
  ASSUME NEW a \in Tune, NEW s \in MarkerForm \cup MorphForm, NEW n \in Int
  PROVE  MarkBy(a, s, n) \in Tune
<1> DEFINE at == IF s.set # "pause" /\ s.absolute THEN s.time ELSE a.at + s.time
           words == IF s.set = "words" THEN a.words \o s.text ELSE a.words
           pieces == IF s.set = "words" THEN Append(a.pieces, [words |-> s.text, how |-> "raw"]) ELSE a.pieces
           glyph == IF s.set = "glyph" THEN s.glyph ELSE GlyphCount(Expanded(Backslashed(words))) - 1
           m == [glyph |-> glyph, at |-> at, motion |-> n]
<1>1. /\ s.set \in {"pointer", "heights", "pause", "styles", "glyph", "words"}
      /\ s.set \in {"pause", "glyph", "words"} => s.time \in Int
      /\ s.set = "glyph" => s.glyph \in Int
      /\ s.set = "words" => s.text \in Seq(Word)
  BY KaraokeFormsAre, SpeltIs
<1>2. a.at \in Int /\ a.words \in Seq(Word) /\ a.pieces \in Seq(Piece) /\ a.marks \in Seq(Mark)
  BY DEF Tune
<1>11. pieces \in Seq(Piece)
  <2>1. s.set = "words" => [words |-> s.text, how |-> "raw"] \in Piece
    BY <1>1 DEF Piece
  <2> QED BY <1>2, <2>1
<1>3. words \in Seq(Word)
  <2>1. s.set = "words" => a.words \o s.text \in Seq(Word)
    BY <1>1, <1>2
  <2> QED BY <1>2, <2>1
<1>4. /\ MarkBy(a, s, n) = CASE s.set = "pause" -> [a EXCEPT !.at = at]
                             [] s.set \in {"glyph", "words"} ->
                                  [at |-> at, words |-> words, pieces |-> pieces, marks |-> Append(a.marks, m)]
                             [] OTHER -> a
  BY DEF MarkBy
<1>5. s.set = "glyph" \/ glyph \in Int
  <2> HIDE DEF words
  <2>1. Backslashed(words) \in Seq(Word)
    BY <1>3, BackslashedIs
  <2>2. Expanded(Backslashed(words)) \in Seq(Word)
    BY <2>1, ExpandedIs
  <2>3. GlyphCount(Expanded(Backslashed(words))) - 1 \in Int
    BY <2>2, GlyphCountIs
  <2> QED BY <2>3
<1>6. s.set = "glyph" => glyph \in Int
  BY <1>1
<1>7. s.set \in {"pause", "glyph", "words"} => at \in Int
  BY <1>1, <1>2
<1> HIDE DEF at, words, pieces, glyph
<1>8. CASE s.set = "pause"
  <2>1. MarkBy(a, s, n) = [a EXCEPT !.at = at]
    BY <1>4, <1>8
  <2> QED BY <1>7, <1>8, <2>1 DEF Tune
<1>9. CASE s.set \in {"glyph", "words"}
  <2>1. MarkBy(a, s, n) = [at |-> at, words |-> words, pieces |-> pieces, marks |-> Append(a.marks, m)]
    BY <1>4, <1>9
  <2>2. m \in Mark
    BY <1>5, <1>6, <1>7, <1>9 DEF Mark
  <2> HIDE DEF m
  <2>3. Append(a.marks, m) \in Seq(Mark)
    BY <1>2, <2>2
  <2> QED BY <1>3, <1>7, <1>9, <1>11, <2>1, <2>3 DEF Tune
<1>10. CASE s.set \in {"pointer", "heights", "styles"}
  BY <1>4, <1>10
<1> QED BY <1>1, <1>8, <1>9, <1>10

(* The styles of a morph, whatever their names are.                          *)
Still(p, r) ==
  /\ ~p.wrong /\ r.v = p.v /\ r.event.text = p.event.text /\ Apart(p, r)

LEMMA SlottedStill ==
  ASSUME NEW V, NEW p \in Parsers(V), NEW slot \in Slots, NEW w \in SlotTypes(slot), ~p.wrong
  PROVE  Still(p, Slotted(p, slot, w))
<1> DEFINE r == Slotted(p, slot, w)
<1>1. SlottedSo(p, r, slot, w)
  BY SlottedIs
<1> HIDE DEF r
<1>2. \A f \in TimeFields : r.event[f] = p.event[f]
  BY <1>1 DEF SlottedSo, Plain4, TimeFields
<1>3. r.pending.motions = p.pending.motions
  <2>1. p.pending \in PendingOf /\ r.pending = [p.pending EXCEPT ![slot] = w] /\ slot # "motions"
    BY <1>1, ParserHas DEF SlottedSo, Slots
  <2> QED BY <2>1 DEF PendingOf
<1> QED BY <1>1, <1>2, <1>3 DEF SlottedSo, Still, Apart, r

LEMMA StillBoth == ASSUME NEW p, NEW q, NEW r, Still(p, q), Still(q, r) PROVE Still(p, r)
BY DEF Still, Apart

LEMMA IndexStill ==
  ASSUME NEW p, NEW ok \in BOOLEAN, NEW q \in Steps(KaraokeVal, p, ok), NEW slot \in Slots, NEW i \in Int,
         p \in Parsers(KaraokeVal), InTable(KindOf(slot), i),
         NEW r, r = SetIndex(q, slot, KindOf(slot), i), ~r.wrong
  PROVE  r \in Steps(KaraokeVal, p, ok) /\ Still(q, r)
<1> DEFINE w == InInfo(i)
           kind == KindOf(slot)
<1>1. q \in Parsers(KaraokeVal)
  BY DEF Steps
<1>2. r \in Steps(KaraokeVal, p, ok)
  BY SetIndexIs
<1>3. r = Slotted(q, slot, w) /\ ~q.wrong
  <2> HIDE DEF kind
  <2>1. r = SetIndex(q, slot, kind, i) /\ ~SetIndex(q, slot, kind, i).wrong
    BY DEF kind
  <2>2. SetIndex(q, slot, kind, i) = Slotted(q, slot, InInfo(i)) /\ ~q.wrong
    BY <1>1, <2>1, SetIndexHas
  <2> QED BY <2>1, <2>2
<1>4. w \in SlotTypes(slot)
  BY DEF SlotTypes, InInfo, InfoSlot
<1> HIDE DEF w
<1> QED BY <1>1, <1>2, <1>3, <1>4, SlottedStill

LEMMA MorphStill ==
  ASSUME NEW p0, NEW ok \in BOOLEAN, Starts(p0, ok), NEW p \in Steps(KaraokeVal, p0, ok),
         NEW s, s.ref \in Reference, s.ref2 \in Reference, NEW t, t = MorphStyles(p, s), ~t.wrong
  PROVE  Still(p, t)
<1> DEFINE c == \E r \in {s.ref, s.ref2} : Missing("style", r)
           q == ErrIf(c, p)
           i == Found("style", s.ref)
           j == Found("style", s.ref2)
           r == SetIndex(q, "style", KindOf("style"), i)
<1>1. p0 \in Parsers({<<>>}) /\ Tables /\ p \in Parsers(KaraokeVal)
  BY DEF Starts, ItemsHold, Steps
<1>2. /\ i \in Int /\ (~Missing("style", s.ref) => InTable("style", i))
      /\ j \in Int /\ (~Missing("style", s.ref2) => InTable("style", j))
  BY <1>1, FoundIs, KindsAre
<1>3. t = IF p.event.set["style"] THEN Err(q) ELSE SetIndex(r, "secondary", KindOf("secondary"), j)
  BY DEF MorphStyles, KindOf
<1>4. c \/ (~Missing("style", s.ref) /\ ~Missing("style", s.ref2))
  OBVIOUS
<1> HIDE DEF c, i, j
<1>5. q \in Parsers(KaraokeVal) /\ (~q.wrong => ~c /\ q = p)
  BY <1>1, ErrIfIs, ErrIfWrong
<1> HIDE DEF q
<1>6. "style" \in Slots /\ "secondary" \in Slots /\ KindOf("style") = "style" /\ KindOf("secondary") = "style"
  BY DEF Slots, KindOf
<1>7. t = SetIndex(r, "secondary", KindOf("secondary"), j)
  BY <1>3, <1>5, ErrIs
<1>8. q \in Steps(KaraokeVal, q, ok)
  <2>1. q \in Steps(KaraokeVal, p0, ok)
    BY <1>1, ErrSteps DEF q
  <2>2. Reads(q, q)
    BY <1>5, ReadsItself
  <2> QED BY <2>1, <2>2 DEF Steps, Reads
<1>9. ~q.wrong => InTable("style", i) /\ InTable("style", j)
  BY <1>2, <1>4, <1>5
<1>10. r \in Steps(KaraokeVal, q, ok)
  BY <1>2, <1>5, <1>6, <1>8, <1>9, SetIndexIs
<1>11. ~r.wrong
  <2>1. r \in Parsers(KaraokeVal)
    BY <1>10 DEF Steps
  <2> DEFINE slot == "secondary"
             kind == KindOf("secondary")
  <2> HIDE DEF r
  <2>2. t = SetIndex(r, slot, kind, j) /\ slot \in Slots
    BY <1>6, <1>7
  <2> HIDE DEF slot, kind
  <2>3. ~SetIndex(r, slot, kind, j).wrong
    BY <2>2
  <2> QED BY <2>1, <2>2, <2>3, SetIndexHas
<1>12. ~q.wrong
  <2> DEFINE slot == "style"
             kind == KindOf("style")
  <2>1. ~SetIndex(q, slot, kind, i).wrong /\ slot \in Slots
    BY <1>6, <1>11
  <2> HIDE DEF slot, kind
  <2> QED BY <1>5, <2>1, SetIndexHas
<1> HIDE DEF r
<1>13. r = SetIndex(q, "style", KindOf("style"), i)
  BY DEF r
<1>14. Still(q, r)
  BY <1>2, <1>5, <1>6, <1>8, <1>9, <1>11, <1>12, <1>13, IndexStill
<1>15. Still(r, t)
  BY <1>2, <1>5, <1>6, <1>7, <1>9, <1>10, <1>12, IndexStill
<1> QED BY <1>5, <1>12, <1>14, <1>15, StillBoth

LEMMA StillTune ==
  ASSUME NEW q, NEW r, NEW h, NEW n, ~r.wrong => Still(q, r)
  PROVE  Steps2(q, r, h, h, n)
BY DEF Still, Steps2, Sits

LEMMA ValueTune ==
  ASSUME NEW q \in Parsers(KaraokeVal), NEW w, w.curves = q.v.curves, w.durations = q.v.durations,
         NEW r, r = [q EXCEPT !.v = w], NEW h, NEW n
  PROVE  Steps2(q, r, h, h, n)
<1>1. /\ r.wrong = q.wrong /\ r.v = w /\ r.phase = q.phase /\ r.pending = q.pending /\ r.event = q.event
  BY DEF Parsers
<1>2. \A k, t : ReachedAt(q.v, k, t) => ReachedAt(r.v, k, t)
  BY <1>1 DEF ReachedAt
<1> QED BY <1>1, <1>2 DEF Steps2, Apart, Sits

Lands(q, r, h, g, n) ==
  ~r.wrong =>
    /\ ~q.wrong /\ Apart(q, r) /\ r.event = q.event
    /\ \A k, t : ReachedAt(q.v, k, t) => ReachedAt(r.v, k, t)
    /\ SumSeq(q.v.durations) = h.at =>
         /\ SumSeq(r.v.durations) = g.at
         /\ \A m \in Range(g.marks) : m \in Range(h.marks) \/ OnMark(r.v, m, n)

(* A transition puts a mark where the motion then is.                        *)
LEMMA TransitionTune ==
  ASSUME NEW U, NEW p0 \in Parsers(U), NEW ok \in BOOLEAN, NEW q \in Steps(KaraokeVal, p0, ok),
         NEW glyph \in Int, NEW s, s.time \in Int, NEW morph, NEW h \in Tune, NEW g, NEW n,
         g.at = IF s.absolute THEN s.time ELSE h.at + s.time,
         g.marks = Append(h.marks, [glyph |-> glyph, at |-> g.at, motion |-> n]),
         NEW r, r = Transition(q, glyph, s, morph)
  PROVE  Lands(q, r, h, g, n)
<1> DEFINE d == IF s.absolute THEN s.time - SumSeq(q.v.durations) ELSE s.time
           m == [glyph |-> glyph, at |-> g.at, motion |-> n]
<1>1. Went(q, r, d) /\ Arrives(r, glyph)
  BY TransitionWent
<1> SUFFICES ASSUME ~r.wrong
             PROVE  /\ ~q.wrong /\ Apart(q, r) /\ r.event = q.event
                    /\ \A k, t : ReachedAt(q.v, k, t) => ReachedAt(r.v, k, t)
                    /\ SumSeq(q.v.durations) = h.at =>
                         /\ SumSeq(r.v.durations) = g.at
                         /\ \A e \in Range(g.marks) : e \in Range(h.marks) \/ OnMark(r.v, e, n)
  BY DEF Lands
<1>2. /\ ~q.wrong /\ r.phase = q.phase /\ r.pending = q.pending /\ r.event = q.event
      /\ SumSeq(r.v.durations) = SumSeq(q.v.durations) + d
      /\ ReachedAt(r.v, glyph, SumSeq(r.v.durations))
  BY <1>1 DEF Went, Arrives
<1>3. \A k, t : ReachedAt(q.v, k, t) => ReachedAt(r.v, k, t)
  BY <1>1 DEF Went
<1>4. Apart(q, r)
  BY <1>2 DEF Apart
<1>5. ASSUME SumSeq(q.v.durations) = h.at
      PROVE  /\ SumSeq(r.v.durations) = g.at
             /\ \A e \in Range(g.marks) : e \in Range(h.marks) \/ OnMark(r.v, e, n)
  <2>1. h.at \in Int /\ h.marks \in Seq(Mark)
    BY DEF Tune
  <2>2. SumSeq(r.v.durations) = g.at
    BY <1>2, <1>5, <2>1
  <2>3. OnMark(r.v, m, n)
    BY <1>2, <2>2 DEF OnMark
  <2> HIDE DEF m
  <2>4. g.marks = Append(h.marks, m)
    BY DEF m
  <2>5. \A e \in Range(g.marks) : e \in Range(h.marks) \/ e = m
    BY <2>1, <2>4 DEF Range
  <2> QED BY <2>2, <2>3, <2>5
<1> QED BY <1>2, <1>3, <1>4, <1>5

LEMMA TuneStep ==
  ASSUME NEW p0, NEW ok \in BOOLEAN, Starts(p0, ok), NEW q \in Steps(KaraokeVal, p0, ok),
         NEW s \in MarkerForm \cup MorphForm, NEW morph, NEW r, r = KaraokeSet(q, s, morph),
         NEW h \in Tune, NEW n \in Int
  PROVE  Steps2(q, r, h, MarkBy(h, s, n), n)
<1> DEFINE g == MarkBy(h, s, n)
           at == IF s.absolute THEN s.time ELSE h.at + s.time
<1>1. p0 \in Parsers({<<>>}) /\ q \in Parsers(KaraokeVal) /\ q.v \in KaraokeVal /\ q.event \in EventOf
  BY ParserHas DEF Starts, Steps
<1>2. CASE s.set = "pointer"
  <2> DEFINE w == [q.v EXCEPT !.semantics = s.name]
  <2>1. w.curves = q.v.curves /\ w.durations = q.v.durations
    BY <1>1 DEF KaraokeVal, MotionOf
  <2>2. r = [q EXCEPT !.v = w]
    BY <1>1, <1>2 DEF KaraokeSet, Parsers
  <2>3. g = h
    BY <1>2 DEF MarkBy
  <2> HIDE DEF w, g
  <2>4. Steps2(q, r, h, h, n)
    BY <1>1, <2>1, <2>2, ValueTune
  <2> QED BY <2>3, <2>4 DEF g
<1>3. CASE s.set = "heights"
  <2> DEFINE w == s.list
  <2>1. r = [q EXCEPT !.heights = w]
    BY <1>3 DEF KaraokeSet
  <2>2. g = h
    BY <1>3 DEF MarkBy
  <2> HIDE DEF w, g
  <2>3. ~r.wrong => Still(q, r)
    BY <1>1, <2>1 DEF Still, Apart, Parsers
  <2> QED BY <2>2, <2>3, StillTune DEF g
<1>4. CASE s.set = "pause"
  <2>1. r = Pause(q, s.time, FALSE) /\ g = [h EXCEPT !.at = h.at + s.time] /\ s.time \in Int
    BY <1>4, KaraokeFormsAre DEF KaraokeSet, MarkBy
  <2>2. Went(q, r, s.time)
    BY <1>1, <2>1, PauseWent
  <2>3. g.at = h.at + s.time /\ g.words = h.words /\ g.pieces = h.pieces /\ g.marks = h.marks
    BY <2>1 DEF Tune
  <2> HIDE DEF g
  <2>4. ~r.wrong => Apart(q, r)
    BY <2>2 DEF Went, Apart
  <2>5. ~r.wrong /\ Sits(q, h) => Sits(r, g)
    BY <2>2, <2>3 DEF Sits, Went
  <2>6. Steps2(q, r, h, g, n)
    BY <2>2, <2>3, <2>4, <2>5 DEF Steps2, Went
  <2> QED BY <2>6 DEF g
<1>5. CASE s.set = "styles"
  <2>1. r = MorphStyles(q, s) /\ s.ref \in Reference /\ s.ref2 \in Reference
    BY <1>5, KaraokeFormsAre DEF KaraokeSet
  <2>2. g = h
    BY <1>5 DEF MarkBy
  <2> HIDE DEF g
  <2>3. ~r.wrong => Still(q, r)
    BY <2>1, MorphStill
  <2> QED BY <2>2, <2>3, StillTune DEF g
<1>6. CASE s.set = "glyph"
  <2> DEFINE glyph == s.glyph
  <2>1. r = Transition(q, glyph, s, morph) /\ glyph \in Int /\ s.time \in Int
    BY <1>6, KaraokeFormsAre DEF KaraokeSet
  <2>2. g = [at |-> at, words |-> h.words, pieces |-> h.pieces,
             marks |-> Append(h.marks, [glyph |-> glyph, at |-> at, motion |-> n])]
    BY <1>6 DEF MarkBy
  <2>3. /\ g.at = at /\ g.words = h.words /\ g.pieces = h.pieces
        /\ g.marks = Append(h.marks, [glyph |-> glyph, at |-> g.at, motion |-> n])
    BY <2>2
  <2> HIDE DEF g, glyph
  <2>4. Sits(q, h) => Hears(q.event.text, g.words, g.pieces)
    BY <2>3 DEF Sits
  <2>5. Lands(q, r, h, g, n)
    BY <1>1, <2>1, <2>3, TransitionTune
  <2>6. Steps2(q, r, h, g, n)
    BY <2>4, <2>5 DEF Steps2, Sits, Lands
  <2> QED BY <2>6 DEF g
<1>7. CASE s.set = "words"
  <2> DEFINE text == Expanded(Backslashed(q.event.text \o s.text))
             said2 == Expanded(Backslashed(h.words \o s.text))
             words == h.words \o s.text
             pieces == Append(h.pieces, [words |-> s.text, how |-> "raw"])
             w == [q.event EXCEPT !.text = text, !.hasText = TRUE]
             u == [q EXCEPT !.event = w]
             glyph == GlyphCount(text) - 1
             glyph2 == GlyphCount(said2) - 1
  <2>1. /\ s.text \in Seq(Word) /\ s.time \in Int /\ q.event.text \in Seq(Word) /\ h.words \in Seq(Word)
        /\ h.pieces \in Seq(Piece)
    BY <1>1, <1>7, KaraokeFormsAre, SpeltIs DEF EventOf, Tune
  <2>2. r.wrong \/ r = Transition([q EXCEPT !.event.text = text, !.event.hasText = TRUE], glyph, s, morph)
    <3>1. r = Words(q, s, morph)
      BY <1>7 DEF KaraokeSet
    <3> QED BY <1>1, <3>1, WordsOnly
  <2>3. g = [at |-> at, words |-> words, pieces |-> pieces,
             marks |-> Append(h.marks, [glyph |-> glyph2, at |-> at, motion |-> n])]
    BY <1>7 DEF MarkBy
  <2>4. Hears(q.event.text, h.words, h.pieces) => text = said2 /\ Hears(text, words, pieces)
    BY <2>1, WordsHeard
  <2>5. text \in Seq(Word) /\ said2 \in Seq(Word)
    <3>1. q.event.text \o s.text \in Seq(Word) /\ h.words \o s.text \in Seq(Word)
      BY <2>1
    <3> QED BY <3>1, BackslashedIs, ExpandedIs
  <2> HIDE DEF text, said2, words, pieces
  <2>6. glyph \in Int /\ (text = said2 => glyph = glyph2)
    BY <2>5, GlyphCountIs
  <2>7. [q EXCEPT !.event.text = text, !.event.hasText = TRUE] = u
    BY <1>1 DEF Parsers, EventOf
  <2>8. w \in EventOf /\ w.text = text /\ \A f \in TimeFields : w[f] = q.event[f]
    BY <1>1, <2>5 DEF EventOf, TimeFields
  <2> HIDE DEF w, glyph, glyph2, g
  <2>9. u \in Steps(KaraokeVal, p0, ok)
    BY <1>1, <2>8, EventSteps
  <2>10. /\ u.event = w /\ u.v = q.v /\ u.wrong = q.wrong /\ u.phase = q.phase /\ u.pending = q.pending
    BY <1>1 DEF Parsers
  <2> DEFINE g2 == [at |-> at, words |-> words, pieces |-> pieces,
                    marks |-> Append(h.marks, [glyph |-> glyph, at |-> at, motion |-> n])]
  <2>11. /\ g2.at = at /\ g2.words = words /\ g2.pieces = pieces
         /\ g2.marks = Append(h.marks, [glyph |-> glyph, at |-> g2.at, motion |-> n])
    OBVIOUS
  <2> HIDE DEF u
  <2>13. r.wrong \/ r = Transition(u, glyph, s, morph)
    BY <2>2, <2>7
  <2>14. Sits(q, h) => g = g2
    BY <2>3, <2>4, <2>6 DEF Sits
  <2> HIDE DEF g2, at
  <2>15. g2.at = IF s.absolute THEN s.time ELSE h.at + s.time
    BY <2>11 DEF at
  <2>16. ~r.wrong => Lands(u, r, h, g2, n)
    BY <1>1, <2>1, <2>6, <2>9, <2>11, <2>13, <2>15, TransitionTune
  <2>17. ~r.wrong => Apart(q, r)
    BY <2>8, <2>10, <2>16 DEF Lands, Apart
  <2>18. ~r.wrong /\ Sits(q, h) => Sits(r, g)
    BY <2>4, <2>8, <2>10, <2>11, <2>14, <2>16 DEF Lands, Sits
  <2>19. ~r.wrong /\ Sits(q, h) => \A m \in Range(g.marks) : m \in Range(h.marks) \/ OnMark(r.v, m, n)
    BY <2>10, <2>11, <2>14, <2>16 DEF Lands, Sits
  <2>20. Steps2(q, r, h, g, n)
    BY <2>10, <2>16, <2>17, <2>18, <2>19 DEF Lands, Steps2
  <2> QED BY <2>20 DEF g
<1> QED BY <1>2, <1>3, <1>4, <1>5, <1>6, <1>7, KaraokeFormsAre

Heard0 == [at |-> 0, words |-> said.words, pieces |-> said.pieces, marks |-> said.marks]
MarksOfStays(S, G, motion, body) ==
  /\ Heard0 \in S /\ body \in Seq(G)
  /\ \A q \in S : \A k \in 1 .. Len(body) : MarkBy(q, body[k], motion) \in S
LEMMA MarksOfGoes ==
  ASSUME NEW S, NEW G, NEW motion \in Int, NEW body, MarksOfStays(S, G, motion, body)
  PROVE  \E at \in [0 .. Len(body) -> S] :
           /\ at[0] = Heard0 /\ MarksOf(body, motion) = at[Len(body)]
           /\ \A k \in 1 .. Len(body) : at[k] = MarkBy(at[k - 1], body[k], motion)
<1>0. /\ Heard0 \in S /\ body \in Seq(G)
      /\ \A q \in S : \A k \in 1 .. Len(body) : MarkBy(q, body[k], motion) \in S
  BY DEF MarksOfStays
<1> DEFINE n == Len(body)
           F == [j \in (1 .. n) \X S |-> MarkBy(j[2], body[j[1]], motion)]
           Runs(g) == g = [k \in 0 .. n |-> IF k = 0 THEN Heard0 ELSE MarkBy(g[k - 1], body[k], motion)]
           at == CHOOSE g : Runs(g)
<1>1. n \in Nat /\ F \in [(1 .. n) \X S -> S]
  BY <1>0
<1>2. \A k \in 1 .. n : \A q \in S : F[<<k, q>>] = MarkBy(q, body[k], motion)
  BY <1>0
<1>3. MarksOf(body, motion) = at[n]
  BY DEF MarksOf, Heard0
<1> HIDE DEF n, F
<1>4. PICK f \in [0 .. n -> S] : Goes(f, n, Heard0, F)
  BY <1>0, <1>1, LoopGoes
<1>5. Runs(f)
  <2>1. ASSUME NEW k \in 1 .. n PROVE f[k] = MarkBy(f[k - 1], body[k], motion)
    <3>1. k - 1 \in 0 .. n /\ f[k - 1] \in S
      BY <1>1
    <3> QED BY <1>2, <1>4, <3>1 DEF Goes
  <2>2. \A k \in 0 .. n : f[k] = IF k = 0 THEN Heard0 ELSE MarkBy(f[k - 1], body[k], motion)
    BY <1>1, <1>4, <2>1 DEF Goes
  <2> QED BY <1>4, <2>2
<1>6. Runs(at)
  BY <1>5
<1> HIDE DEF at
<1>7. at[0] = Heard0 /\ \A k \in 1 .. n : at[k] = MarkBy(at[k - 1], body[k], motion)
  BY <1>1, <1>6
<1>8. \A k \in 0 .. n : at[k] \in S
  <2>1. \A k \in 1 .. n : at[k - 1] \in S => at[k] = F[<<k, at[k - 1]>>]
    BY <1>2, <1>7
  <2>2. at[0] = Heard0
    BY <1>7
  <2> QED BY <1>0, <1>1, <2>1, <2>2, LoopStays
<1>9. at \in [0 .. n -> S]
  BY <1>6, <1>8
<1> QED BY <1>0, <1>3, <1>7, <1>9 DEF n

LEMMA BodyTuned ==
  ASSUME NEW p0, NEW ok \in BOOLEAN, Starts(p0, ok), NEW p \in Steps(KaraokeVal, p0, ok),
         NEW body \in Seq(MarkerForm \cup MorphForm), NEW morph, NEW n \in Int,
         said.words \in Seq(Word), said.pieces \in Seq(Piece), said.marks \in Seq(Mark),
         ~p.wrong => SumSeq(p.v.durations) = 0 /\ Hears(p.event.text, said.words, said.pieces)
  PROVE  /\ KaraokeBody(p, body, morph) \in Steps(KaraokeVal, p0, ok)
         /\ MarksOf(body, n) \in Tune
         /\ InTune(p, KaraokeBody(p, body, morph), MarksOf(body, n), n)
<1> DEFINE S == Steps(KaraokeVal, p0, ok)
           N == Len(body)
<1>0. \A k \in 1 .. Len(body) : body[k] \in MarkerForm \cup MorphForm
  OBVIOUS
<1>1. ASSUME NEW r \in S, NEW k \in 1 .. Len(body) PROVE KaraokeStep(r, body[k], morph) \in S
  <2>1. body[k] \in MarkerForm \cup MorphForm
    BY <1>0
  <2>2. KaraokeSet(r, body[k], morph) \in S
    BY <2>1, KaraokeSetIs
  <2> QED BY <2>2 DEF KaraokeStep
<1> HIDE DEF S
<1>2. p \in S
  BY DEF S
<1>3. KaraokeBodyStays(S, MarkerForm \cup MorphForm, p, morph, body)
  BY <1>1, <1>2 DEF KaraokeBodyStays
<1>4. PICK at \in [0 .. N -> S] :
        /\ at[0] = p /\ KaraokeBody(p, body, morph) = at[N]
        /\ \A k \in 1 .. N : at[k] = KaraokeStep(at[k - 1], body[k], morph)
  BY <1>3, KaraokeBodyGoes
<1>5. Heard0 \in Tune
  BY DEF Tune, Heard0
<1>6. MarksOfStays(Tune, MarkerForm \cup MorphForm, n, body)
  <2>1. \A q \in Tune : \A k \in 1 .. Len(body) : MarkBy(q, body[k], n) \in Tune
    BY <1>0, MarkByIs
  <2> QED BY <1>5, <2>1 DEF MarksOfStays
<1>7. PICK heard \in [0 .. N -> Tune] :
        /\ heard[0] = Heard0 /\ MarksOf(body, n) = heard[N]
        /\ \A k \in 1 .. N : heard[k] = MarkBy(heard[k - 1], body[k], n)
  BY <1>6, MarksOfGoes
<1> DEFINE So == {k \in 0 .. N : InTune(p, at[k], heard[k], n)}
<1>8. N \in Nat /\ 0 \in 0 .. N /\ N \in 0 .. N
  OBVIOUS
<1>9. 0 \in So
  <2>1. Heard0.at = 0 /\ Heard0.words = said.words /\ Heard0.pieces = said.pieces /\ Heard0.marks = said.marks
    BY DEF Heard0
  <2> HIDE DEF Heard0
  <2>2. InTune(p, p, Heard0, n)
    BY <2>1 DEF InTune, Apart, Sits
  <2> QED BY <1>4, <1>7, <1>8, <2>2
<1>10. ASSUME NEW k \in 1 .. N, k - 1 \in So PROVE k \in So
  <2> DEFINE q == at[k - 1]
             r == at[k]
             h == heard[k - 1]
             g == heard[k]
             s == body[k]
  <2>1. k - 1 \in 0 .. N /\ k \in 0 .. N /\ s \in MarkerForm \cup MorphForm
    BY <1>0, <1>8
  <2>2. q \in S /\ h \in Tune
    BY <2>1
  <2>3. InTune(p, q, h, n) /\ r = KaraokeStep(q, s, morph) /\ g = MarkBy(h, s, n)
    BY <1>4, <1>7, <1>10
  <2> HIDE DEF q, r, h, g, s
  <2>4. q \in Steps(KaraokeVal, p0, ok)
    BY <2>2 DEF S
  <2>5. r = KaraokeSet(q, s, morph) \/ r.wrong
    <3>1. Going(q) \/ q.wrong
      BY <2>4 DEF Starts, Steps, Moves, Going
    <3> QED BY <2>3, <3>1 DEF KaraokeStep
  <2>6. InTune(p, r, g, n)
    <3>1. CASE r = KaraokeSet(q, s, morph)
      <4>1. Steps2(q, r, h, g, n)
        BY <2>1, <2>2, <2>3, <2>4, <3>1, TuneStep
      <4> QED BY <2>3, <4>1, TuneOn
    <3>2. CASE r.wrong
      BY <3>2 DEF InTune
    <3> QED BY <2>5, <3>1, <3>2
  <2> QED BY <2>1, <2>6 DEF r, g
<1> HIDE DEF So
<1>11. \A k \in 0 .. N : k \in So
  BY <1>8, <1>9, <1>10, UpTo
<1>12. N \in So /\ at[N] \in S /\ heard[N] \in Tune
  BY <1>8, <1>11
<1> QED BY <1>4, <1>7, <1>12 DEF So, S

-----------------------------------------------------------------------------
(* The marks that were said of an event, while it is read: where each one    *)
(* is, and that its motion lasts as long as the event unless there are too   *)
(* many times.                                                               *)

Timed3(ev) == ev.t0 >= 0 /\ ev.t1 >= 0 /\ ev.for >= 0
Lasting(ev, km) ==
  Timed3(ev) \/ (TimesGiven(ev) = 2 /\ SumSeq(km.durations) = End(ev) - Start(ev))
MarkHeld(m, motions, ev) ==
  /\ m.motion \in DOMAIN motions /\ motions[m.motion].at = "own"
  /\ ReachedAt(motions[m.motion].own, m.glyph, m.at) /\ Lasting(ev, motions[m.motion].own)
Score(sd) ==
  /\ Shaped(sd) /\ sd.words \in Seq(Word) /\ sd.pieces \in Seq(Piece)
  /\ sd.marks \in Seq(Mark) /\ sd.over.motions \in Seq(Range(sd.over.motions))
Playing(p, sd) ==
  /\ Score(sd) /\ Len(sd.over.motions) = Len(p.pending.motions)
  /\ Hears(p.event.text, sd.words, sd.pieces)
  /\ \A m \in Range(sd.marks) : MarkHeld(m, p.pending.motions, p.event)

(* What leaves it so, in the parser and in what is said.                     *)
Calm(p, r) == r.event.text = p.event.text /\ Apart(p, r)
Unsung(sd, sd2) ==
  /\ DOMAIN sd2 = DOMAIN sd /\ DOMAIN sd2.over = DOMAIN sd.over /\ DOMAIN sd2.times = DOMAIN sd.times
  /\ sd2.words = sd.words /\ sd2.pieces = sd.pieces /\ sd2.marks = sd.marks

LEMMA LastingSame ==
  ASSUME NEW ev, NEW ev2, \A f \in TimeFields : ev2[f] = ev[f], NEW km, Lasting(ev, km)
  PROVE  Lasting(ev2, km)
<1>1. ev2.t0 = ev.t0 /\ ev2.t1 = ev.t1 /\ ev2.for = ev.for
  BY DEF TimeFields
<1>2. {f \in {"t0", "t1", "for"} : ev2[f] >= 0} = {f \in {"t0", "t1", "for"} : ev[f] >= 0}
  BY <1>1
<1>3. TimesGiven(ev2) = TimesGiven(ev)
  BY <1>2 DEF TimesGiven
<1>4. Start(ev2) = Start(ev) /\ End(ev2) = End(ev)
  BY <1>1, <1>3 DEF Start, End
<1> QED BY <1>1, <1>3, <1>4 DEF Lasting, Timed3

LEMMA PlayingStill ==
  ASSUME NEW p, NEW q, NEW sd, NEW sd2, Playing(p, sd), Calm(p, q), Unsung(sd, sd2),
         sd2.over.motions = sd.over.motions
  PROVE  Playing(q, sd2)
<1>1. \A f \in TimeFields : q.event[f] = p.event[f]
  BY DEF Calm, Apart
<1>2. q.pending.motions = p.pending.motions /\ q.event.text = p.event.text
  BY DEF Calm, Apart
<1>3. Score(sd2)
  BY DEF Playing, Score, Shaped, Unsung
<1>4. \A km : Lasting(p.event, km) => Lasting(q.event, km)
  BY <1>1, LastingSame
<1>5. \A m \in Range(sd2.marks) : MarkHeld(m, q.pending.motions, q.event)
  BY <1>2, <1>4 DEF Playing, MarkHeld, Unsung
<1> QED BY <1>2, <1>3, <1>5 DEF Playing, Unsung

(* One motion more.                                                          *)
LEMMA AppendRanges ==
  ASSUME NEW over, over \in Seq(Range(over)), NEW w2
  PROVE  LET more == Append(over, w2) IN Len(more) = Len(over) + 1 /\ more \in Seq(Range(more))
<1> DEFINE R == Range(over) \cup {w2}
           more == Append(over, w2)
<1>1. /\ Len(over) \in Nat /\ Len(more) = Len(over) + 1 /\ DOMAIN more = 1 .. Len(over) + 1
  BY AppendEach
<1>2. over \in Seq(R) /\ w2 \in R
  <2>1. Range(over) \subseteq R
    OBVIOUS
  <2> HIDE DEF R
  <2>2. over \in Seq(R)
    BY <2>1, WiderIs
  <2> QED BY <2>2 DEF R
<1> HIDE DEF R
<1>3. more \in Seq(R)
  BY <1>2
<1> HIDE DEF more
<1>4. more \in Seq(Range(more))
  <2> DEFINE T == Range(more)
  <2>1. more = [i \in 1 .. Len(more) |-> more[i]] /\ Len(more) \in Nat
    BY <1>3
  <2>2. \A i \in 1 .. Len(more) : more[i] \in T
    BY <1>3 DEF Range
  <2> HIDE DEF T
  <2> QED BY <2>1, <2>2 DEF T
<1> QED BY <1>1, <1>4 DEF more

LEMMA PlayingMore ==
  ASSUME NEW p, NEW q, NEW sd, NEW sd2, Playing(p, sd), NEW S, p.pending.motions \in Seq(S), NEW w \in S, NEW w2,
         q.event.text = p.event.text, \A f \in TimeFields : q.event[f] = p.event[f],
         q.pending.motions = Append(p.pending.motions, w), Unsung(sd, sd2),
         sd2.over.motions = Append(sd.over.motions, w2)
  PROVE  Playing(q, sd2)
<1> DEFINE motions == p.pending.motions
           new == Append(motions, w)
           over == sd.over.motions
           more == Append(over, w2)
<1>1. /\ new \in Seq(S) /\ Len(new) = Len(motions) + 1
      /\ \A i \in DOMAIN motions : i \in DOMAIN new /\ new[i] = motions[i]
  BY AppendHas
<1>2. over \in Seq(Range(over)) /\ Len(over) = Len(motions)
  BY DEF Playing, Score
<1>3. Len(more) = Len(over) + 1 /\ more \in Seq(Range(more))
  BY <1>2, AppendRanges
<1> HIDE DEF more, new
<1>4. q.pending.motions = new /\ sd2.over.motions = more
  BY DEF new, more
<1>5. Score(sd2)
  BY <1>3, <1>4 DEF Playing, Score, Shaped, Unsung
<1>6. \A km : Lasting(p.event, km) => Lasting(q.event, km)
  BY LastingSame
<1>7. \A m : MarkHeld(m, motions, p.event) => MarkHeld(m, new, q.event)
  BY <1>1, <1>6 DEF MarkHeld
<1>8. \A m \in Range(sd2.marks) : MarkHeld(m, q.pending.motions, q.event)
  BY <1>4, <1>7 DEF Playing, Unsung
<1> QED BY <1>1, <1>2, <1>3, <1>4, <1>5, <1>8 DEF Playing, Unsung

-----------------------------------------------------------------------------
(* The statements that set something else.                                   *)

LEMMA StillCalm == ASSUME NEW p, NEW r, Still(p, r) PROVE Calm(p, r)
BY DEF Still, Calm

LEMMA CalmBoth == ASSUME NEW p, NEW q, NEW r, Calm(p, q), Calm(q, r) PROVE Calm(p, r)
BY DEF Calm, Apart

LEMMA ErrIfCalm ==
  ASSUME NEW V, NEW p \in Parsers(V), NEW c, ~ErrIf(c, p).wrong PROVE Calm(p, ErrIf(c, p))
<1>1. ErrIf(c, p) = p /\ ~p.wrong
  BY ErrIfIs, ErrIfWrong
<1> QED BY <1>1 DEF Calm, Apart

(* An item was read, and is put in the parser's overrides.                   *)
LEMMA ItemCalm ==
  ASSUME NEW U, NEW p0 \in Parsers(U), NEW kind \in AllKinds, NEW ok, NEW p \in ItemOf(kind, p0, ok), ~p.wrong
  PROVE  Calm(p0, p) /\ p.phase = p0.phase
BY DEF ItemOf, Moves, Aside, Calm, Apart

LEMMA OwnCalm ==
  ASSUME NEW p0, NEW ok \in BOOLEAN, Starts(p0, ok), NEW slot \in Slots,
         NEW p \in ItemOf(KindOf(slot), p0, ok), NEW r, r = OwnRead(p, slot), ~r.wrong
  PROVE  Calm(p0, r)
<1> DEFINE kind == KindOf(slot)
           w == IF kind \in {"style", "region"} THEN Static(slot) ELSE Own(p.v)
<1>1. p0 \in Parsers({<<>>}) /\ Going(p0) /\ kind \in AllKinds /\ p \in Parsers(Val(kind))
  BY KindOfIs DEF Starts, ItemOf
<1>2. p.v \in Val(kind)
  BY <1>1, ParserHas
<1>3. w \in SlotTypes(slot)
  <2>1. CASE kind \in {"style", "region"}
    <3>1. w = Static(slot) /\ slot \in {"region", "style", "secondary"}
      BY <2>1 DEF KindOf, Slots
    <3> QED BY <3>1 DEF Static, SlotTypes, StaticSlot
  <2>2. CASE kind \notin {"style", "region"}
    <3>1. w = Own(p.v) /\ slot \in {"palette", "bitmap"} /\ kind = slot
      BY <2>2 DEF KindOf, Slots
    <3> QED BY <1>2, <3>1, ValsAre DEF Own, SlotTypes, OwnSlot
  <2> QED BY <2>1, <2>2
<1>4. r = IF ~Going(p) THEN p ELSE SetOwn(p, slot, w)
  BY DEF OwnRead
<1> HIDE DEF w, kind
<1>5. Going(p) \/ p.wrong
  BY <1>1 DEF ItemOf, Moves, Going
<1>6. r = SetOwn(p, slot, w)
  BY <1>4, <1>5
<1>7. ~SetOwn(p, slot, w).wrong
  BY <1>6
<1>8. SetOwn(p, slot, w) = Slotted(p, slot, w) /\ ~p.wrong
  BY <1>1, <1>7, SetOwnHas
<1>9. Calm(p0, p)
  BY <1>1, <1>8, ItemCalm DEF kind
<1>10. Still(p, r)
  BY <1>1, <1>3, <1>6, <1>8, SlottedStill
<1> QED BY <1>9, <1>10, StillCalm, CalmBoth

LEMMA SlotCalm ==
  ASSUME NEW p0, NEW ok \in BOOLEAN, Starts(p0, ok), NEW x, x.do \in Slots,
         x.ref # NoRef => x.ref \in Reference,
         Says(KindOf(x.do), ok, x.body), NEW r, r = SlotRead(p0, x), ~r.wrong
  PROVE  Calm(p0, r)
<1> DEFINE slot == x.do
           ref == x.ref
           kind == KindOf(slot)
           derives == ref # NoRef
           c == derives /\ Missing(kind, ref)
           q == ErrIf(c, p0)
           z1 == ItemFrom(kind, q, Item(kind, ref), x.body)
           z2 == ItemFrom(kind, q, Initial(kind), x.body)
<1> HIDE DEF c
<1>1. p0 \in Parsers({<<>>}) /\ Going(p0) /\ Fine(p0, ok) /\ ItemsHold(p0, ok) /\ Tables
  BY DEF Starts, ItemsHold
<1>2. p0 \in Steps({<<>>}, p0, ok)
  BY StartsItself
<1>3. q \in Parsers({<<>>}) /\ Reads(p0, q) /\ (~q.wrong => ~c /\ q = p0)
  BY <1>1, ErrIfIs, ErrIfWrong
<1>4. kind \in AllKinds
  BY KindOfIs
<1>5. r = CASE derives /\ ~x.braces -> SetIndex(q, slot, kind, Found(kind, ref))
            [] derives /\ x.braces /\ OutOf(kind, ref) -> Crashed(q)
            [] OTHER -> OwnRead(IF derives THEN z1 ELSE z2, slot)
  BY DEF SlotRead, c
<1> HIDE DEF q
<1>6. CASE derives /\ ~x.braces
  <2> DEFINE i == Found(kind, ref)
  <2>1. i \in Int /\ (~Missing(kind, ref) => InTable(kind, i))
    BY <1>1, <1>4, <1>6, FoundIs
  <2>2. r = SetIndex(q, slot, kind, i)
    BY <1>5, <1>6
  <2> HIDE DEF i
  <2>3. ~SetIndex(q, slot, kind, i).wrong
    BY <2>2
  <2> HIDE DEF kind
  <2>4. SetIndex(q, slot, kind, i) = Slotted(q, slot, InInfo(i)) /\ ~q.wrong
    BY <1>3, <2>3, SetIndexHas
  <2>5. q = p0 /\ InTable(kind, i)
    BY <1>3, <1>6, <2>1, <2>4 DEF c
  <2>6. InInfo(i) \in SlotTypes(slot)
    BY <2>1 DEF SlotTypes, InInfo, InfoSlot
  <2>7. Still(p0, Slotted(p0, slot, InInfo(i)))
    BY <1>1, <2>4, <2>5, <2>6, SlottedStill
  <2> QED BY <2>2, <2>4, <2>5, <2>7, StillCalm
<1>7. CASE derives /\ x.braces /\ OutOf(kind, ref)
  <2>1. c
    BY <1>1, <1>4, <1>7, FoundIs DEF c
  <2>2. q.wrong
    BY <1>3, <2>1, ParserHas
  <2>3. r.wrong
    BY <1>3, <1>5, <1>7, <2>2 DEF Crashed, Parsers
  <2> QED BY <2>3
<1>8. CASE derives /\ x.braces /\ ~OutOf(kind, ref)
  <2>1. [q EXCEPT !.v = Item(kind, ref)] \in ReadingOf(kind, p0, ok)
    BY <1>1, <1>3, <1>4, <1>8, ItemIs
  <2>2. z1 \in ItemOf(kind, p0, ok)
    BY <1>1, <1>4, <2>1, ItemFromIs
  <2>3. r = OwnRead(z1, slot)
    BY <1>5, <1>8
  <2> HIDE DEF z1
  <2> QED BY <2>2, <2>3, OwnCalm
<1>9. CASE ~derives
  <2>1. [q EXCEPT !.v = Initial(kind)] \in ReadingOf(kind, p0, ok)
    BY <1>1, <1>3, <1>4, InitialIs
  <2>2. z2 \in ItemOf(kind, p0, ok)
    BY <1>1, <1>4, <2>1, ItemFromIs
  <2>3. r = OwnRead(z2, slot)
    BY <1>5, <1>9
  <2> HIDE DEF z2
  <2> QED BY <2>2, <2>3, OwnCalm
<1> QED BY <1>6, <1>7, <1>8, <1>9

LEMMA BitmapCalm ==
  ASSUME NEW V, NEW p \in Parsers(V), NEW w, NEW r, r = AddBitmap(p, w), ~r.wrong
  PROVE  Calm(p, r)
<1> DEFINE list == Append(p.pending.bitmaps, w)
           pe == [p.pending EXCEPT !.bitmaps = list]
<1>1. r = [p EXCEPT !.pending = pe]
  BY DEF AddBitmap
<1>2. p.pending \in PendingOf
  BY ParserHas
<1> HIDE DEF list
<1>3. pe.motions = p.pending.motions
  BY <1>2 DEF PendingOf
<1> HIDE DEF pe
<1> QED BY <1>1, <1>3 DEF Calm, Apart, Parsers

LEMMA LocalCalm ==
  ASSUME NEW p0, NEW ok \in BOOLEAN, Starts(p0, ok), NEW x, x.ref # NoRef => x.ref \in Reference,
         Says("bitmap", ok, x.body), NEW r, r = LocalRead(p0, x), ~r.wrong
  PROVE  Calm(p0, r)
<1> DEFINE ref == x.ref
           c == Missing("bitmap", ref)
           q == ErrIf(c, p0)
           i == Found("bitmap", ref)
           z == ItemFrom("bitmap", p0, Bitmap0, x.body)
           slot == [at |-> "local", index |-> -1, own |-> z.v, freed |-> FALSE]
<1>1. p0 \in Parsers({<<>>}) /\ Going(p0) /\ Fine(p0, ok) /\ ItemsHold(p0, ok) /\ "bitmap" \in AllKinds
  BY KindsAre DEF Starts, ItemsHold
<1>2. r = CASE ref # NoRef /\ OutOf("bitmap", ref) -> Err(p0)
            [] ref # NoRef /\ ~OutOf("bitmap", ref) -> AddBitmap(q, InInfo(i))
            [] OTHER -> OwnLocal(z)
  BY DEF LocalRead
<1> HIDE DEF c, i
<1>3. q \in Parsers({<<>>}) /\ (~q.wrong => q = p0)
  BY <1>1, ErrIfIs, ErrIfWrong
<1> HIDE DEF q
<1>4. CASE ref # NoRef /\ OutOf("bitmap", ref)
  BY <1>1, <1>2, <1>4, ErrIs
<1>5. CASE ref # NoRef /\ ~OutOf("bitmap", ref)
  <2>1. Calm(q, r)
    BY <1>2, <1>3, <1>5, BitmapCalm
  <2> QED BY <1>3, <2>1 DEF Calm, Apart
<1>6. CASE ref = NoRef
  <2>1. [p0 EXCEPT !.v = Bitmap0] \in ReadingOf("bitmap", p0, ok)
    <3>1. Initial("bitmap") = Bitmap0
      BY DEF Initial
    <3>2. [p0 EXCEPT !.v = Initial("bitmap")] \in ReadingOf("bitmap", p0, ok)
      BY <1>1, ReadsItself, InitialIs
    <3> QED BY <3>1, <3>2
  <2>2. z \in ItemOf("bitmap", p0, ok)
    BY <1>1, <2>1, ItemFromIs
  <2>3. r = IF Going(z) THEN AddBitmap(z, slot) ELSE z
    BY <1>2, <1>6 DEF OwnLocal
  <2> HIDE DEF z, slot
  <2>4. z \in Parsers(Val("bitmap")) /\ (Going(z) \/ z.wrong)
    BY <1>1, <2>2 DEF ItemOf, Moves, Going
  <2>5. Calm(z, r)
    BY <2>3, <2>4, BitmapCalm
  <2>6. ~z.wrong
    BY <2>5 DEF Calm, Apart
  <2>7. Calm(p0, z)
    BY <1>1, <2>2, <2>6, ItemCalm
  <2> QED BY <2>5, <2>7, CalmBoth
<1> QED BY <1>4, <1>5, <1>6

(* The overrides that are not items of an event's own.                       *)
LEMMA PendingCalm ==
  ASSUME NEW V, NEW p \in Parsers(V), NEW w, w.motions = p.pending.motions,
         NEW r, r = [p EXCEPT !.pending = w], ~r.wrong
  PROVE  Calm(p, r)
BY DEF Calm, Apart, Parsers

LEMMA OthersCalm ==
  ASSUME NEW V, NEW p \in Parsers(V), NEW x,
         NEW r \in {MappingRead(p, x), MetaRead(p, x), [p EXCEPT !.pending.language = x.name],
                    [p EXCEPT !.pending.direction = x.name], p},
         ~r.wrong
  PROVE  Calm(p, r)
<1>1. p.pending \in PendingOf
  BY ParserHas
<1>2. CASE r = MappingRead(p, x)
  <2> DEFINE c == Missing("mapping", x.ref)
             q == ErrIf(c, p)
             w == [q.pending EXCEPT !.mapping = InInfo(Found("mapping", x.ref))]
  <2>1. r = IF OutOf("mapping", x.ref) THEN Ended(p, "exited") ELSE [q EXCEPT !.pending = w]
    BY <1>2 DEF MappingRead
  <2> HIDE DEF c
  <2>2. q \in Parsers(V) /\ (~q.wrong => q = p)
    BY ErrIfIs, ErrIfWrong
  <2> HIDE DEF q
  <2>3. q.pending \in PendingOf
    BY <2>2, ParserHas
  <2>4. w.motions = q.pending.motions
    BY <2>3 DEF PendingOf
  <2> HIDE DEF w
  <2>5. r = [q EXCEPT !.pending = w]
    BY <2>1, EndedIs
  <2>6. Calm(q, r)
    BY <2>2, <2>4, <2>5, PendingCalm
  <2> QED BY <2>2, <2>6 DEF Calm, Apart
<1>3. CASE r = MetaRead(p, x)
  <2> DEFINE c == x.leaf.value = "long"
             q == ErrIf(c, p)
             w == [q.pending EXCEPT !.meta = Append(@, StoredLeaf(x.leaf))]
  <2>1. r = IF x.leaf.tag = "bad" THEN Err(p) ELSE [q EXCEPT !.pending = w]
    BY <1>3 DEF MetaRead
  <2> HIDE DEF c
  <2>2. q \in Parsers(V) /\ (~q.wrong => q = p)
    BY ErrIfIs, ErrIfWrong
  <2> HIDE DEF q
  <2>3. q.pending \in PendingOf
    BY <2>2, ParserHas
  <2>4. w.motions = q.pending.motions
    BY <2>3 DEF PendingOf
  <2> HIDE DEF w
  <2>5. r = [q EXCEPT !.pending = w]
    BY <2>1, ErrIs
  <2>6. Calm(q, r)
    BY <2>2, <2>4, <2>5, PendingCalm
  <2> QED BY <2>2, <2>6 DEF Calm, Apart
<1>4. CASE r = [p EXCEPT !.pending.language = x.name]
  <2> DEFINE w == [p.pending EXCEPT !.language = x.name]
  <2>1. w.motions = p.pending.motions
    BY <1>1 DEF PendingOf
  <2>2. r = [p EXCEPT !.pending = w]
    BY <1>4
  <2> HIDE DEF w
  <2> QED BY <2>1, <2>2, PendingCalm
<1>5. CASE r = [p EXCEPT !.pending.direction = x.name]
  <2> DEFINE w == [p.pending EXCEPT !.direction = x.name]
  <2>1. w.motions = p.pending.motions
    BY <1>1 DEF PendingOf
  <2>2. r = [p EXCEPT !.pending = w]
    BY <1>5
  <2> HIDE DEF w
  <2> QED BY <2>1, <2>2, PendingCalm
<1>6. CASE r = p
  BY <1>6 DEF Calm, Apart
<1> QED BY <1>2, <1>3, <1>4, <1>5, <1>6

-----------------------------------------------------------------------------
(* What a statement says while an event plays.                               *)

Listening(x, ok) ==
  /\ Ready(x, ok) /\ ~Unreadable(x) /\ Listen(x) /\ parser.phase = "event" /\ Playing(parser, said)
Plays == parser'.phase = "event" /\ Playing(parser', said')

LEMMA ListeningHas ==
  ASSUME NEW x, NEW ok, Listening(x, ok)
  PROVE  /\ parser \in Parsers({<<>>}) /\ Starts(parser, ok) /\ ok \in BOOLEAN /\ Typed(x) /\ Formed(x)
         /\ Score(said) /\ Shaped(said) /\ DOMAIN said.over = OverFields /\ DOMAIN said.times = TimeFields
         /\ parser.pending \in PendingOf /\ parser.event \in EventOf
         /\ x.do \in Statements /\ ~parser'.wrong => said' = Say(x)
         /\ x.do = "id" => said' = said
<1>1. Starts(parser, ok) /\ ok \in BOOLEAN /\ Typed(x) /\ Formed(x)
  BY ReadyIs, GrammarTyped, GrammarFormed DEF Listening, Ready
<1>2. said' = CASE x.do = "event" -> Said0
               [] x.do \in Statements /\ ~parser'.wrong -> Say(x)
               [] OTHER -> said
  BY DEF Listen, Listening
<1>3. x.do \in Statements => x.do # "event"
  BY DEF Statements, Slots
<1>4. x.do = "id" => said' = said
  BY <1>2 DEF Statements, Slots
<1>5. Score(said) /\ Shaped(said) /\ DOMAIN said.over = OverFields /\ DOMAIN said.times = TimeFields
  BY DEF Listening, Playing, Score, Shaped, TimeFields
<1>6. parser \in Parsers({<<>>}) /\ parser.pending \in PendingOf /\ parser.event \in EventOf
  BY <1>1, ParserHas DEF Starts
<1> QED BY <1>1, <1>2, <1>3, <1>4, <1>5, <1>6

LEMMA CalmPlays ==
  ASSUME NEW x, NEW ok, Listening(x, ok), NEW V, NEW r \in Parsers(V), Read(r), Calm(parser, r),
         Unsung(said, said'), said'.over.motions = said.over.motions
  PROVE  Plays
<1>1. parser' = [r EXCEPT !.v = <<>>]
  BY DEF Read
<1>2. /\ parser'.phase = r.phase /\ parser'.event = r.event /\ parser'.pending = r.pending
      /\ parser'.wrong = r.wrong
  BY <1>1, DroppedHas
<1>3. Calm(parser, parser') /\ parser.phase = "event" /\ Playing(parser, said)
  BY <1>2 DEF Calm, Apart, Listening
<1>4. Playing(parser', said')
  BY <1>3, PlayingStill
<1> QED BY <1>2, <1>3, <1>4 DEF Plays, Calm, Apart

(* A statement that puts something else in the overrides.                    *)
LEMMA OverUnsung ==
  ASSUME NEW sd, Shaped(said), NEW f \in OverFields \ {"motions"}, NEW w, NEW latest,
         sd = [said EXCEPT !.over[f] = w, !.latest = latest]
  PROVE  Unsung(said, sd) /\ sd.over.motions = said.over.motions
<1> DEFINE over == [said.over EXCEPT ![f] = w]
<1>1. sd = [said EXCEPT !.over = over, !.latest = latest]
  OBVIOUS
<1>2. DOMAIN over = DOMAIN said.over /\ over["motions"] = said.over["motions"]
  BY DEF Shaped, OverFields
<1> HIDE DEF over
<1> QED BY <1>1, <1>2 DEF Shaped, Unsung

LEMMA SlotUnsung ==
  ASSUME Shaped(said), NEW do \in Slots \cup {"local"}, NEW slot, NEW sd, sd = SaySlot(do, slot)
  PROVE  Unsung(said, sd) /\ sd.over.motions = said.over.motions
<1>1. CASE do = "local"
  <2> DEFINE w == Append(said.over.bitmaps, slot)
             latest == said.latest
             f == "bitmaps"
  <2>1. sd = [said EXCEPT !.over[f] = w, !.latest = latest]
    BY <1>1 DEF SaySlot, Shaped
  <2>2. f \in OverFields \ {"motions"}
    BY DEF OverFields
  <2> HIDE DEF w, latest, f
  <2> QED BY <2>1, <2>2, OverUnsung
<1>2. CASE do \in Slots
  <2> DEFINE latest == IF KindOf(do) = "style" /\ slot.at = "own" THEN slot.own ELSE said.latest
  <2>1. sd = [said EXCEPT !.over[do] = slot, !.latest = latest]
    BY <1>2 DEF SaySlot, Slots
  <2>2. do \in OverFields \ {"motions"}
    BY <1>2 DEF OverFields, Slots
  <2> HIDE DEF latest
  <2> QED BY <2>1, <2>2, OverUnsung
<1> QED BY <1>1, <1>2

(* The motion that a statement adds.                                         *)
LEMMA MotionUnsung ==
  ASSUME Shaped(said), NEW slot
  PROVE  /\ Unsung(said, SaySlot("motion", slot))
         /\ SaySlot("motion", slot).over.motions = Append(said.over.motions, slot)
<1> DEFINE list == Append(said.over.motions, slot)
           over == [said.over EXCEPT !.motions = list]
<1>1. SaySlot("motion", slot) = [said EXCEPT !.over = over]
  BY DEF SaySlot
<1>2. DOMAIN over = DOMAIN said.over /\ over.motions = list
  BY DEF Shaped, OverFields
<1> HIDE DEF over, list
<1>3. Unsung(said, SaySlot("motion", slot)) /\ SaySlot("motion", slot).over.motions = list
  BY <1>1, <1>2 DEF Shaped, Unsung
<1> QED BY <1>3 DEF list

LEMMA SlotPlays ==
  ASSUME NEW x, NEW ok, Listening(x, ok), SetSlot(x) \/ AddLocalBitmap(x), ~parser'.wrong PROVE Plays
<1> DEFINE r == IF x.do = "local" THEN LocalRead(parser, x) ELSE SlotRead(parser, x)
<1>1. Starts(parser, ok) /\ ok \in BOOLEAN /\ Typed(x) /\ Shaped(said)
  BY ListeningHas
<1>2. x.do \in Slots \cup {"local"} /\ Read(r) /\ x.do \in Statements /\ (x.ref # NoRef => x.ref \in Reference)
  BY <1>1 DEF SetSlot, AddLocalBitmap, Only, Statements, Slots, Typed, Refers
<1>3. /\ x.do \in Slots => Says(KindOf(x.do), ok, x.body)
      /\ x.do = "local" => Says("bitmap", ok, x.body)
  BY BodySays DEF Listening
<1>4. Leaves1(parser, r, ok) /\ (~r.wrong => Calm(parser, r))
  <2>1. CASE x.do = "local"
    <3>1. Leaves1(parser, LocalRead(parser, x), ok)
      BY <1>1, <1>2, <1>3, <2>1, LocalReadIs
    <3>2. ~LocalRead(parser, x).wrong => Calm(parser, LocalRead(parser, x))
      BY <1>1, <1>2, <1>3, <2>1, LocalCalm
    <3> QED BY <2>1, <3>1, <3>2
  <2>2. CASE x.do # "local"
    <3>0. x.do \in Slots
      BY <1>2, <2>2
    <3>1. Leaves1(parser, SlotRead(parser, x), ok)
      BY <1>1, <1>2, <1>3, <3>0, SlotReadIs
    <3>2. ~SlotRead(parser, x).wrong => Calm(parser, SlotRead(parser, x))
      BY <1>1, <1>2, <1>3, <3>0, SlotCalm
    <3> QED BY <2>2, <3>1, <3>2
  <2> QED BY <2>1, <2>2
<1> HIDE DEF r
<1>5. PICK V : r \in Parsers(V)
  BY <1>4 DEF Leaves1, Steps
<1>6. ~r.wrong
  BY <1>2, <1>5, DroppedHas DEF Read
<1>7. said' = SaySlot(x.do, SlotSaid(x, KindRead(x.do)))
  <2>1. said' = Say(x)
    BY <1>2, ListeningHas
  <2>2. /\ x.do \in Slots \cup {"local", "motion"}
        /\ x.do \notin {"mapping", "meta", "language", "directionality", "text", "karaoke"}
    BY <1>2 DEF Slots
  <2> QED BY <2>1, <2>2 DEF Say
<1>8. Unsung(said, said') /\ said'.over.motions = said.over.motions
  BY <1>1, <1>2, <1>7, SlotUnsung
<1> QED BY <1>2, <1>4, <1>5, <1>6, <1>8, CalmPlays

LEMMA OtherPlays ==
  ASSUME NEW x, NEW ok, Listening(x, ok),
         SetMapping(x) \/ AddEventMeta(x) \/ SetLanguage(x) \/ SetDirectionality(x) \/ SetId(x),
         ~parser'.wrong
  PROVE  Plays
<1>1. parser \in Parsers({<<>>}) /\ Shaped(said) /\ Starts(parser, ok) /\ ok \in BOOLEAN /\ Typed(x)
  BY ListeningHas
<1>2. PICK r \in {MappingRead(parser, x), MetaRead(parser, x), [parser EXCEPT !.pending.language = x.name],
                  [parser EXCEPT !.pending.direction = x.name], parser} :
          Read(r) /\ r \in Steps({<<>>}, parser, ok)
  <2>1. CASE SetMapping(x)
    BY <1>1, <2>1, MappingReadIs DEF SetMapping, Typed, Only
  <2>2. CASE AddEventMeta(x)
    BY <1>1, <2>2, MetaReadIs DEF AddEventMeta, Typed, Only
  <2>3. CASE SetLanguage(x) \/ SetDirectionality(x) \/ SetId(x)
    <3>1. parser \in Steps({<<>>}, parser, ok)
      BY <1>1, StartsItself
    <3>2. SetId(x) \/ x.name \in Word
      BY <1>1, <2>3 DEF SetLanguage, SetDirectionality, Typed
    <3>3. x.name \in Word => /\ [parser EXCEPT !.pending.language = x.name] \in Steps({<<>>}, parser, ok)
                             /\ [parser EXCEPT !.pending.direction = x.name] \in Steps({<<>>}, parser, ok)
      BY <1>1, SpokenIs
    <3> QED BY <2>3, <3>1, <3>2, <3>3 DEF SetLanguage, SetDirectionality, SetId, Only
  <2> QED BY <2>1, <2>2, <2>3
<1>3. r \in Parsers({<<>>}) /\ ~r.wrong
  <2>1. r \in Parsers({<<>>})
    BY <1>2 DEF Steps
  <2> QED BY <1>2, <2>1, DroppedHas DEF Read
<1>4. Calm(parser, r)
  BY <1>1, <1>3, OthersCalm
<1>5. Unsung(said, said') /\ said'.over.motions = said.over.motions
  <2>1. CASE x.do = "id"
    <3>1. said' = said
      BY <2>1, ListeningHas
    <3> QED BY <3>1 DEF Unsung
  <2>2. CASE x.do # "id"
    <3>0. x.do \in {"mapping", "meta", "language", "directionality"} /\ said' = Say(x)
      <4>1. x.do \in {"mapping", "meta", "language", "directionality"}
        BY <2>2 DEF SetMapping, AddEventMeta, SetLanguage, SetDirectionality, SetId
      <4>2. x.do \in Statements
        BY <4>1 DEF Statements
      <4> QED BY <4>1, <4>2, ListeningHas
    <3> DEFINE f == CASE x.do = "mapping" -> "mapping" [] x.do = "meta" -> "meta"
                      [] x.do = "language" -> "language" [] OTHER -> "direction"
               w == CASE x.do = "mapping" -> SlotSaid(x, "mapping")
                      [] x.do = "meta" -> Append(said.over.meta, StoredLeaf(x.leaf))
                      [] OTHER -> x.name
               latest == said.latest
    <3>1. said' = [said EXCEPT !.over[f] = w, !.latest = latest]
      <4>1. said' = [said EXCEPT !.over[f] = w]
        <5>1. CASE x.do = "mapping"
          BY <3>0, <5>1 DEF Say, Slots
        <5>2. CASE x.do = "meta"
          BY <3>0, <5>2 DEF Say, Slots
        <5>3. CASE x.do = "language"
          BY <3>0, <5>3 DEF Say, Slots
        <5>4. CASE x.do = "directionality"
          BY <3>0, <5>4 DEF Say, Slots
        <5> QED BY <3>0, <5>1, <5>2, <5>3, <5>4
      <4> HIDE DEF f, w
      <4> QED BY <1>1, <4>1 DEF Shaped
    <3>2. f \in OverFields \ {"motions"}
      BY DEF OverFields
    <3> HIDE DEF f, w, latest
    <3> QED BY <1>1, <3>1, <3>2, OverUnsung
  <2> QED BY <2>1, <2>2
<1> QED BY <1>2, <1>3, <1>4, <1>5, CalmPlays

LEMMA MotionPlays ==
  ASSUME NEW x, NEW ok, Listening(x, ok), AddEventMotion(x), ~parser'.wrong PROVE Plays
<1> DEFINE ref == x.ref
           c == Missing("motion", ref)
           q == ErrIf(c, parser)
           i == Found("motion", ref)
           z == ItemFrom("motion", parser, Motion0, x.body)
           slot == Own(z.v)
           r == MotionRead(parser, x)
           w2 == SlotSaid(x, "motion")
<1>1. /\ parser \in Parsers({<<>>}) /\ Going(parser) /\ ItemsHold(parser, ok) /\ Tables /\ Starts(parser, ok)
      /\ ok \in BOOLEAN /\ Typed(x) /\ Shaped(said) /\ x.do = "motion" /\ Only(r) /\ "motion" \in AllKinds
      /\ Says("motion", ok, x.body) /\ parser.pending \in PendingOf /\ Playing(parser, said) /\ parser.phase = "event"
  BY ListeningHas, KindsAre, BodySays DEF Starts, Listening, AddEventMotion, ItemsHold
<1>2. ref # NoRef => ref \in Reference
  BY <1>1 DEF Typed, Refers
<1>3. Unsung(said, said') /\ said'.over.motions = Append(said.over.motions, w2)
  <2>1. said' = Say(x)
    BY <1>1, ListeningHas DEF Statements
  <2>2. said' = SaySlot("motion", w2)
    BY <1>1, <2>1 DEF Say, Slots, KindRead
  <2> HIDE DEF w2
  <2> QED BY <1>1, <2>2, MotionUnsung
<1>4. ~r.wrong /\ parser' = Dropped(r)
  <2> HIDE DEF r
  <2>1. Leaves1(parser, r, ok)
    BY <1>1, <1>2, MotionReadIs DEF r
  <2>2. \E V : r \in Parsers(V)
    BY <2>1 DEF Leaves1, Steps
  <2> QED BY <1>1, <2>2, DroppedHas DEF Only, Read, Dropped
<1>5. r = CASE ref # NoRef /\ OutOf("motion", ref) -> Ended(parser, "exited")
            [] ref # NoRef /\ ~OutOf("motion", ref) -> AddMotion(q, InInfo(i))
            [] OTHER -> OwnMotion(z)
  BY DEF MotionRead
<1> HIDE DEF r, c, i, w2
<1>6. ASSUME NEW V, NEW p \in Parsers(V), NEW w \in InfoSlot \cup OwnSlot(MotionVal), r = AddMotion(p, w),
             ~p.wrong => p.phase = "event" /\ p.event = parser.event /\ p.pending = parser.pending
      PROVE  Plays
  <2>1. MotionAdded(p, w, parser')
    BY <1>4, <1>6 DEF MotionAdded
  <2> DEFINE q2 == parser'
  <2>2. p \in Parsers(V) /\ w \in InfoSlot \cup OwnSlot(MotionVal) /\ MotionAdded(p, w, q2)
    BY <2>1
  <2> HIDE DEF q2
  <2>3. /\ q2 \in Parsers({<<>>}) /\ q2.phase = p.phase /\ q2.wrong = p.wrong /\ q2.event = p.event
        /\ q2.pending = [p.pending EXCEPT !["motions"] = Append(p.pending["motions"], w)]
    BY <2>2, MotionPut
  <2>4. ~p.wrong
    BY <2>3 DEF q2
  <2>5. q2.event = parser.event /\ q2.phase = "event"
    BY <1>6, <2>3, <2>4
  <2>6. q2.pending.motions = Append(parser.pending.motions, w)
    <3>1. p.pending = parser.pending /\ DOMAIN parser.pending = OverFields /\ "motions" \in OverFields
      BY <1>1, <1>6, <2>4 DEF PendingOf, OverFields
    <3> QED BY <2>3, <3>1
  <2>7. parser.pending.motions \in Seq(InfoSlot \cup OwnSlot(MotionVal))
    BY <1>1 DEF PendingOf
  <2>8. Playing(q2, said')
    <3> DEFINE sd2 == said'
    <3>1. Unsung(said, sd2) /\ sd2.over.motions = Append(said.over.motions, w2)
      BY <1>3
    <3> HIDE DEF sd2
    <3>2. Playing(q2, sd2)
      BY <1>1, <2>2, <2>5, <2>6, <2>7, <3>1, PlayingMore
    <3> QED BY <3>2 DEF sd2
  <2> QED BY <2>5, <2>8 DEF Plays, q2
<1>7. CASE ref # NoRef /\ OutOf("motion", ref)
  <2>1. r = Ended(parser, "exited")
    BY <1>5, <1>7
  <2> QED BY <1>1, <1>4, <2>1, EndedIs
<1>8. CASE ref # NoRef /\ ~OutOf("motion", ref)
  <2>1. r = AddMotion(q, InInfo(i))
    BY <1>5, <1>8
  <2>2. InInfo(i) \in InfoSlot \cup OwnSlot(MotionVal)
    <3>1. i \in Int
      BY <1>1, <1>2, <1>8, FoundIs DEF i
    <3> QED BY <3>1 DEF InInfo, InfoSlot
  <2>3. q \in Parsers({<<>>}) /\ (~q.wrong => q = parser)
    BY <1>1, ErrIfIs, ErrIfWrong
  <2> HIDE DEF q
  <2> DEFINE w == InInfo(i)
  <2> HIDE DEF w
  <2>4. w \in InfoSlot \cup OwnSlot(MotionVal) /\ r = AddMotion(q, w)
    BY <2>1, <2>2 DEF w
  <2>5. ~q.wrong => q.phase = "event" /\ q.event = parser.event /\ q.pending = parser.pending
    BY <1>1, <2>3
  <2> QED BY <1>6, <2>3, <2>4, <2>5
<1>9. CASE ref = NoRef
  <2>1. z \in ItemOf("motion", parser, ok)
    <3>1. [parser EXCEPT !.v = Initial("motion")] \in ReadingOf("motion", parser, ok)
      BY <1>1, ReadsItself, InitialIs
    <3>2. [parser EXCEPT !.v = Motion0] \in ReadingOf("motion", parser, ok)
      BY <3>1 DEF Initial
    <3> QED BY <1>1, <3>2, ItemFromIs
  <2>2. r = OwnMotion(z)
    BY <1>5, <1>9
  <2> HIDE DEF z
  <2>3. z \in Parsers(Val("motion")) /\ Moves(parser, z) /\ Aside(parser, z)
    BY <2>1 DEF ItemOf
  <2>4. Going(z) /\ r = AddMotion(z, slot)
    <3>1. ~z.wrong => Going(z)
      BY <1>1, <2>3 DEF Moves, Going
    <3> QED BY <1>4, <2>2, <3>1 DEF OwnMotion
  <2>5. slot \in OwnSlot(MotionVal)
    BY <2>3, ParserHas, ValsAre DEF OwnSlot, Own
  <2> HIDE DEF slot
  <2>6. ~z.wrong => z.phase = "event" /\ z.event = parser.event /\ z.pending = parser.pending
    BY <1>1, <2>3 DEF Moves, Aside
  <2>7. slot \in InfoSlot \cup OwnSlot(MotionVal)
    BY <2>5
  <2> QED BY <1>6, <2>3, <2>4, <2>6, <2>7
<1> QED BY <1>7, <1>8, <1>9

LEMMA TextPlays ==
  ASSUME NEW x, NEW ok, Listening(x, ok), SetText(x), ~parser'.wrong PROVE Plays
<1> DEFINE r == TextRead(parser, x)
           text == EventText(x.text, x.pre)
           pieces == <<[words |-> x.text, how |-> IF x.pre THEN "pre" ELSE "lines"]>>
<1>1. /\ parser \in Parsers({<<>>}) /\ Starts(parser, ok) /\ ok \in BOOLEAN /\ Typed(x) /\ x.do = "text" /\ Only(r)
      /\ Score(said) /\ Shaped(said) /\ parser.event \in EventOf /\ parser.phase = "event" /\ Playing(parser, said)
  BY ListeningHas DEF SetText, Listening
<1>2. x.text \in Seq(STRING) /\ x.markup \in BOOLEAN /\ x.do \notin Slots /\ x.do \in Statements
  BY <1>1 DEF Typed, Slots, Statements
<1>3. said' = [said EXCEPT !.pieces = pieces, !.words = text, !.over.markup = x.markup]
  <2>1. said' = Say(x)
    BY <1>2, ListeningHas
  <2> QED BY <1>1, <2>1 DEF Say, Slots
<1>4. r \in Parsers({<<>>})
  BY <1>1, <1>2, TextReadIs DEF Steps
<1>5. ~r.wrong /\ parser' = [r EXCEPT !.v = <<>>]
  <2> HIDE DEF r
  <2> QED BY <1>1, <1>4, DroppedHas DEF Only, Read
<1>6. r = [parser EXCEPT !.event.text = text, !.event.hasText = TRUE, !.event.markup = x.markup]
  <2> HIDE DEF r
  <2>1. r = TextRead(parser, x)
    BY DEF r
  <2> HIDE DEF text
  <2> QED BY <1>1, <1>5, <2>1, TextOnlyIs DEF text
<1>16. pieces \in Seq(Piece) /\ Hears(text, text, pieces)
  <2>1. x.text \in Seq(Word) /\ x.pre \in BOOLEAN
    BY <1>1, SpeltIs DEF Typed
  <2> HIDE DEF text, pieces
  <2> QED BY <2>1, TextHeard DEF text, pieces
<1> HIDE DEF r, text, pieces
<1>7. /\ r.phase = parser.phase /\ r.pending = parser.pending /\ r.event.text = text
      /\ \A f \in TimeFields : r.event[f] = parser.event[f]
  <2> DEFINE ev == [parser.event EXCEPT !.text = text, !.hasText = TRUE, !.markup = x.markup]
  <2>1. ev.text = text /\ \A f \in TimeFields : ev[f] = parser.event[f]
    BY <1>1 DEF EventOf, TimeFields
  <2>2. r = [parser EXCEPT !.event = ev]
    BY <1>1, <1>6 DEF Parsers
  <2> HIDE DEF ev
  <2>3. r.event = ev
    BY <1>1, <2>2 DEF Parsers
  <2> QED BY <1>1, <2>1, <2>2, <2>3 DEF Parsers
<1>8. parser'.phase = r.phase /\ parser'.event = r.event /\ parser'.pending = r.pending
  BY <1>4, <1>5, DroppedHas
<1>9. /\ DOMAIN said' = DOMAIN said /\ said'.times = said.times /\ said'.words = text /\ said'.pieces = pieces /\ said'.marks = said.marks
      /\ said'.over = [said.over EXCEPT !.markup = x.markup]
  BY <1>1, <1>3 DEF Shaped
<1>10. DOMAIN said'.over = DOMAIN said.over /\ said'.over.motions = said.over.motions
  <2>1. "motions" \in OverFields /\ "motions" # "markup" /\ DOMAIN said.over = OverFields
    BY <1>1 DEF Shaped, OverFields
  <2> QED BY <1>9, <2>1
<1>11. text \in Seq(Word)
  <2>1. r.event \in EventOf
    BY <1>4, ParserHas
  <2> QED BY <1>7, <2>1 DEF EventOf
<1>12. Score(said')
  BY <1>1, <1>9, <1>10, <1>11, <1>16 DEF Score, Shaped
<1>13. \A km : Lasting(parser.event, km) => Lasting(parser'.event, km)
  BY <1>7, <1>8, LastingSame
<1>14. \A m \in Range(said'.marks) : MarkHeld(m, parser'.pending.motions, parser'.event)
  BY <1>1, <1>7, <1>8, <1>9, <1>13 DEF Playing, MarkHeld
<1>15. Len(said'.over.motions) = Len(parser'.pending.motions)
  BY <1>1, <1>7, <1>8, <1>10 DEF Playing
<1> QED BY <1>1, <1>7, <1>8, <1>9, <1>12, <1>14, <1>15, <1>16 DEF Playing, Plays

(* Times: the one that is missing makes them three, and then it is too late  *)
(* for the marks to matter.                                                  *)
LEMMA GivenHas ==
  ASSUME NEW ev \in EventOf
  PROVE  /\ Timed3(ev) => TimesGiven(ev) # 2
         /\ \A f, g \in TimeFields : f # g /\ ev[f] < 0 /\ ev[g] < 0 => TimesGiven(ev) # 2
<1> DEFINE given == {f \in TimeFields : ev[f] >= 0}
<1>1. TimesGiven(ev) = Cardinality(given) /\ \A f \in TimeFields : ev[f] \in Int
  BY DEF TimesGiven, TimeFields, EventOf
<1>2. IsFiniteSet(TimeFields) /\ Cardinality(TimeFields) = 3
  <2>1. IsFiniteSet({}) /\ Cardinality({}) = 0
    BY FS_EmptySet
  <2>2. IsFiniteSet({"t0"}) /\ Cardinality({"t0"}) = 1
    BY FS_Singleton
  <2>3. IsFiniteSet({"t0"} \cup {"t1"}) /\ Cardinality({"t0"} \cup {"t1"}) = 2
    BY <2>2, FS_AddElement
  <2>4. IsFiniteSet(({"t0"} \cup {"t1"}) \cup {"for"}) /\ Cardinality(({"t0"} \cup {"t1"}) \cup {"for"}) = 3
    BY <2>3, FS_AddElement
  <2>5. TimeFields = ({"t0"} \cup {"t1"}) \cup {"for"}
    BY DEF TimeFields
  <2> QED BY <2>4, <2>5
<1> HIDE DEF given
<1>3. ASSUME Timed3(ev) PROVE TimesGiven(ev) # 2
  <2>1. given = TimeFields
    BY <1>3 DEF given, TimeFields, Timed3
  <2> QED BY <1>1, <1>2, <2>1
<1>4. ASSUME NEW f \in TimeFields, NEW g \in TimeFields, f # g, ev[f] < 0, ev[g] < 0 PROVE TimesGiven(ev) # 2
  <2>1. PICK e \in TimeFields : \A z \in TimeFields : z = e \/ z = f \/ z = g
    BY <1>4 DEF TimeFields
  <2>2. given \subseteq {e}
    BY <1>1, <1>4, <2>1 DEF given
  <2>3. IsFiniteSet({e}) /\ Cardinality({e}) = 1
    BY FS_Singleton
  <2>4. Cardinality(given) <= 1
    BY <2>2, <2>3, FS_Subset
  <2> QED BY <1>1, <2>4
<1> QED BY <1>3, <1>4

LEMMA LastingOn ==
  ASSUME NEW p, p.event \in EventOf, NEW r, NEW x, TimesSet(p, r, x),
         NEW f \in TimeFields, f \in DOMAIN x, NEW km, Lasting(p.event, km)
  PROVE  Timed3(r.event)
<1> DEFINE ev == p.event
<1>1. /\ \A g \in TimeFields : r.event[g] = IF g \in DOMAIN x THEN x[g] ELSE ev[g]
      /\ \A g \in TimeFields : g \in DOMAIN x => ev[g] < 0 /\ x[g] \in Nat
  BY DEF TimesSet
<1>2. ev \in EventOf /\ \A g \in TimeFields : ev[g] \in Int
  BY DEF EventOf, TimeFields
<1>3. ev[f] < 0
  BY <1>1
<1>4. ~Timed3(ev)
  BY <1>2, <1>3 DEF Timed3, TimeFields
<1>5. TimesGiven(ev) = 2
  BY <1>4 DEF Lasting
<1> HIDE DEF ev
<1>6. \A g \in TimeFields : g = f \/ ev[g] >= 0
  <2> SUFFICES ASSUME NEW g \in TimeFields, g # f, ev[g] < 0 PROVE FALSE
    BY <1>2
  <2> QED BY <1>2, <1>3, <1>5, GivenHas
<1>7. \A g \in TimeFields : r.event[g] >= 0
  BY <1>1, <1>2, <1>6
<1> QED BY <1>7 DEF Timed3, TimeFields

LEMMA TimesPlay ==
  ASSUME NEW x, NEW ok, Listening(x, ok), SetTimes(x), ~parser'.wrong PROVE Plays
<1> DEFINE r == TimesRead(parser, x)
           q == parser'
           ev == parser.event
<1>1. /\ parser \in Parsers({<<>>}) /\ Starts(parser, ok) /\ ok \in BOOLEAN /\ Typed(x) /\ Formed(x)
      /\ x.do \in {"from", "to", "for", "from_for", "from_to"} /\ Only(r) /\ Score(said) /\ Shaped(said)
      /\ ev \in EventOf /\ parser.phase = "event" /\ Playing(parser, said)
  BY ListeningHas DEF SetTimes, Listening
<1>2. x.do \in Statements /\ x.do \notin Slots
  BY <1>1 DEF Statements, Slots
<1>3. said' = [said EXCEPT !.times = TimesSaid(x)]
  <2>1. said' = Say(x)
    BY <1>2, ListeningHas
  <2> QED BY <1>1, <2>1 DEF Say, TimesSaid, Slots
<1>4. Unsung(said, said') /\ said'.over.motions = said.over.motions
  <2>1. DOMAIN TimesSaid(x) = DOMAIN said.times
    BY DEF TimesSaid
  <2> QED BY <1>1, <1>3, <2>1 DEF Shaped, Unsung
<1>5. r \in Parsers({<<>>})
  BY <1>1, TimesReadIs DEF Typed, Steps
<1> HIDE DEF q
<1>6. q = [r EXCEPT !.v = <<>>]
  BY <1>1 DEF Only, Read, q
<1>7. r = TimesRead(parser, x)
  OBVIOUS
<1> HIDE DEF r
<1>8. ~r.wrong /\ q.phase = r.phase /\ q.event = r.event /\ q.pending = r.pending
  BY <1>5, <1>6, DroppedHas DEF q
<1>9. TimesSet(parser, r, x)
  <2> DEFINE p == parser
  <2>1. p \in Parsers({<<>>}) /\ r = TimesRead(p, x)
    BY <1>1, <1>7
  <2> HIDE DEF p
  <2>2. TimesSet(p, r, x)
    BY <1>1, <1>8, <2>1, TimesSetIs
  <2> QED BY <2>2 DEF p
<1>10. /\ q.phase = "event" /\ q.pending = parser.pending /\ q.event.text = ev.text
  BY <1>1, <1>8, <1>9 DEF TimesSet
<1>11. PICK f \in TimeFields : f \in DOMAIN x
  BY <1>1 DEF Formed, TimeFields
<1>12. ASSUME NEW km, Lasting(ev, km) PROVE Lasting(q.event, km)
  <2>1. Timed3(r.event)
    <3> DEFINE p == parser
    <3>1. p.event \in EventOf /\ TimesSet(p, r, x) /\ Lasting(p.event, km)
      BY <1>1, <1>9, <1>12
    <3> HIDE DEF p
    <3> QED BY <1>11, <3>1, LastingOn
  <2> QED BY <1>8, <2>1 DEF Lasting
<1>13. \A m \in Range(said'.marks) : MarkHeld(m, q.pending.motions, q.event)
  BY <1>1, <1>4, <1>10, <1>12 DEF Playing, MarkHeld, Unsung
<1>14. Score(said')
  BY <1>1, <1>4 DEF Score, Shaped, Unsung
<1> QED BY <1>1, <1>4, <1>10, <1>13, <1>14 DEF Playing, Plays, Unsung, q

-----------------------------------------------------------------------------
(* A karaoke statement.                                                      *)

Tuned(p, q, sd, sd2, S, w, w2, h) ==
  /\ Playing(p, sd) /\ p.pending.motions \in Seq(S) /\ w \in S /\ w.at = "own" /\ h \in Tune
  /\ (\A f \in TimeFields : q.event[f] = p.event[f])
  /\ q.pending.motions = Append(p.pending.motions, w) /\ DOMAIN sd2 = DOMAIN sd
  /\ DOMAIN sd2.over = DOMAIN sd.over /\ sd2.times = sd.times
  /\ sd2.over.motions = Append(sd.over.motions, w2) /\ sd2.words = h.words /\ sd2.pieces = h.pieces /\ sd2.marks = h.marks
  /\ Hears(q.event.text, h.words, h.pieces) /\ Lasting(q.event, w.own)
  /\ \A m \in Range(h.marks) : m \in Range(sd.marks) \/ OnMark(w.own, m, Len(sd.over.motions) + 1)

LEMMA SungPlaying ==
  ASSUME NEW p, NEW q, NEW sd, NEW sd2, NEW S, NEW w, NEW w2, NEW h, Tuned(p, q, sd, sd2, S, w, w2, h)
  PROVE  Playing(q, sd2)
<1> DEFINE motions == p.pending.motions
           new == Append(motions, w)
           over == sd.over.motions
           more == Append(over, w2)
           n == Len(motions) + 1
<1>0. /\ Playing(p, sd) /\ motions \in Seq(S) /\ w \in S /\ w.at = "own" /\ h \in Tune
      /\ (\A f \in TimeFields : q.event[f] = p.event[f])
      /\ q.pending.motions = new /\ DOMAIN sd2 = DOMAIN sd
      /\ DOMAIN sd2.over = DOMAIN sd.over /\ sd2.times = sd.times
      /\ sd2.over.motions = more /\ sd2.words = h.words /\ sd2.pieces = h.pieces /\ sd2.marks = h.marks
      /\ Hears(q.event.text, h.words, h.pieces) /\ Lasting(q.event, w.own)
      /\ \A m \in Range(h.marks) : m \in Range(sd.marks) \/ OnMark(w.own, m, Len(over) + 1)
  BY DEF Tuned
<1>1. /\ new \in Seq(S) /\ Len(new) = n /\ n \in DOMAIN new /\ new[n] = w
      /\ \A i \in DOMAIN motions : i \in DOMAIN new /\ new[i] = motions[i]
  BY <1>0
<1>2. over \in Seq(Range(over)) /\ Len(over) = Len(motions)
  BY <1>0 DEF Playing, Score
<1>3. Len(more) = Len(over) + 1 /\ more \in Seq(Range(more))
  BY <1>2, AppendRanges
<1> HIDE DEF more, new
<1>5. h.words \in Seq(Word) /\ h.pieces \in Seq(Piece) /\ h.marks \in Seq(Mark)
  BY <1>0 DEF Tune
<1>6. Score(sd2)
  BY <1>0, <1>3, <1>5 DEF Playing, Score, Shaped
<1>7. \A km : Lasting(p.event, km) => Lasting(q.event, km)
  BY <1>0, LastingSame
<1>8. \A m : MarkHeld(m, motions, p.event) => MarkHeld(m, new, q.event)
  BY <1>1, <1>7 DEF MarkHeld
<1>9. ASSUME NEW m \in Range(sd2.marks) PROVE MarkHeld(m, new, q.event)
  <2>1. m \in Range(sd.marks) \/ OnMark(w.own, m, n)
    BY <1>0, <1>2
  <2>2. m \in Range(sd.marks) => MarkHeld(m, new, q.event)
    BY <1>0, <1>8 DEF Playing
  <2>3. OnMark(w.own, m, n) => MarkHeld(m, new, q.event)
    BY <1>0, <1>1 DEF OnMark, MarkHeld
  <2> QED BY <2>1, <2>2, <2>3
<1> QED BY <1>0, <1>1, <1>2, <1>3, <1>6, <1>9 DEF Playing

(* The last pause of a karaoke motion makes it as long as the event.         *)
LEMMA FinalLasts ==
  ASSUME NEW q \in Parsers(KaraokeVal), NEW r, r = Finalized(q), ~r.wrong
  PROVE  /\ ~q.wrong /\ r.phase = q.phase /\ r.pending = q.pending /\ r.event = q.event
         /\ Lasting(r.event, r.v) /\ \A k, t : ReachedAt(q.v, k, t) => ReachedAt(r.v, k, t)
<1> DEFINE rest == End(q.event) - Start(q.event) - SumSeq(q.v.durations)
<1>1. q.v \in KaraokeVal /\ q.event \in EventOf
  BY ParserHas
<1>2. SumSeq(q.v.durations) \in Int /\ Start(q.event) \in Int /\ End(q.event) \in Int
  BY <1>1, KaraokeValHas, SumIs, TimesAre
<1>3. rest \in Int /\ SumSeq(q.v.durations) + rest = End(q.event) - Start(q.event)
  BY <1>2
<1>4. r \in {Err(q), Ended(q, "exited")} \/ (TimesGiven(q.event) = 2 /\ r = Pause(q, rest, TRUE))
  BY DEF Finalized
<1> HIDE DEF rest
<1>5. Err(q).wrong /\ Ended(q, "exited").wrong
  BY ErrIs, EndedIs
<1>6. TimesGiven(q.event) = 2 /\ r = Pause(q, rest, TRUE)
  BY <1>4, <1>5
<1>7. Went(q, r, rest)
  BY <1>3, <1>6, PauseWent
<1>8. /\ ~q.wrong /\ r.phase = q.phase /\ r.pending = q.pending /\ r.event = q.event
      /\ SumSeq(r.v.durations) = SumSeq(q.v.durations) + rest
      /\ \A k, t : ReachedAt(q.v, k, t) => ReachedAt(r.v, k, t)
  BY <1>7 DEF Went
<1>9. Lasting(r.event, r.v)
  BY <1>3, <1>6, <1>8 DEF Lasting
<1> QED BY <1>8, <1>9

Sung(h, n, km) ==
  /\ h \in Tune /\ km \in MotionVal /\ parser'.phase = "event"
  /\ parser'.pending.motions = Append(parser.pending.motions, Own(km))
  /\ \A f \in TimeFields : parser'.event[f] = parser.event[f]
  /\ Hears(parser'.event.text, h.words, h.pieces) /\ Lasting(parser'.event, km)
  /\ \A m \in Range(h.marks) : m \in Range(said.marks) \/ OnMark(km, m, n)

LEMMA KaraokeSung ==
  ASSUME NEW x, NEW ok, Listening(x, ok), Karaoke(x), ~parser'.wrong, NEW n \in Int
  PROVE  \E km : Sung(MarksOf(x.body, n), n, km)
<1> DEFINE S == Steps(KaraokeVal, parser, ok)
           body == x.body
           drawn == [Motion0 EXCEPT !.semantics = "glyph_pointer_1"]
           flat == <<0, 0>>
           z == [parser EXCEPT !.heights = flat]
           start == [z EXCEPT !.v = drawn]
           q == KaraokeBody(start, body, x.morph)
           h == MarksOf(body, n)
           f == IF Going(q) THEN Finalized(q) ELSE q
           r == KaraokeRead(parser, x)
           w == Own(f.v)
<1>1. /\ parser \in Parsers({<<>>}) /\ Going(parser) /\ Starts(parser, ok)
      /\ ok \in BOOLEAN /\ Typed(x) /\ Only(r) /\ x.do = "karaoke" /\ parser.phase = "event"
      /\ parser \in Steps({<<>>}, parser, ok) /\ Playing(parser, said)
  BY ListeningHas, StartsItself DEF Starts, Listening, Karaoke
<1>2. body \in Seq(MarkerForm \cup MorphForm)
  BY <1>1 DEF Typed
<1>3. drawn \in KaraokeVal /\ drawn.durations = <<>>
  <2>1. drawn.durations = <<>>
    BY DEF Motion0
  <2> QED BY <2>1, DrawnMotion
<1>4. r = KaraokeDone(f)
  BY DEF KaraokeRead
<1> HIDE DEF drawn
<1>5. flat \in Int \X Int
  OBVIOUS
<1> HIDE DEF flat
<1>6. z \in Steps({<<>>}, parser, ok)
  BY <1>1, <1>5, HeightsSteps
<1>7. start \in S
  <2> HIDE DEF z
  <2> QED BY <1>1, <1>3, <1>6, ValueSteps
<1>8. /\ start.v = drawn /\ start.phase = parser.phase
      /\ start.event = parser.event /\ start.pending = parser.pending
  BY <1>1 DEF Parsers
<1> HIDE DEF start
<1>9. /\ said.words \in Seq(Word) /\ said.pieces \in Seq(Piece) /\ said.marks \in Seq(Mark)
      /\ SumSeq(start.v.durations) = 0 /\ Hears(start.event.text, said.words, said.pieces)
  <2>1. SumSeq(start.v.durations) = 0
    BY <1>3, <1>8, SumNone
  <2> QED BY <1>1, <1>8, <2>1 DEF Playing, Score
<1>10. q \in S /\ h \in Tune /\ InTune(start, q, h, n)
  BY <1>1, <1>2, <1>7, <1>9, BodyTuned
<1> HIDE DEF q, h
<1>11. f \in S
  <2>1. Finalized(q) \in S
    BY <1>1, <1>10, FinalizedIs
  <2> QED BY <1>10, <2>1
<1>12. q \in Parsers(KaraokeVal) /\ Moves(parser, q)
  BY <1>10 DEF Steps
<1>13. ~q.wrong => Going(q)
  BY <1>1, <1>12 DEF Moves, Going
<1>14. f = IF Going(q) THEN Finalized(q) ELSE q
  OBVIOUS
<1> HIDE DEF f
<1>15. f \in Parsers(KaraokeVal) /\ f.v \in KaraokeVal /\ (Going(f) \/ f.wrong)
  <2>1. f \in Parsers(KaraokeVal) /\ Moves(parser, f)
    BY <1>11 DEF Steps
  <2> QED BY <1>1, <2>1, ParserHas DEF Moves, Going
<1>16. ~r.wrong /\ parser' = Dropped(r)
  <2>1. Leaves1(parser, r, ok)
    BY <1>1, <1>2, KaraokeReadIs
  <2> HIDE DEF r
  <2>2. \E V : r \in Parsers(V)
    BY <2>1 DEF Leaves1, Steps
  <2> QED BY <1>1, <2>2, DroppedHas DEF Only, Read, Dropped
<1> HIDE DEF r
<1>17. MotionAdded(f, w, parser')
  <2> DEFINE c == f.v.curves = <<>>
             e == ErrIf(c, f)
  <2>1. Going(f)
    <3>1. ~Going(f) => r = f
      BY <1>4 DEF KaraokeDone
    <3> QED BY <1>15, <1>16, <3>1
  <2>2. r = OwnMotion(e)
    BY <1>4, <2>1 DEF KaraokeDone
  <2> HIDE DEF c
  <2>3. e.phase = f.phase /\ e.v = f.v /\ e \in Parsers(KaraokeVal)
    BY <1>15, ErrIfIs
  <2>4. Going(e)
    BY <2>1, <2>3 DEF Going
  <2>5. r = AddMotion(e, w)
    BY <2>2, <2>3, <2>4 DEF OwnMotion
  <2>6. w \in InfoSlot \cup OwnSlot(MotionVal)
    BY <1>15, KaraokeValIs DEF OwnSlot, Own
  <2> HIDE DEF e, w
  <2>7. MotionAdded(e, w, parser')
    BY <1>16, <2>5 DEF MotionAdded
  <2>8. ~e.wrong
    BY <2>3, <2>6, <2>7, MotionPut
  <2>9. e = f
    BY <1>15, <2>8, ErrIfWrong DEF e
  <2> QED BY <2>7, <2>9
<1>18. w \in InfoSlot \cup OwnSlot(MotionVal) /\ f.v \in MotionVal
  BY <1>15, KaraokeValIs DEF OwnSlot, Own
<1>19. w = Own(f.v)
  OBVIOUS
<1> HIDE DEF w
<1>20. /\ parser'.phase = f.phase /\ parser'.wrong = f.wrong /\ parser'.event = f.event
       /\ parser'.pending = [f.pending EXCEPT !["motions"] = Append(f.pending["motions"], w)]
  BY <1>15, <1>17, <1>18, MotionPut
<1>21. Going(q)
  BY <1>13, <1>14, <1>20
<1>22. f = Finalized(q) /\ ~f.wrong
  BY <1>14, <1>20, <1>21
<1>23. /\ ~q.wrong /\ f.phase = q.phase /\ f.pending = q.pending /\ f.event = q.event
       /\ Lasting(f.event, f.v) /\ \A k, t : ReachedAt(q.v, k, t) => ReachedAt(f.v, k, t)
  BY <1>12, <1>22, FinalLasts
<1>24. /\ Apart(start, q) /\ Sits(q, h)
       /\ \A m \in Range(h.marks) : m \in Range(said.marks) \/ OnMark(q.v, m, n)
  BY <1>10, <1>23 DEF InTune
<1>25. \A m \in Range(h.marks) : m \in Range(said.marks) \/ OnMark(f.v, m, n)
  BY <1>23, <1>24 DEF OnMark
<1>26. parser'.pending.motions = Append(parser.pending.motions, w)
  <2>1. f.pending \in PendingOf
    BY <1>15, ParserHas
  <2>2. f.pending.motions = parser.pending.motions
    BY <1>8, <1>23, <1>24 DEF Apart
  <2> QED BY <1>20, <2>1, <2>2 DEF PendingOf
<1>27. /\ parser'.phase = "event" /\ \A g \in TimeFields : parser'.event[g] = parser.event[g]
       /\ Hears(parser'.event.text, h.words, h.pieces) /\ Lasting(parser'.event, f.v)
  BY <1>1, <1>8, <1>20, <1>23, <1>24 DEF Apart, Sits
<1>28. Sung(h, n, f.v)
  BY <1>10, <1>18, <1>19, <1>25, <1>26, <1>27 DEF Sung
<1> QED BY <1>28 DEF h

LEMMA KaraokePlays ==
  ASSUME NEW x, NEW ok, Listening(x, ok), Karaoke(x), ~parser'.wrong PROVE Plays
<1> DEFINE body == x.body
           styles == {i \in DOMAIN body : body[i].set = "styles"}
           morph == body[Min(styles)]
           list == said.over.motions
           moved == parser'.pending.motions[Len(list) + 1].own
           w2 == Own(Sealed("motion", moved, parser'.metas))
           over == [said.over EXCEPT !.motions = Append(list, w2)]
           over2 == IF styles = {} THEN over
                    ELSE [over EXCEPT !.style = InInfo(SaidAt("style", morph.ref)),
                                      !.secondary = InInfo(SaidAt("style", morph.ref2))]
           n == Len(list) + 1
           heard == MarksOf(body, Len(over.motions))
           words == heard.words
           pieces == heard.pieces
           marks == heard.marks
           S == InfoSlot \cup OwnSlot(MotionVal)
<1>1. /\ x.do = "karaoke" /\ Score(said) /\ Shaped(said) /\ DOMAIN said.over = OverFields
      /\ parser.pending \in PendingOf /\ Playing(parser, said) /\ (x.do \in Statements => said' = Say(x))
  BY ListeningHas DEF Karaoke, Listening
<1>2. said' = Say(x)
  BY <1>1 DEF Statements
<1>3. said' = [said EXCEPT !.pieces = pieces, !.words = words, !.marks = marks, !.over = over2]
  BY <1>1, <1>2 DEF Say, Slots
<1>4. list \in Seq(Range(list)) /\ Len(list) \in Nat
  BY <1>1 DEF Score
<1>5. Len(Append(list, w2)) = n /\ n \in Int
  <2> HIDE DEF list, w2
  <2>1. Len(Append(list, w2)) = Len(list) + 1
    BY <1>4, AppendRanges
  <2> QED BY <1>4, <2>1
<1> HIDE DEF w2, list
<1>6. DOMAIN over = OverFields /\ over["motions"] = Append(list, w2) /\ "motions" \in OverFields
  BY <1>1 DEF OverFields
<1> HIDE DEF over
<1>7. DOMAIN over2 = OverFields /\ over2.motions = Append(list, w2)
  <2> DEFINE a == InInfo(SaidAt("style", morph.ref))
             b == InInfo(SaidAt("style", morph.ref2))
  <2>1. over2 = over \/ over2 = [over EXCEPT !["style"] = a, !["secondary"] = b]
    OBVIOUS
  <2> HIDE DEF a, b, over2
  <2> QED BY <1>6, <2>1
<1> HIDE DEF over2
<1>8. heard = MarksOf(x.body, n)
  BY <1>5, <1>6
<1> HIDE DEF heard, n
<1>9. PICK km : Sung(heard, n, km)
  <2>1. \E km : Sung(MarksOf(x.body, n), n, km)
    BY <1>5, KaraokeSung
  <2> QED BY <1>8, <2>1
<1> HIDE DEF words, pieces, marks
<1>10. /\ said'.over = over2 /\ said'.words = words /\ said'.pieces = pieces /\ said'.marks = marks /\ said'.times = said.times
       /\ DOMAIN said' = DOMAIN said
  BY <1>1, <1>3 DEF Shaped
<1>11. parser.pending.motions \in Seq(S) /\ Own(km) \in S /\ Own(km).at = "own" /\ Own(km).own = km
  BY <1>1, <1>9 DEF PendingOf, Sung, OwnSlot, Own
<1> DEFINE p == parser
           q == parser'
           sd == said
           sd2 == said'
           w == Own(km)
<1>12. Tuned(p, q, sd, sd2, S, w, w2, heard)
  BY <1>1, <1>7, <1>9, <1>10, <1>11 DEF Sung, Tuned, words, pieces, marks, list, n
<1> HIDE DEF p, q, sd, sd2, w, S
<1>13. Playing(q, sd2)
  BY <1>12, SungPlaying
<1> QED BY <1>9, <1>13 DEF q, sd2, Sung, Plays

-----------------------------------------------------------------------------
(* The marks of the event that is read are where they were said, and those   *)
(* of the events that were sent.                                             *)

OnTime(entry, ev) ==
  \A i \in DOMAIN entry.said.marks :
    LET mark == entry.said.marks[i]
        km == ev.motions[mark.motion].own
    IN ReachedAt(km, mark.glyph, mark.at) /\ SumSeq(km.durations) = ev.t1 - ev.t0
InText(entry, ev) == Clean(entry.said.pieces) => Seen(ev.text) = SeenOf(entry.said.pieces)
Heeds(entry, ev) == InText(entry, ev) /\ (~entry.keepalive => OnTime(entry, ev))
AllOnTime == Len(saidlog) = Len(sent) /\ \A n \in DOMAIN saidlog : Heeds(saidlog[n], sent[n])
Tuneful(p, sd) ==
  /\ p.phase \in {"defs", "events"} => p.pending.motions = <<>>
  /\ p.phase = "event" => Playing(p, sd)
InTime == ~parser.wrong => Tuneful(parser, said) /\ AllOnTime

LEMMA InTimeNext ==
  ASSUME InTime, UNCHANGED <<sent, saidlog>>, parser.wrong => parser'.wrong,
         ~parser'.wrong => Tuneful(parser', said')
  PROVE  InTime'
<1>1. AllOnTime => AllOnTime'
  BY DEF AllOnTime
<1>2. Tuneful(parser', said') => Tuneful(parser, said)'
  OBVIOUS
<1> QED BY <1>1, <1>2 DEF InTime

(* An event begins with nothing said.                                        *)
LEMMA PlayingFirst ==
  ASSUME NEW q, q.event = Event0, q.pending.motions = <<>> PROVE Playing(q, Said0)
<1>1. /\ Said0.words = <<>> /\ Said0.pieces = <<>> /\ Said0.marks = <<>> /\ Said0.over.motions = <<>> /\ Event0.text = <<>>
  BY DEF Said0, Pending0, Event0
<1>2. Shaped(Said0)
  BY DEF Said0, Shaped, Pending0, OverFields
<1> HIDE DEF Said0, Event0
<1>3. <<>> \in Seq(Word) /\ <<>> \in Seq(Piece) /\ <<>> \in Seq(Mark) /\ <<>> \in Seq(Range(<<>>)) /\ Range(<<>>) = {}
  BY DEF Range
<1>4. Score(Said0)
  BY <1>1, <1>2, <1>3 DEF Score
<1> QED BY <1>1, <1>3, <1>4, NothingHeard DEF Playing

(* The statements outside of an event leave the overrides.                   *)
LEMMA QuietTuneful ==
  ASSUME NEW x, NEW ok, Ready(x, ok), Listen(x), ~Unreadable(x), Tuneful(parser, said),
         Comment(x) \/ Timebase(x) \/ OpenEvent(x) \/ Finish(x)
  PROVE  Tuneful(parser', said')
<1> DEFINE q == parser'
<1>1. parser \in Parsers({<<>>}) /\ Place(x) = parser.phase
  BY PlaceIs DEF Ready, Parsing
<1>2. CASE Comment(x) \/ Timebase(x)
  <2>1. parser.phase = "defs"
    BY <1>1, <1>2 DEF Comment, Timebase, Place
  <2> DEFINE c == Append(parser.comments, x.name)
             time == x.time
             r1 == [parser EXCEPT !.comments = c]
             r2 == [parser EXCEPT !.timebase = time]
  <2>2. q \in {[r EXCEPT !.v = <<>>] : r \in {parser, r1, r2}}
    BY <1>2 DEF Comment, Timebase, Only, Read
  <2> HIDE DEF c, time, q
  <2>3. q.phase = parser.phase /\ q.pending = parser.pending
    BY <1>1, <2>2 DEF Parsers
  <2> QED BY <2>1, <2>3 DEF Tuneful, q
<1>3. CASE OpenEvent(x)
  <2>1. parser.phase = "events" /\ x.do = "event"
    BY <1>1, <1>3 DEF OpenEvent, Place
  <2> DEFINE e == Event0
             r == [parser EXCEPT !.phase = "event", !.event = e]
  <2>2. q = [r EXCEPT !.v = <<>>]
    BY <1>3 DEF OpenEvent, Only, Read
  <2>3. said' = Said0
    BY <2>1 DEF Listen, Statements, Slots
  <2> HIDE DEF e, q
  <2>4. q.phase = "event" /\ q.event = e /\ q.pending = parser.pending
    BY <1>1, <2>2 DEF Parsers
  <2>5. q.pending.motions = <<>> /\ q.event = Event0
    BY <2>1, <2>4 DEF Tuneful, e
  <2>6. Playing(q, Said0)
    BY <2>5, PlayingFirst
  <2> QED BY <2>3, <2>4, <2>6 DEF Tuneful, q
<1>4. CASE Finish(x)
  <2> DEFINE r == [parser EXCEPT !.phase = "done"]
  <2>1. q = [r EXCEPT !.v = <<>>]
    BY <1>4 DEF Finish, Only, Read
  <2> HIDE DEF q
  <2>2. q.phase = "done"
    BY <1>1, <2>1 DEF Parsers
  <2> QED BY <2>2 DEF Tuneful, q
<1> QED BY <1>2, <1>3, <1>4

LEMMA EventPlays ==
  ASSUME NEW x, NEW ok, Listening(x, ok), ~parser'.wrong,
         \/ SetTimes(x) \/ SetText(x) \/ SetSlot(x) \/ AddLocalBitmap(x) \/ AddEventMotion(x) \/ SetMapping(x)
         \/ AddEventMeta(x) \/ SetId(x) \/ SetLanguage(x) \/ SetDirectionality(x) \/ Karaoke(x)
  PROVE  Plays
BY TimesPlay, TextPlays, SlotPlays, MotionPlays, OtherPlays, KaraokePlays

LEMMA StatementInTime ==
  ASSUME InTime, NEW x, NEW ok, Ready(x, ok), Listen(x), ~Unreadable(x), Statement(x)
  PROVE  InTime'
<1>1. After(parser, parser', ok) /\ Events
  BY StatementIs
<1>2. UNCHANGED <<sent, saidlog>> /\ (parser.wrong => parser'.wrong)
  BY <1>1 DEF Events, After
<1>3. ASSUME ~parser'.wrong PROVE Tuneful(parser', said')
  <2>1. Tuneful(parser, said) /\ Place(x) = parser.phase
    BY <1>2, <1>3, PlaceIs DEF InTime
  <2>2. CASE \/ SetTimes(x) \/ SetText(x) \/ SetSlot(x) \/ AddLocalBitmap(x) \/ AddEventMotion(x) \/ SetMapping(x)
             \/ AddEventMeta(x) \/ SetId(x) \/ SetLanguage(x) \/ SetDirectionality(x) \/ Karaoke(x)
    <3>1. x.do \in Statements \cup {"id"}
      BY <2>2 DEF Statements, SetTimes, SetText, SetSlot, AddLocalBitmap, AddEventMotion, SetMapping,
                  AddEventMeta, SetId, SetLanguage, SetDirectionality, Karaoke
    <3>2. Place(x) = "event"
      BY <3>1 DEF Place, Statements, Slots
    <3>3. Listening(x, ok)
      BY <2>1, <3>2 DEF Tuneful, Listening
    <3>4. Plays
      BY <1>3, <2>2, <3>3, EventPlays
    <3> QED BY <3>4 DEF Plays, Tuneful
  <2>3. CASE Comment(x) \/ Timebase(x) \/ OpenEvent(x) \/ Finish(x)
    BY <2>1, <2>3, QuietTuneful
  <2>4. CASE HeadersFail(x)
    <3> DEFINE r == Ended(parser, "exited")
    <3>1. Read(r)
      BY <2>4 DEF HeadersFail, Only
    <3>2. r \in Parsers({<<>>}) /\ r.wrong
      BY EndedIs DEF Ready, Parsing
    <3> HIDE DEF r
    <3>3. parser'.wrong
      BY <3>1, <3>2, DroppedHas DEF Read
    <3> QED BY <1>3, <3>3
  <2> QED BY <2>2, <2>3, <2>4 DEF Statement
<1> QED BY <1>2, <1>3, InTimeNext

LEMMA SyntaxInTime ==
  ASSUME InTime, NEW x, NEW ok, Ready(x, ok), SyntaxError(x)
  PROVE  InTime'
<1> DEFINE r == Ended(parser, "stopped")
<1>1. parser' = [r EXCEPT !.v = <<>>] /\ UNCHANGED <<sent, saidlog>>
  BY DEF SyntaxError, Only, Read, Events
<1>2. r \in Parsers({<<>>}) /\ r.wrong
  BY EndedIs DEF Ready, Parsing
<1> HIDE DEF r
<1>3. parser'.wrong
  BY <1>1, <1>2, DroppedHas
<1> QED BY <1>1, <1>3, InTimeNext

LEMMA DefineInTime ==
  ASSUME InTime, Books, loose' \in BOOLEAN, loose => loose', NEW x, Ready(x, ~loose'), Listen(x),
         ~Unreadable(x), Define(x)
  PROVE  InTime'
<1> DEFINE r == ItemFrom(x.kind, parser, Initial(x.kind), x.body)
           ok == ~loose'
           q == parser'
<1>1. r \in ItemOf(x.kind, parser, ok) /\ AddItem(x, r) /\ x.do = "define"
  BY DefineReads
<1> HIDE DEF r, ok
<1>2. Read(r) /\ UNCHANGED <<sent, saidlog>>
  BY <1>1 DEF AddItem, Events
<1>3. /\ r \in Parsers(Val(x.kind)) /\ r.pending = parser.pending /\ (parser.wrong => r.wrong)
      /\ (r.phase = parser.phase \/ r.wrong)
  BY <1>1 DEF ItemOf, Moves, Aside
<1>4. q.phase = r.phase /\ q.wrong = r.wrong /\ q.pending = r.pending
  BY <1>2, <1>3, DroppedHas DEF Read
<1>5. parser.phase = "defs"
  <2>1. Place(x) = "defs"
    BY <1>1 DEF Place
  <2> QED BY <2>1, PlaceIs
<1> HIDE DEF q
<1>6. ~q.wrong => Tuneful(q, said')
  BY <1>3, <1>4, <1>5 DEF InTime, Tuneful
<1>7. (parser.wrong => parser'.wrong) /\ (~parser'.wrong => Tuneful(parser', said'))
  BY <1>3, <1>4, <1>6 DEF q
<1> QED BY <1>2, <1>7, InTimeNext

LEMMA HeadersInTime ==
  ASSUME InTime, NEW x, NEW ok, Ready(x, ok), Listen(x), ~Unreadable(x), Headers(x)
  PROVE  InTime'
<1> DEFINE r == [parser EXCEPT !.phase = "events"]
           q == parser'
<1>1. q = [r EXCEPT !.v = <<>>] /\ UNCHANGED <<sent, saidlog>> /\ x.do = "headers"
  BY DEF Headers, Read
<1>2. parser \in Parsers({<<>>}) /\ parser.phase = "defs"
  <2>1. Place(x) = "defs"
    BY <1>1 DEF Place
  <2> QED BY <2>1, PlaceIs DEF Ready, Parsing
<1> HIDE DEF q
<1>3. q.phase = "events" /\ q.wrong = parser.wrong /\ q.pending = parser.pending
  BY <1>1, <1>2 DEF Parsers
<1>4. ~q.wrong => Tuneful(q, said')
  BY <1>2, <1>3 DEF InTime, Tuneful
<1>5. (parser.wrong => parser'.wrong) /\ (~parser'.wrong => Tuneful(parser', said'))
  BY <1>3, <1>4 DEF q
<1> QED BY <1>1, <1>5, InTimeNext

(* A motion is encoded as it is but for its metadata.                        *)
LEMMA MotionEncoded ==
  ASSUME NEW slot \in InfoSlot \cup OwnSlot(MotionVal), slot.at = "own", NEW p
  PROVE  LET km == Encoded(p, slot, "motion").own
         IN km.curves = slot.own.curves /\ km.durations = slot.own.durations
<1> DEFINE v == slot.own
           km == Sealed("motion", v, p.metas)
<1>1. Encoded(p, slot, "motion") = Own(km) /\ Own(km).own = km
  BY DEF Encoded, Own
<1>2. v \in MotionVal
  BY DEF OwnSlot, InfoSlot
<1>3. km = [v EXCEPT !.meta = IF @ = 0 THEN <<>> ELSE p.metas[@]] \/ km = v
  BY DEF Sealed
<1> HIDE DEF v, km
<1>4. km.curves = v.curves /\ km.durations = v.durations
  BY <1>2, <1>3 DEF MotionVal, MotionOf
<1> QED BY <1>1, <1>4 DEF v

LEMMA EventOnTime ==
  ASSUME parser \in Parsers({<<>>}), Playing(parser, said), NEW kept, NEW start, NEW end, NEW due,
         Closing(kept, start, end, due), ~due, NEW entry, entry.said = said
  PROVE  OnTime(entry, EncodedEvent(parser, kept, start, end))
<1> DEFINE e == EncodedEvent(parser, kept, start, end)
           enc == EncodedOver(parser, kept)
           motions == parser.pending.motions
           ev == parser.event
<1>1. /\ parser.pending \in PendingOf /\ ev \in EventOf /\ parser.timebase \in Int
  BY ParserHas
<1>2. /\ TimesGiven(ev) = 2 /\ kept = [parser.pending EXCEPT !.markup = ev.markup]
      /\ start = parser.timebase + Start(ev) /\ end = parser.timebase + End(ev)
  BY DEF Closing
<1>3. DOMAIN kept = OverFields /\ kept.motions = motions
  BY <1>1, <1>2 DEF PendingOf, OverFields
<1>4. DOMAIN enc = OverFields /\ enc.motions = [i \in DOMAIN motions |-> Encoded(parser, motions[i], "motion")]
  <2>1. EncodedAs(parser, kept, enc)
    BY <1>3, EncodedAll
  <2> HIDE DEF enc
  <2> QED BY <1>3, <2>1 DEF EncodedAs
<1> HIDE DEF enc
<1>5. e.motions = enc.motions /\ e.t0 = start /\ e.t1 = end
  <2> DEFINE times == [t0 |-> start, t1 |-> end, text |-> ev.text]
  <2>1. e = Beside(enc, times)
    BY DEF EncodedEvent, enc
  <2>2. DOMAIN times = {"t0", "t1", "text"} /\ times["t0"] = start /\ times["t1"] = end
    OBVIOUS
  <2>3. "motions" \in OverFields /\ "t0" \notin OverFields /\ "t1" \notin OverFields
    BY DEF OverFields
  <2> HIDE DEF times, e
  <2>4. e["motions"] = enc["motions"] /\ e["t0"] = start /\ e["t1"] = end
    BY <1>4, <2>1, <2>2, <2>3 DEF Beside
  <2> QED BY <2>4
<1>6. e.t1 - e.t0 = End(ev) - Start(ev)
  <2>1. Start(ev) \in Int /\ End(ev) \in Int
    BY <1>1, TimesAre
  <2> QED BY <1>1, <1>2, <1>5, <2>1
<1> HIDE DEF e
<1>7. motions \in Seq(InfoSlot \cup OwnSlot(MotionVal))
  BY <1>1 DEF PendingOf
<1>8. ~Timed3(ev)
  BY <1>1, <1>2, GivenHas
<1>9. ASSUME NEW i \in DOMAIN said.marks
      PROVE  LET mark == said.marks[i]
                 km == e.motions[mark.motion].own
             IN ReachedAt(km, mark.glyph, mark.at) /\ SumSeq(km.durations) = e.t1 - e.t0
  <2> DEFINE mark == said.marks[i]
             km == e.motions[mark.motion].own
             n == mark.motion
  <2>1. mark \in Range(said.marks)
    BY DEF Range
  <2>2. MarkHeld(mark, motions, ev)
    BY <2>1 DEF Playing
  <2>3. n \in DOMAIN motions /\ motions[n].at = "own" /\ ReachedAt(motions[n].own, mark.glyph, mark.at)
        /\ Lasting(ev, motions[n].own)
    BY <2>2 DEF MarkHeld
  <2> HIDE DEF mark
  <2>4. motions[n] \in InfoSlot \cup OwnSlot(MotionVal)
    BY <1>7, <2>3
  <2>5. e.motions[n] = Encoded(parser, motions[n], "motion")
    BY <1>4, <1>5, <2>3
  <2>6. km.curves = motions[n].own.curves /\ km.durations = motions[n].own.durations
    BY <2>3, <2>4, <2>5, MotionEncoded
  <2>7. SumSeq(km.durations) = End(ev) - Start(ev)
    BY <1>8, <2>3, <2>6 DEF Lasting
  <2> HIDE DEF km
  <2>8. ReachedAt(km, mark.glyph, mark.at)
    BY <2>3, <2>6 DEF ReachedAt
  <2> QED BY <1>6, <2>7, <2>8 DEF km, mark
<1> QED BY <1>9 DEF OnTime, e

LEMMA EventInText ==
  ASSUME parser \in Parsers({<<>>}), Playing(parser, said), NEW kept, NEW start, NEW end, NEW due,
         Closing(kept, start, end, due), NEW entry, entry.said = said
  PROVE  InText(entry, EncodedEvent(parser, kept, start, end))
<1> DEFINE e == EncodedEvent(parser, kept, start, end)
           enc == EncodedOver(parser, kept)
           times == [t0 |-> start, t1 |-> end, text |-> parser.event.text]
<1>1. /\ parser.pending \in PendingOf
      /\ kept = Pending0 \/ kept = [parser.pending EXCEPT !.markup = parser.event.markup]
  BY ParserHas DEF Closing
<1>2. DOMAIN kept = OverFields
  BY <1>1 DEF PendingOf, Pending0, OverFields
<1>3. DOMAIN enc = OverFields
  <2>1. EncodedAs(parser, kept, enc)
    BY <1>2, EncodedAll
  <2> HIDE DEF enc
  <2> QED BY <1>2, <2>1 DEF EncodedAs
<1>4. e = Beside(enc, times)
  BY DEF EncodedEvent
<1> HIDE DEF enc, e
<1>5. DOMAIN times = {"t0", "t1", "text"} /\ times["text"] = parser.event.text
  OBVIOUS
<1> HIDE DEF times
<1>6. "text" \notin OverFields
  BY DEF OverFields
<1>7. e["text"] = parser.event.text
  BY <1>3, <1>4, <1>5, <1>6 DEF Beside
<1>8. Hears(parser.event.text, said.words, said.pieces)
  BY DEF Playing
<1> QED BY <1>7, <1>8, HeardSeen DEF InText, e

LEMMA AllOnTimeMore ==
  ASSUME AllOnTime, Logged, NEW entry, NEW e, Heeds(entry, e),
         saidlog' = Append(saidlog, entry), sent' = Append(sent, e)
  PROVE  AllOnTime'
<1> DEFINE m == Len(saidlog)
<1>1. saidlog \in Seq(Range(saidlog)) /\ sent \in Seq(Range(sent)) /\ Len(sent) = m
  BY DEF Logged, AllOnTime
<1>2. /\ m \in Nat /\ Len(saidlog') = m + 1 /\ DOMAIN saidlog' = 1 .. m + 1 /\ DOMAIN saidlog = 1 .. m
      /\ saidlog'[m + 1] = entry /\ \A i \in 1 .. m : saidlog'[i] = saidlog[i]
  BY <1>1, AppendEach
<1>3. Len(sent') = m + 1 /\ sent'[m + 1] = e /\ \A i \in 1 .. m : sent'[i] = sent[i]
  <2> DEFINE n == Len(sent)
  <2>1. /\ Len(sent') = n + 1 /\ sent'[n + 1] = e /\ \A i \in 1 .. n : sent'[i] = sent[i]
    BY <1>1, AppendEach
  <2>2. n = m
    BY <1>1
  <2> QED BY <2>1, <2>2
<1>4. \A n \in 1 .. m : Heeds(saidlog[n], sent[n])
  BY <1>2 DEF AllOnTime
<1> HIDE DEF m
<1>5. \A n \in DOMAIN saidlog' : Heeds(saidlog'[n], sent'[n])
  <2> SUFFICES ASSUME NEW n \in 1 .. m + 1 PROVE Heeds(saidlog'[n], sent'[n])
    BY <1>2
  <2>1. CASE n = m + 1
    BY <1>2, <1>3, <2>1
  <2>2. CASE n \in 1 .. m
    BY <1>2, <1>3, <1>4, <2>2
  <2>3. n = m + 1 \/ n \in 1 .. m
    BY <1>2
  <2> QED BY <2>1, <2>2, <2>3
<1> QED BY <1>2, <1>3, <1>5 DEF AllOnTime

LEMMA EndInTime ==
  ASSUME InTime, Logged, loose' \in BOOLEAN, loose => loose', NEW x, Ready(x, ~loose'), Listen(x),
         ~Unreadable(x), EndEvent(x)
  PROVE  InTime'
<1> DEFINE q == parser'
<1>1. /\ parser.phase = "event"
      /\ ~q.wrong => \E kept, start, end, due : Closing(kept, start, end, due)
  BY EndCloses
<1>2. parser \in Parsers({<<>>})
  BY DEF Ready, Parsing
<1> HIDE DEF q
<1>3. ASSUME ~q.wrong PROVE Tuneful(q, said') /\ AllOnTime'
  <2>1. PICK kept, start, end, due : Closing(kept, start, end, due)
    BY <1>1, <1>3
  <2> DEFINE entry == [said |-> said, times |-> SaidTimes, keepalive |-> due]
             e == EncodedEvent(parser, kept, start, end)
  <2>2. /\ ~parser.wrong /\ q = Turned(parser, "events", Event0, Pending0)
        /\ sent' = Append(sent, e) /\ saidlog' = Append(saidlog, entry)
    BY <2>1 DEF Closing, q
  <2>3. Playing(parser, said) /\ AllOnTime
    BY <1>1, <2>2 DEF InTime, Tuneful
  <2>4. q.phase = "events" /\ q.pending = Pending0
    BY <1>2, <2>2 DEF Turned, Parsers
  <2>5. Tuneful(q, said')
    BY <2>4 DEF Tuneful, Pending0
  <2>6. entry.said = said /\ entry.keepalive = due
    OBVIOUS
  <2> HIDE DEF entry
  <2>7. Heeds(entry, e)
    <3>1. ~due => OnTime(entry, EncodedEvent(parser, kept, start, end))
      BY <1>2, <2>1, <2>3, <2>6, EventOnTime
    <3>2. InText(entry, e)
      BY <1>2, <2>1, <2>3, <2>6, EventInText
    <3> QED BY <2>6, <3>1, <3>2 DEF Heeds
  <2> HIDE DEF e
  <2>8. AllOnTime'
    BY <2>2, <2>3, <2>7, AllOnTimeMore
  <2> QED BY <2>5, <2>8
<1>4. ~parser'.wrong => Tuneful(parser', said') /\ AllOnTime'
  BY <1>3 DEF q
<1> QED BY <1>4 DEF InTime, Tuneful

LEMMA InTimeInit == Init => InTime
<1> SUFFICES ASSUME Init PROVE InTime
  OBVIOUS
<1>1. saidlog = <<>> /\ sent = <<>> /\ parser.phase = "defs" /\ parser.pending = Pending0
  BY DEF Init
<1>2. Tuneful(parser, said)
  BY <1>1 DEF Tuneful, Pending0
<1> QED BY <1>1, <1>2 DEF InTime, AllOnTime

LEMMA InTimeStep == IInv /\ InTime /\ [Next]_vars => InTime'
<1> SUFFICES ASSUME IInv, InTime, [Next]_vars PROVE InTime'
  OBVIOUS
<1>0. Reading /\ Books /\ Logged /\ Parsing /\ loose \in BOOLEAN
  BY DEF IInv, Reading
<1>1. CASE UNCHANGED vars
  <2>1. UNCHANGED <<parser, sent, said, saidlog>>
    BY <1>1 DEF vars
  <2> QED BY <2>1, InTimeNext DEF InTime
<1>3. ASSUME NEW z, Lose(z) PROVE InTime'
  <2>1. UNCHANGED <<parser, sent, said, saidlog>>
    BY <1>3 DEF Lose, Events
  <2> QED BY <2>1, InTimeNext DEF InTime
<1>2. ASSUME NEW x \in Grammar, Handled(x), Listen(x), Going(parser) PROVE InTime'
  <2>1. Going(parser)
    BY <1>2
  <2>3. x \in Grammar /\ Handled(x) /\ Listen(x)
    BY <1>2
  <2>4. loose' = (loose \/ LooseIn(x))
    BY <2>3 DEF Listen
  <2>5. loose' \in BOOLEAN /\ (loose => loose')
    <3>1. (loose \/ LooseIn(x)) \in BOOLEAN
      OBVIOUS
    <3> QED BY <2>4, <3>1
  <2>6. Ready(x, ~loose')
    BY <1>0, <2>1, <2>3, <2>4, <2>5 DEF Ready
  <2> DEFINE ok == ~loose'
  <2>7. Ready(x, ok)
    BY <2>6
  <2> HIDE DEF ok
  <2>8. CASE SyntaxError(x)
    BY <2>7, <2>8, SyntaxInTime
  <2>9. CASE ~Unreadable(x) /\ Statement(x)
    BY <2>3, <2>7, <2>9, StatementInTime
  <2>10. CASE ~Unreadable(x) /\ Define(x)
    BY <1>0, <2>3, <2>5, <2>6, <2>10, DefineInTime
  <2>11. CASE ~Unreadable(x) /\ Headers(x)
    BY <2>3, <2>7, <2>11, HeadersInTime
  <2>12. CASE ~Unreadable(x) /\ EndEvent(x)
    BY <1>0, <2>3, <2>5, <2>6, <2>12, EndInTime
  <2>13. \/ SyntaxError(x)
         \/ ~Unreadable(x) /\ (Statement(x) \/ Define(x) \/ Headers(x) \/ EndEvent(x))
    BY <2>3, Zenon DEF Handled, Statement
  <2> QED BY <2>8, <2>9, <2>10, <2>11, <2>12, <2>13
<1> QED BY <1>0, <1>1, <1>2, <1>3, StepIs

LEMMA InTimeIs == InTime => KaraokeOnTime
<1> SUFFICES ASSUME InTime, ~parser.wrong, NEW n \in DOMAIN saidlog \ spoilt, ~saidlog[n].keepalive
             PROVE  OnTime(saidlog[n], sent[n])
  BY DEF KaraokeOnTime, OnTime
<1> QED BY DEF InTime, AllOnTime, Heeds

LEMMA InTextIs == InTime => TextKept
<1> SUFFICES ASSUME InTime, ~parser.wrong, NEW n \in DOMAIN saidlog \ spoilt PROVE InText(saidlog[n], sent[n])
  BY DEF TextKept, InText, Clean, SeenOf
<1> QED BY DEF InTime, AllOnTime, Heeds

(* Unless an error was told, each glyph marker of a karaoke is at its time   *)
(* in the motion that its statement adds, and that motion lasts as long as   *)
(* its event: whatever other statements the event has, in whatever order,    *)
(* though the motion is whole only when the pause that is left to the end of *)
(* the event is added to it.  A karaoke is read when two of the three times  *)
(* were said; a third after it, which could move the end, ends in an error.  *)
(* Excepted are an event that a keepalive preceded, and one whose words the  *)
(* lexer moved its buffer under, so that another glyph is reached.           *)
THEOREM KaraokeOnTimeAlways == Spec => []KaraokeOnTime
<1>1. Init => IInv /\ InTime
  BY InitIs, InTimeInit
<1>2. IInv /\ InTime /\ [Next]_vars => IInv' /\ InTime'
  BY NextIs, InTimeStep
<1>3. InTime => KaraokeOnTime
  BY InTimeIs
<1> QED BY <1>1, <1>2, <1>3, PTL DEF Spec

(* Unless an error was told, what is seen of the text of each event that is  *)
(* sent is what is seen of the text that its statements say, trimmed as they *)
(* say: a text that each ampersand of it starts an entity in keeps its       *)
(* entities, escapes and newlines, though the words of a karaoke are expanded*)
(* again with all that is before them each time some are added; but for the  *)
(* words of a morph that the lexer moved its buffer under.                   *)
THEOREM TextKeptAlways == Spec => []TextKept
<1>1. Init => IInv /\ InTime
  BY InitIs, InTimeInit
<1>2. IInv /\ InTime /\ [Next]_vars => IInv' /\ InTime'
  BY NextIs, InTimeStep
<1>3. InTime => TextKept
  BY InTextIs
<1> QED BY <1>1, <1>2, <1>3, PTL DEF Spec
=============================================================================
