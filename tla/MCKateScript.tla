----------------------------- MODULE MCKateScript -----------------------------
(* Instances of KateScript: what the descriptions of each topic may hold.      *)
EXTENDS KateScript

Named(n) == ByName(n)
MetaOf(tag, value) == [set |-> "meta", leaf |-> [tag |-> tag, value |-> value]]
Def(kind, name, body) == <<[do |-> "define", kind |-> kind, name |-> name, body |-> body]>>
Slot(do, ref, braces, body) == <<[do |-> do, ref |-> ref, braces |-> braces, body |-> body]>>
Whole(do, ref) == Slot(do, ref, FALSE, <<>>)
From(t0, t1) == [do |-> "from_to", t0 |-> t0, t1 |-> t1]
Event(t0, t1) == <<[do |-> "event"], From(t0, t1)>>

(* Styles and regions, with names that are used twice or by nobody.          *)
FontSize(n, m) == [set |-> "size", n |-> n, metric |-> m]
StyleDefs ==
  {Def("style", "s", <<[set |-> "font", name |-> "serif"]>>),
   Def("style", "s", <<FontSize(2, "pixel"), MetaOf("t", "one")>>),
   Def("style", "u", <<[set |-> "width", n |-> 1, metric |-> "pixel"],
                       [set |-> "height", n |-> 2, metric |-> "percent"]>>),
   Def("region", "r", <<[set |-> "style", ref |-> Named("s")], [set |-> "area", list |-> <<5, 6>>, metric |-> "pixel"]>>),
   Def("region", "r", <<[set |-> "clip"], [set |-> "style", ref |-> ByIndex(1)]>>)}
StyleDirectives ==
  {Whole("style", Named("s")), Whole("secondary", ByIndex(1)),
   Slot("style", Named("s"), TRUE, <<[set |-> "bold"], MetaOf("t", "two")>>),
   Slot("secondary", NoRef, TRUE, <<[set |-> "top", n |-> 1, metric |-> "percent"],
                                    [set |-> "left", n |-> 1, metric |-> "percent"]>>),
   Whole("region", Named("r")),
   Slot("region", Named("r"), TRUE, <<MetaOf("bad", "two")>>),
   Slot("region", NoRef, TRUE, <<[set |-> "style", ref |-> Named("s")]>>)}

(* Texts, of every few characters.                                           *)
Tokens == {"a", "blank", "nl", "&", "amp", "semicolon", "<", "#a", "#amp", "#nl", "backn"}
Texts == UNION {[1 .. n -> Tokens] : n \in 0 .. 3} \cup {<<"&", "amp", "semicolon", "#lt">>, <<"&", "a", "nl", "semicolon">>, <<"a", "broken">>}
TextBlocks ==
  {<<[do |-> "text", text |-> t, pre |-> pre, markup |-> pre], [do |-> "end"]>> :
     t \in Texts, pre \in BOOLEAN}

(* Karaoke.                                                                  *)
Glyphs ==
  {[set |-> "pause", time |-> 1],
   [set |-> "glyph", glyph |-> 1, time |-> 1, absolute |-> FALSE],
   [set |-> "glyph", glyph |-> 2, time |-> 2, absolute |-> TRUE],
   [set |-> "pointer", name |-> "glyph_pointer_2"]}
MarkerSettings == Glyphs \cup {[set |-> "heights", list |-> <<0, 2>>]}
MorphSettings ==
  Glyphs \cup
  {[set |-> "words", text |-> <<"a", "#lt">>, time |-> 0, absolute |-> FALSE],
   [set |-> "words", text |-> <<"<", "b", ">">>, time |-> 1, absolute |-> TRUE],
   [set |-> "styles", ref |-> ByIndex(0), ref2 |-> Named("s")]}
KaraokeOf(longest) ==
  LET Bodies(settings) == UNION {[1 .. n -> settings] : n \in 0 .. longest}
      Marker(body) == <<[do |-> "karaoke", morph |-> FALSE, body |-> body]>>
      Morph(body) == <<[do |-> "karaoke", morph |-> TRUE, body |-> body]>>
  IN {Marker(body) : body \in Bodies(MarkerSettings)} \cup {Morph(body) : body \in Bodies(MorphSettings)}
KaraokeStyle == Def("style", "s", <<>>)
KaraokeScripts ==
  {KaraokeStyle \o <<[do |-> "headers"]>> \o ev \o k :
     ev \in {Event(1, 4), Event(4, 7), <<[do |-> "event"]>>}, k \in KaraokeOf(3)}
KaraokeDirectives ==
  KaraokeOf(1) \cup {<<[do |-> "text", text |-> <<"blank", "b">>, pre |-> FALSE, markup |-> FALSE]>>}

(* Curves and motions.                                                       *)
Type(t) == [set |-> "type", name |-> t]
Points(n, list) == [set |-> "points", n |-> n, list |-> list]
OpenPoints(list) == [set |-> "open_points", list |-> list]
CurveOf(for, ref, braces, body) ==
  [set |-> "curve", for |-> for, ref |-> ref, braces |-> braces, body |-> body]
MotionBody(curve) == <<[set |-> "semantics", name |-> "text_path"], curve>>
CurveBodies ==
  {<<Type("linear"), Points(2, <<1, 2, 3, 4>>)>>, <<Type("static"), OpenPoints(<<1, 2>>)>>,
   <<OpenPoints(<<1, 2>>)>>, <<Type("linear"), Points(2, <<1, 2, 3>>)>>, <<Type("linear")>>}
CurveDefs ==
  {Def("curve", "c", body) : body \in CurveBodies}
  \cup {Def("motion", "m", MotionBody(CurveOf(1, Named("c"), FALSE, <<>>)) \o
                           <<[set |-> "mapping", name |-> "frame", name2 |-> "frame"], [set |-> "periodic"]>>)}
MotionDirectives ==
  {Whole("motion", ByIndex(0)),
   Slot("motion", NoRef, TRUE, MotionBody(CurveOf(1, Named("c"), TRUE, <<Type("linear")>>))),
   Slot("motion", NoRef, TRUE, MotionBody(CurveOf(2, NoRef, TRUE, <<Type("linear"), Points(2, <<5, 6, 7, 8>>)>>))),
   Slot("motion", NoRef, TRUE, <<[set |-> "semantics", name |-> "marker"], CurveOf(0, NoRef, TRUE, <<Type("linear"), OpenPoints(<<1, 2, 3>>)>>)>>),
   Slot("motion", NoRef, TRUE, MotionBody(CurveOf(3, Named("c"), TRUE, <<OpenPoints(<<9, 9>>)>>)))}

(* Palettes and bitmaps, and events that fail.                               *)
Pixels(bpp, w, h, list) == [set |-> "pixels", n |-> bpp, size |-> <<w, h>>, list |-> list]
BitmapDefs ==
  {Def("palette", "p", <<[set |-> "colors", n |-> 2, list |-> <<1, 2>>]>>),
   Def("palette", NoName, <<[set |-> "colors", n |-> 2, list |-> <<1>>]>>),
   Def("bitmap", "b", <<Pixels(1, 2, 1, <<0, 1>>), [set |-> "palette", ref |-> Named("p")],
                        [set |-> "percent", n |-> 50]>>),
   Def("bitmap", "b", <<[set |-> "source", size |-> <<1, 1>>, list |-> <<7>>], MetaOf("t", "short")>>)}
BitmapDirectives ==
  {Whole("palette", Named("p")), Whole("bitmap", Named("b")), Whole("local", Named("b")),
   Slot("palette", NoRef, TRUE, <<[set |-> "colors", n |-> 1, list |-> <<3>>]>>),
   Slot("bitmap", NoRef, TRUE, <<Pixels(1, 1, 1, <<2>>)>>),
   Slot("local", NoRef, TRUE, <<Pixels(1, 1, 1, <<1>>), MetaOf("t", "long")>>),
   Slot("local", NoRef, TRUE, <<Pixels(1, 1, 1, <<1>>)>>),
   <<[do |-> "meta", leaf |-> [tag |-> "t", value |-> "short"]]>>,
   <<[do |-> "meta", leaf |-> [tag |-> "bad", value |-> "one"]]>>}

(* Font ranges and mappings.                                                 *)
RangeOf(a, b, ref) == <<[set |-> "first", n |-> a], [set |-> "last", n |-> b], [set |-> "bitmap", ref |-> ref]>>
FontDefs ==
  {Def("bitmap", "b", <<Pixels(1, 1, 1, <<1>>)>>),
   Def("range", "f", RangeOf(1, 1, Named("b"))), Def("range", "f", RangeOf(4, 3, ByIndex(0))),
   Def("range", "f", RangeOf(1, 2, ByIndex(0))),
   Def("mapping", "m", <<[set |-> "range", ref |-> Named("f"), braces |-> FALSE, body |-> <<>>],
                         [set |-> "range", ref |-> NoRef, braces |-> TRUE, body |-> RangeOf(4, 4, ByIndex(0))]>>),
   Def("mapping", "n", <<[set |-> "range", ref |-> ByIndex(0), braces |-> FALSE, body |-> <<>>],
                         [set |-> "range", ref |-> NoRef, braces |-> TRUE, body |-> RangeOf(1, 3, ByIndex(1))]>>)}

(* Times, in all the ways to say them.                                       *)
TimeDirectives ==
  {<<[do |-> "from", t0 |-> 2]>>, <<[do |-> "to", t1 |-> 5]>>, <<[do |-> "for", for |-> 1]>>,
   <<[do |-> "from_for", t0 |-> 6, for |-> 2]>>, <<From(1, 2)>>, <<[do |-> "language", name |-> "en"]>>,
   <<[do |-> "directionality", name |-> "r2l"]>>, <<[do |-> "id", n |-> 7]>>}

MCSpoils == {[name |-> "?", words |-> <<"?", "<">>], [name |-> "?", words |-> <<"broken">>]}
MCTopics == {"styles", "text", "karaoke", "karaokes", "curves", "bitmaps", "fonts", "times"}
MCDefinitions(t) ==
  CASE t = "styles" -> StyleDefs [] t = "curves" -> CurveDefs [] t = "bitmaps" -> BitmapDefs
    [] t = "fonts" -> FontDefs [] t = "karaoke" -> KaraokeScripts [] t = "karaokes" -> {KaraokeStyle}
    [] t = "times" -> {<<[do |-> "timebase", time |-> 1]>>}
    [] OTHER -> {}
MCOpenings(t) ==
  CASE t = "times" -> {<<[do |-> "event"]>>}
    [] t = "bitmaps" -> {Event(1, 2), Event(2, 1)}
    [] t = "styles" -> {Event(1, 2), Event(5, 6)}
    [] t = "karaokes" -> {Event(1, 4), Event(4, 7)}
    [] OTHER -> {Event(1, 4)}
MCDirectives(t) ==
  CASE t = "styles" -> StyleDirectives [] t = "text" -> TextBlocks
    [] t = "karaokes" -> KaraokeDirectives [] t = "curves" -> MotionDirectives
    [] t = "bitmaps" -> BitmapDirectives [] t = "times" -> TimeDirectives
    [] t = "fonts" -> {Whole("mapping", Named("m")), Whole("mapping", ByIndex(1))}
    [] OTHER -> {}
MCBudget(t) ==
  CASE t = "text" -> 2 [] t = "karaoke" -> 1 [] t = "karaokes" -> 4 [] OTHER -> 5

(* Streams that were decoded, each a change or two from a plain one.         *)
NoItems == [k \in AllKinds |-> <<>>]
Sealed0(v) == [v EXCEPT !.meta = <<>>]
Style(f) == [Sealed0(Style0) EXCEPT !.font = f]
Items(styles, regions) == [NoItems EXCEPT !["style"] = styles, !["region"] = regions]
PlainEvent ==
  [t0 |-> 1, t1 |-> 2, text |-> <<"a">>, markup |-> FALSE, region |-> NoSlot, style |-> NoSlot,
   secondary |-> NoSlot, palette |-> NoSlot, bitmap |-> NoSlot, mapping |-> NoSlot, bitmaps |-> <<>>,
   motions |-> <<>>, id |-> -1, language |-> NoName, direction |-> "l2r", meta |-> <<>>]
Plain(items, ev) == [info |-> items, comments |-> <<>>, event |-> ev]

Leaf(tag, value) == [tag |-> tag, value |-> value]
Fonts == {NoName, "serif", "quoted"}
LeafLists == {<<>>, <<Leaf("t", "one")>>, <<Leaf("t", "bare")>>, <<Leaf("quoted", "one")>>,
              <<Leaf("t", "bytes"), Leaf("u", "one")>>}
StyleOfRegion == {-1, 0, 1}
Area(style) == [Sealed0(Region0) EXCEPT !.style = style, !.clip = TRUE]
StyleSources ==
  {Plain(Items(<<[Style(f) EXCEPT !.meta = ls, !.bold = TRUE],
                 [Style(NoName) EXCEPT !.width = 2, !.height = 3, !.left = 1]>>, <<Area(s)>>),
         [PlainEvent EXCEPT !.region = r, !.style = st, !.secondary = sec]) :
     f \in Fonts, ls \in LeafLists, s \in StyleOfRegion,
     r \in {InInfo(0), Own(Area(1))}, st \in {InInfo(0), InInfo(1), Own(Style("serif"))},
     sec \in {NoSlot, InInfo(1)}}
  \cup {Plain(Items(<<Style(NoName)>>, <<>>), [PlainEvent EXCEPT !.style = InInfo(0)])}
TextSources ==
  {Plain(NoItems, [PlainEvent EXCEPT !.text = t, !.markup = m, !.language = l, !.direction = "r2l", !.id = 3]) :
     t \in UNION {[1 .. n -> {"a", "nl", "&", "amp", "semicolon", "quote", "#amp"}] : n \in 0 .. 4},
     m \in BOOLEAN, l \in {"en"}}
Curve(t, pts) == [type |-> t, pts |-> pts]
MotionV(slot, x, leaves) ==
  [semantics |-> "text_path", x |-> x, y |-> "none", periodic |-> x = "none", curves |-> <<slot>>,
   durations |-> <<2>>, meta |-> leaves]
MotionSources ==
  {Plain([NoItems EXCEPT !["curve"] = <<Curve("static", <<1, 2>>)>>,
                         !["motion"] = <<MotionV(InInfo(0), "frame", ls)>>],
         [PlainEvent EXCEPT !.motions = <<m>>, !.meta = ls2]) :
     ls \in {<<>>, <<Leaf("t", "one")>>}, ls2 \in LeafLists,
     m \in {InInfo(0), Own(MotionV(Own(Curve("linear", <<1, 2, 3, 4>>)), "none", <<>>))}}
Pixmap(type, pal) ==
  [type |-> type, w |-> 2, h |-> 1, bpp |-> IF type = "png" THEN 0 ELSE 1, pixels |-> <<0, 1>>,
   palette |-> pal, offset |-> 1, meta |-> <<Leaf("t", "bytes")>>]
BitmapSources ==
  {[Plain([NoItems EXCEPT !["palette"] = <<[colors |-> <<1, 2>>, meta |-> <<>>]>>,
                          !["bitmap"] = <<Pixmap(type, -1), Pixmap("paletted", 0)>>,
                          !["range"] = <<[first |-> 1, last |-> 2, bitmap |-> 0]>>,
                          !["mapping"] = << <<InInfo(0), Own([first |-> 3, last |-> 3, bitmap |-> 1])>> >>],
          [PlainEvent EXCEPT !.bitmap = b, !.bitmaps = bs, !.mapping = InInfo(0),
                             !.palette = Own([colors |-> <<4>>, meta |-> <<>>])])
    EXCEPT !.comments = cs] :
     type \in {"png", "paletted"}, b \in {InInfo(1), Own(Pixmap("png", 0))},
     bs \in {<<>>, <<InInfo(1), Own(Pixmap("paletted", 0))>>},
     cs \in {<<>>, <<"title", "encoder">>, <<"quoted">>}}
MCSources == StyleSources \cup TextSources \cup MotionSources \cup BitmapSources
=============================================================================
