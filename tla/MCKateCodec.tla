---------------------------- MODULE MCKateCodec ----------------------------
(* What is encoded in the runs: each kind of header empty and with one item  *)
(* of each shape, and events with each parameter by index and by value.      *)
EXTENDS KateCodec

MCFpBits == 16
MCRunBits ==
  [basic |-> 1, zero |-> 2, nonZero |-> 1, startEnd |-> 1, start |-> 2, end |-> 1,
   stop |-> 2, stopStart |-> 2, delta |-> 2, basicInDelta |-> 1, deltaStop |-> 2,
   basicInDeltaStop |-> 2]
MCVersions == {[minor |-> m, later |-> FALSE] : m \in 0 .. 7}
              \cup {[minor |-> 8, later |-> TRUE]}
MCInfo0 ==
  [minor |-> 7, noLimits |-> FALSE, remove |-> FALSE, encoding |-> 0,
   directionality |-> 1, markup |-> 0, regionStyles |-> <<0, -1>>,
   size |-> [regions |-> 2, styles |-> 2, curves |-> 2, motions |-> 2,
             palettes |-> 2, bitmaps |-> 3, mappings |-> 1]]

Given(since, v) == [since |-> since, v |-> v]

(* Languages, as "en", "en-GB", and ones of many subtags.                    *)
En == <<101, 110>>
Tag(l, s) == l \o <<45>> \o s
Seven == [k \in 1 .. 7 |-> 122]
LanguageSeq ==
  << <<>>, En, <<69, 78>>, <<101>>, <<101, 110, 103>>, <<101, 110, 103, 108>>, <<105, 33>>,
   Tag(En, <<71, 66>>), <<101, 110, 95, 71, 98>>, Tag(<<101, 110, 103>>, <<71>>),
   Tag(En, <<>>), Tag(<<>>, En), Tag(Tag(En, <<120>>), Seven),
   Tag(Tag(En, Seven), <<71, 66, 82, 65>>), Tag(Tag(En, Seven), <<71, 66, 82, 65, 65>>),
   Tag(Tag(Tag(En, Seven), <<120>>), <<71, 66, 82, 65>>),
   Tag(Tag(En, Seven), Seven \o <<97, 97>>), Tag(Tag(<<101>>, Seven), Seven) >>
Languages == ToSet(LanguageSeq)
MCAsked ==
  LET l == LanguageSeq
      t == << <<0, 0>>, <<1, 0>>, <<7, 3>>, <<19, 2>>, <<19, 5>>, <<20, 0>>, <<33, 6>>,
              <<40, 30>>, <<41, 0>>, <<150, 1>>, <<700, 20>>, <<1000, 3>> >>
  IN [n \in DOMAIN l |->
        [language |-> l[n], base |-> t[((n - 1) % Len(t)) + 1][1],
         offset |-> t[((n - 1) % Len(t)) + 1][2]]]

Ask == [language |-> <<>>, category |-> <<83>>, directionality |-> 0,
        canvas |-> <<0, 0>>, granules |-> Null]

(* Comments, some of which are not taken.                                    *)
Titles == << <<65, 66, 61, 1>>, <<65, 61, 61, 2>>, <<97, 98, 61>>, <<65, 66, 67, 61, 3>> >>
Untitled == << <<65>>, <<>>, <<61, 1>>, <<7, 61, 1>>, <<65, 0, 61>>, <<65, 61, 255>> >>
MCTags == << <<65>>, <<97>>, <<65, 66>>, <<97, 98, 99>>, <<84>>, <<116>>, <<>> >>

Note == << << [tag |-> <<84>>, value |-> <<0, 255>>], [tag |-> <<65>>, value |-> <<7>>] >> >>
Rgn == [metric |-> 1, box |-> <<0, -15, 400, 14>>, style |-> -1, clip |-> 0, meta |-> Null]
Sty == [floats |-> <<0, 8, -16, 4000, 24, 0, -8, 0>>,
        colors |-> << <<255, 0, 0, 255>>, <<0, 0, 0, 0>>, <<1, 2, 3, 4>> >>,
        metrics |-> <<1, 2>>, faces |-> <<1, 0, 0, 1>>, justify |-> 0, font |-> <<>>,
        wrap |-> 0, meta |-> Null]
Crv(type, pts) == [type |-> type, pts |-> pts]
Mtn(durations, periodic) ==
  [curves |-> [n \in DOMAIN durations |->
                 IF n = 1 THEN [idx |-> 1] ELSE [own |-> Crv(2, <<0, 8, 16, 24>>)]],
   durations |-> durations, mapping |-> <<0, 1, 5>>, periodic |-> periodic,
   meta |-> Null]
Pal(colors) == [colors |-> colors, meta |-> Null]
Red == <<255, 0, 0, 255>>
Bmp(pixels) ==
  [type |-> Paletted, width |-> Len(pixels[1]), height |-> Len(pixels), bpp |-> 2,
   palette |-> 1, pixels |-> pixels, offset |-> <<0, 0>>, meta |-> Null]
File == [type |-> Png, width |-> 3, height |-> 2, bpp |-> 0, palette |-> -1,
         pixels |-> <<137, 80, 78>>, offset |-> <<-3, 20>>, meta |-> Null]
Rng(a, b, n) == [first |-> a, last |-> b, bitmap |-> n]

Lines(w) == [1 .. w -> 0 .. 2]

MCHeaders ==
  [i \in 0 .. 8 |->
   CASE i = 0 -> {Given(0, [Ask EXCEPT !.canvas = c]) :
                    c \in {<<640, 4095>>, <<8190, 65520>>, <<4097, 1>>}}
                 \cup {Given(0, [Ask EXCEPT !.language = l, !.granules = g]) :
                         l \in Languages, g \in {Null, <<1, 1000, 3>>}}
                 \cup {Given(0, [Ask EXCEPT !.category = c]) :
                         c \in {[k \in 1 .. 15 |-> 97], [k \in 1 .. 16 |-> 97]}}
                 \cup {Given(0, [Ask EXCEPT !.granules = <<r, n, l>>]) :
                         r \in {1, 2, 3, 7, 20}, n \in {40, 1000, 20000},
                         l \in {0, 5, 6, 7, 30}}
     [] i = 1 -> {Given(0, [vendor |-> <<75>>, comments |-> c]) :
                    c \in {<<>>, Titles, <<Titles[1], Titles[3], Titles[1]>>, Untitled}}
     [] i = 2 -> {Given(0, <<>>), Given(0, <<Rgn, Rgn>>),
                  Given(2, << [Rgn EXCEPT !.clip = 1], Rgn >>),
                  Given(6, <<Rgn, [Rgn EXCEPT !.meta = Note] >>)}
     [] i = 3 -> {Given(0, <<Sty, [Sty EXCEPT !.floats[2] = 3, !.floats[4] = -31] >>),
                  Given(2, << [Sty EXCEPT !.justify = 1, !.font = <<70, 111>>] >>),
                  Given(4, << [Sty EXCEPT !.wrap = 1] >>),
                  Given(6, << [Sty EXCEPT !.meta = Note] >>)}
     [] i = 4 -> {Given(0, <<>>)}
                 \cup {Given(0, <<Crv(t, p)>>) :
                         t \in 0 .. 5,
                         p \in {<<0, 8, 8, 0>>, <<16, 0, 0, 8, 24, 16, 8, 8>>,
                                <<8, 0>>, <<8, 0, 0, 8, 16, 16, 0, 0, 8, 8, 8, 8, 16, 8>>}}
     [] i = 5 -> {Given(0, <<>>)}
                 \cup {Given(0, <<Mtn(d, p)>>) :
                         d \in {<<16>>, <<-8>>, <<16, 32>>, <<32, -8>>, <<0>>, <<>>},
                         p \in {0, 1}}
                 \cup {Given(6, << [Mtn(<<16, 16>>, 0) EXCEPT !.meta = Note] >>)}
     [] i = 6 -> {Given(0, <<>>), Given(0, <<Pal(<<Red>>), Pal(<<Red, Red>>)>>),
                  Given(0, <<Pal(<<>>)>>),
                  Given(6, << [Pal(<<Red>>) EXCEPT !.meta = Note] >>)}
     [] i = 7 -> {Given(0, <<Bmp(<<v>>)>>) : v \in Lines(4)}
                 \cup {Given(0, <<Bmp(<<v, w>>)>>) : v \in Lines(2), w \in Lines(2)}
                 \cup {Given(4, <<File, Bmp(<< <<2>> >>)>>),
                       Given(6, << [File EXCEPT !.meta = Note] >>)}
     [] OTHER -> {Given(0, [ranges |-> r, mappings |-> m]) :
                    r \in {<<>>, <<Rng(64, 65, 0)>>, <<Rng(65, 66, 1), Rng(64, 64, 0)>>,
                           <<Rng(64, 66, 1)>>},
                    m \in {<<>>, << <<[own |-> Rng(66, 66, 2)]>> >>,
                           << <<[own |-> Rng(65, 66, 2)]>> >>}}
                 \cup {Given(0, [ranges |-> <<Rng(64, 65, 0), Rng(65, 66, 1)>>,
                                 mappings |-> << <<[idx |-> 1], [idx |-> 0]>>, <<>> >>])}]

Evt == [times |-> <<1000, 500, 20>>, text |-> <<72, 105>>, id |-> -1, motions |-> <<>>,
        encoding |-> 0, directionality |-> 1, language |-> Null, region |-> Null,
        style |-> Null, secondary |-> Null, mapping |-> Null, palette |-> Null,
        bitmap |-> Null, markup |-> 0, bitmaps |-> <<>>, meta |-> Null]
Idx(n) == << [idx |-> n] >>
OwnOf(x) == << [own |-> x] >>

Bold == <<60, 98, 62, 72, 111, 60, 47, 98, 62, 33, 60, 98, 114, 62, 72, 105>>
Texts == {<<>>, <<72, 0, 105>>, <<195, 169, 226, 130, 172>>, <<240, 159, 142, 182>>,
          <<195>>, <<226, 130>>, <<237, 160, 128>>, Bold}

MCEvents ==
  {Given(0, [Evt EXCEPT !.text = t, !.id = n]) : t \in Texts, n \in {-1, 0, 40}}
  \cup {Given(2, [Evt EXCEPT !.text = t, !.markup = 1]) :
          t \in {Bold, <<60, 98, 62, 72, 60, 47, 98, 62>>, <<62, 72, 105, 72, 105>>,
                 <<72, 60, 60, 105, 62, 62, 72, 72, 72>>}}
  \cup {Given(0, [Evt EXCEPT !.text = [n \in 1 .. k |-> 64 + n]]) : k \in {16, 17}}
  \cup {Given(0, x) :
          x \in {[Evt EXCEPT !.motions = <<[idx |-> 0], [own |-> Mtn(<<16, 16>>, 1)]>>],
                 [Evt EXCEPT !.directionality = 0, !.language = << <<102, 114>> >>],
                 [Evt EXCEPT !.region = Idx(0)], [Evt EXCEPT !.region = Idx(1)],
                 [Evt EXCEPT !.region = OwnOf([Rgn EXCEPT !.style = 1]), !.mapping = Idx(0)],
                 [Evt EXCEPT !.style = Idx(1), !.secondary = Idx(0)],
                 [Evt EXCEPT !.style = OwnOf(Sty), !.secondary = OwnOf(Sty), !.region = Idx(0)]}}
  \cup {Given(2, x) :
          x \in {[Evt EXCEPT !.palette = Idx(1), !.bitmap = Idx(2)],
                 [Evt EXCEPT !.palette = OwnOf(Pal(<<Red>>)),
                             !.bitmap = OwnOf(Bmp(<< <<1, 1, 2>> >>))],
                 [Evt EXCEPT !.palette = OwnOf(Pal(<<>>)), !.bitmap = Idx(2), !.markup = 1]}}
  \cup {Given(4, [Evt EXCEPT !.bitmaps = <<[idx |-> 0],
                                           [own |-> Bmp(<< <<1, 1, 2>> >>)]>>])}
  \cup {Given(6, [Evt EXCEPT !.meta = Note])}
=============================================================================
