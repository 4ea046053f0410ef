------------------------------ MODULE KateCodec ------------------------------
(***************************************************************************)
(* One packet on its way: an encoder of some version writes it, it may be  *)
(* cut short or be followed by more, a decoder reads it, and a player uses *)
(* what was decoded.                                                       *)
(***************************************************************************)
EXTENDS KateTags

CONSTANTS
  Headers,     (* for each id in 0 .. 8, the contents of that header to try, *)
               (* as [since, v]: v uses additions of version 0.since at most *)
  Events,      (* the events that are tried, as [since, v]                   *)
  Versions,    (* the encoders: [minor, later]                               *)
  Info0,       (* what the headers said, as a ki of KatePackets; its minor   *)
               (* is that of the encoder                                     *)
  Steps,       (* a player looks at 0 .. Steps out of Steps                  *)
  Asked,       (* what it asks of the ID header: [language, base, offset]    *)
  Tags         (* the tags it asks for                                       *)

VARIABLES
  id,          (* the number of the header, -1 for a text packet             *)
  thing,       (* what is encoded                                            *)
  ver,         (* the encoder                                                *)
  ki,          (* the decoder's knowledge                                    *)
  packet,      (* its fields                                                 *)
  stage,       (* "given", "sent", "cut", "followed", "read" or "played"     *)
  damage,      (* "none", or what happened to the packet: "cut", "followed", *)
               (* or "foreign" for a decoder of another stream               *)
  out,         (* what the decoder returned                                  *)
  seen         (* what the player got: the results of its calls, in order    *)
vars == <<id, thing, ver, ki, packet, stage, damage, out, seen>>

Nothing == Failed(<<>>)

Init ==
  /\ ver \in Versions
  /\ \/ /\ id \in DOMAIN Headers /\ thing \in Headers[id]
     \/ id = -1 /\ thing \in Events
  /\ thing.since <= ver.minor
  /\ \E remove \in BOOLEAN : ki = [Info0 EXCEPT !.minor = ver.minor, !.remove = remove]
  /\ id = -1 \/ ~ki.remove
  /\ packet = <<>> /\ stage = "given" /\ damage = "none"
  /\ out = Nothing /\ seen = <<>>

(* What the client has made of what it was asked for, if that was accepted.  *)
Made ==
  CASE id = 0 -> InfoOf(thing.v)
    [] id = 1 -> [thing.v EXCEPT !.comments = Added(@)]
    [] OTHER -> thing.v

(* What kate_encode_headers and kate_encode_text refuse is not sent.         *)
Encode ==
  /\ stage = "given"
  /\ id = -1 => TextValidate(thing.v.text)
  /\ id = 0 => Accepted(thing.v) /\ InfoFits(Made)
  /\ id = 6 => \A c \in ToSet(thing.v) : PaletteFits(c)
  /\ id = 8 => FontsFit(thing.v, ki.size.bitmaps)
  /\ packet' = IF id = -1 THEN TextPacket(Made, ki, ver)
               ELSE Header(id, Made, ver)
  /\ stage' = "sent"
  /\ UNCHANGED <<id, thing, ver, ki, damage, out, seen>>

Cut ==
  /\ stage = "sent" /\ damage = "none"
  /\ \E n \in 1 .. Len(packet) - 1 : packet' = SubSeq(packet, 1, n)
  /\ damage' = "cut"
  /\ UNCHANGED <<id, thing, ver, ki, stage, out, seen>>

Follow ==
  /\ stage = "sent" /\ damage = "none"
  /\ packet' = packet \o U(8, 1)
  /\ damage' = "followed"
  /\ UNCHANGED <<id, thing, ver, ki, stage, out, seen>>

(* The headers that the decoder has read are of a stream with smaller tables.*)
Misdirect ==
  /\ stage = "sent" /\ damage = "none"
  /\ ki' = [ki EXCEPT !.size = [t \in DOMAIN @ |-> @[t] - 1]]
  /\ damage' = "foreign"
  /\ UNCHANGED <<id, thing, ver, packet, stage, out, seen>>

Decode ==
  /\ stage = "sent"
  /\ out' = IF id = -1 THEN GetTextPacket(ki, packet) ELSE HeaderIn(ki, packet)
  /\ stage' = "read"
  /\ UNCHANGED <<id, thing, ver, ki, packet, damage, seen>>

-----------------------------------------------------------------------------
(* The player, of what was decoded: it follows the curves and the motions,   *)
(* and looks code points up.                                                 *)

IsRead == stage \in {"read", "played"}
CanPlay == IsRead /\ out.ok /\ out.v # Null

(* The nth of its languages, and the nth of its times.                       *)
AskInfo ==
  /\ CanPlay /\ id = 0 /\ Len(seen) < Len(Asked)
  /\ out.v[1].shift <= GranuleBits    (* a bound on the numbers of the runs    *)
  /\ LET info == out.v[1]
         a == Asked[Len(seen) + 1]
     IN seen' = Append(seen,
          [match |-> MatchesLanguage(info.language, a.language),
           position |-> TimeGranule(info.rate, info.shift, a.base, a.offset),
           granule |-> DurationGranule(info.rate, a.base)])
  /\ stage' = "played"
  /\ UNCHANGED <<id, thing, ver, ki, packet, damage, out>>

(* What the comments, or the metadata of the last region, say of a tag.      *)
HasTags == id = 1 \/ (id = 2 /\ out.v[1] # <<>> /\ Last(out.v[1]).meta # Null)
AskTags ==
  /\ CanPlay /\ HasTags /\ Len(seen) < Len(Tags)
  /\ LET tag == Tags[Len(seen) + 1]
     IN seen' = Append(seen, IF id = 1 THEN CommentsOf(out.v[1].comments, tag)
                             ELSE LeavesOf(Last(out.v[1]).meta[1], tag))
  /\ stage' = "played"
  /\ UNCHANGED <<id, thing, ver, ki, packet, damage, out>>

CurveNames == <<"none", "static", "linear", "catmull_rom", "bezier", "bspline">>
XsOf(c) == OneStream(c.pts, 1, 2)

FollowCurve ==
  /\ CanPlay /\ id = 4 /\ out.v[1] # <<>> /\ Len(seen) <= Steps
  /\ LET c == out.v[1][1]
     IN seen' = Append(seen, CurvePoint(CurveNames[c.type + 1], XsOf(c), Len(seen), Steps))
  /\ stage' = "played"
  /\ UNCHANGED <<id, thing, ver, ki, packet, damage, out>>

FollowMotion ==
  /\ CanPlay /\ id = 5 /\ out.v[1] # <<>> /\ Len(seen) <= Steps
  /\ LET m == out.v[1][1]
     IN seen' = Append(seen, MotionPoint(m.durations, m.periodic = 1, 16 * Steps,
                                         16 * Len(seen)))
  /\ stage' = "played"
  /\ UNCHANGED <<id, thing, ver, ki, packet, damage, out>>

(* The ranges of a mapping: those of the header, or its own.                 *)
RangesOf(fonts, mapping) ==
  [n \in DOMAIN mapping |-> IF DOMAIN mapping[n] = {"idx"}
                            THEN fonts.ranges[mapping[n].idx + 1] ELSE mapping[n].own]

LookUp ==
  /\ CanPlay /\ id = 8 /\ out.v[1].mappings # <<>> /\ Len(seen) <= Steps
  /\ LET f == out.v[1]
         c == 63 + Len(seen)
     IN seen' = Append(seen, GlyphBitmap(RangesOf(f, f.mappings[1]), c))
  /\ stage' = "played"
  /\ UNCHANGED <<id, thing, ver, ki, packet, damage, out>>

ReadText ==
  /\ CanPlay /\ id = -1 /\ seen = <<>>
  /\ seen' = Glyphs(out.v[1].text)
  /\ stage' = "played"
  /\ UNCHANGED <<id, thing, ver, ki, packet, damage, out>>

Next == \/ Encode \/ Cut \/ Follow \/ Misdirect \/ Decode
        \/ AskInfo \/ AskTags \/ FollowCurve \/ FollowMotion \/ LookUp \/ ReadText

Spec == Init /\ [][Next]_vars

-----------------------------------------------------------------------------
(* What is lost by the run length codec: the first pixel of a line.          *)
SamePixels(b, c) ==
  \/ b.pixels = c.pixels
  \/ /\ b.type = Paletted /\ Len(b.pixels) = Len(c.pixels)
     /\ \A i \in DOMAIN b.pixels : Tail(b.pixels[i]) = Tail(c.pixels[i])
SameBitmap(b, c) == SamePixels(b, c) /\ [b EXCEPT !.pixels = c.pixels] = c

Close8(x, y) == Len(x) = Len(y) /\ \A i \in DOMAIN x : x[i] - y[i] \in -7 .. 7
SameStyle(a, b) == Close8(a.floats, b.floats) /\ [a EXCEPT !.floats = b.floats] = b
All(R(_, _), x, y) == Len(x) = Len(y) /\ \A n \in DOMAIN x : R(x[n], y[n])

(* An event with no style may have got that of its region.                   *)
SameEvent(e, got) ==
  [len |-> Len(e.text), style |-> IF e.style = Null THEN got.style ELSE e.style] @@ e
  = got

Same ==
  CASE id = -1 -> SameEvent(Made, out.v[1])
    [] id = 0 -> out.v[1] = [minor |-> ver.minor] @@ Made
    [] id = 3 -> All(SameStyle, Made, out.v[1])
    [] id = 7 -> All(SameBitmap, Made, out.v[1])
    [] OTHER -> out.v[1] = Made

Writable == id = -1 => EventFits(thing.v) /\ Len(thing.v.text) <= Limit

TypeOK ==
  /\ id \in -1 .. 8 /\ ver \in Versions
  /\ stage \in {"given", "sent", "read", "played"}
  /\ damage \in {"none", "cut", "followed", "foreign"}
  /\ out.ok \in BOOLEAN
  /\ Len(seen) <= IF id = -1 THEN Limit ELSE Max({Steps + 1, Len(Asked), Len(Tags)})

(* What was given is what is decoded, whichever encoder wrote it, an older   *)
(* one that makes fewer additions or a later one that makes more; but for    *)
(* the first pixels of the lines of a bitmap, and for numbers that fall      *)
(* between two values of a kate_fp.  A text packet may be followed by        *)
(* anything, a header may not.                                               *)
RoundTrip ==
  IsRead /\ Writable /\ ~ki.remove /\ damage # "foreign" =>
    IF damage = "none" \/ (damage = "followed" /\ id = -1)
    THEN out.ok /\ Same
    ELSE damage = "followed" => ~out.ok

(* A code point is drawn with a bitmap that there is: the encoder has checked*)
(* that, the decoder does not.                                               *)
FontInTable ==
  id = 8 /\ damage # "foreign" /\ stage = "played" => \A i \in DOMAIN seen : seen[i] \in -1 .. ki.size.bitmaps - 1

(* Whatever packet it is made of, of this stream or of another, what is      *)
(* handed out refers only to what the decoder has.                           *)
Refers == [region |-> "regions", style |-> "styles", secondary |-> "styles",
           mapping |-> "mappings", palette |-> "palettes", bitmap |-> "bitmaps"]
Within(r, table) == DOMAIN r = {"idx"} => r.idx \in 0 .. ki.size[table] - 1
IndicesInTables ==
  /\ TypeOK /\ FontInTable
  /\ id = -1 /\ CanPlay =>
       /\ \A f \in DOMAIN Refers :
            out.v[1][f] # Null => Within(out.v[1][f][1], Refers[f])
       /\ \A r \in ToSet(out.v[1].motions) : Within(r, "motions")
       /\ \A r \in ToSet(out.v[1].bitmaps) : Within(r, "bitmaps")

(* A packet that is cut short stores nothing, be it because an override could*)
(* not be written, which kate_encode_text does not report.                   *)
CutStoresNothing ==
  IsRead /\ (damage = "cut" \/ ~Writable) => ~out.ok \/ out.v = Null

(* The text that is handed out without its markup is what was outside the    *)
(* tags, if every tag is closed and none is closed twice.                    *)
Count(c, s) == Cardinality({i \in DOMAIN s : s[i] = c})
Upto(s, n) == SubSeq(s, 1, n)
Balanced(s) == /\ Count(Lt, s) = Count(Gt, s)
               /\ \A i \in DOMAIN s : Count(Lt, Upto(s, i)) >= Count(Gt, Upto(s, i))
Outside(s) ==
  LET out1 == {i \in DOMAIN s : /\ s[i] \notin {Lt, Gt}
                                /\ Count(Lt, Upto(s, i)) = Count(Gt, Upto(s, i))}
      breaks == {i \in DOMAIN s : HasAt(s, i, <<Lt>> \o Br)}
  IN Each(LAMBDA i: IF i \in breaks THEN <<Newline>>
                    ELSE IF i \in out1 THEN <<s[i]>> ELSE <<>>,
          [i \in DOMAIN s |-> i])
MarkupRemoved ==
  IsRead /\ id = -1 /\ ki.remove /\ out.ok /\ thing.v.markup # 0
  /\ Balanced(thing.v.text) =>
    out.v[1].text = Outside(thing.v.text) /\ out.v[1].markup = 0

(* The characters that a tracker counts spell the text, up to its first NUL. *)
GlyphsSpellText ==
  id = -1 /\ stage = "played" => Each(Utf8, seen) = BeforeNul(out.v[1].text)

(* A player sees the text that was written: what the markup surrounds when   *)
(* it asked for plain text, and as many glyphs as there are characters.      *)
TextSound == MarkupRemoved /\ GlyphsSpellText

(* A curve starts at its first point and ends at its last; a linear curve    *)
(* and a Catmull-Rom spline go through each of their points; and all but the *)
(* latter stay between the points they are made of.                          *)
At(i, x) == seen[i].num = x * seen[i].den
CurveThrough ==
  id = 4 /\ stage = "played" /\ seen[1].ret = 0 =>
    LET c == out.v[1][1]
        xs == XsOf(c)
        n == Segments(CurveNames[c.type + 1], Len(xs))
    IN /\ At(1, xs[1])
       /\ Len(seen) = Steps + 1 /\ c.type # 1 => At(Steps + 1, Last(xs))
       /\ c.type \in {2, 3} /\ Steps % n = 0 =>
            \A k \in 0 .. n : k * (Steps \div n) < Len(seen) =>
              At(k * (Steps \div n) + 1, xs[k + 1])
       /\ c.type # 3 => \A i \in DOMAIN seen :
            /\ seen[i].num >= Min(ToSet(xs)) * seen[i].den
            /\ seen[i].num <= Max(ToSet(xs)) * seen[i].den

(* A motion has a point as long as it lasts, and for ever if it is periodic: *)
(* then it comes back to the same point each time it has lasted, but when it *)
(* lasts no time it never answers.                                           *)
MotionLoops ==
  id = 5 /\ stage = "played" =>
    LET m == out.v[1][1]
        all == Ends(m.durations, 16 * Steps, Len(m.durations))
    IN \A i \in DOMAIN seen :
         LET t == 16 * (i - 1) IN
         /\ seen[i].ret = 0 <=> /\ m.durations # <<>>
                                /\ t <= all \/ (m.periodic = 1 /\ all > 0)
         /\ seen[i].ret = 2 <=> /\ m.periodic = 1 /\ all = 0
                                /\ t > 0 \/ m.durations = <<>>
         /\ \A j \in 1 .. i : t - 16 * (j - 1) = all /\ m.periodic = 1 /\ all > 0 /\ t % all # 0 =>
              seen[i] = seen[j]

(* Curves lead where their points say and motions along their curves.        *)
MotionsSound == CurveThrough /\ MotionLoops

(* The language of the header is the one that was asked for, less the        *)
(* subtags that RFC 4646 takes off its end until it fits and does not end    *)
(* with a single character; and what kate_info_set_language accepts,         *)
(* kate_encode_info can write.                                               *)
RECURSIVE Shortened(_)
Shortened(s) ==
  LET n == SubtagLen(s, Len(s))
  IN IF s = <<>> \/ (Len(s) <= Longest /\ n >= 2) THEN s
     ELSE Shortened(SubSeq(s, 1, Len(s) - n - 1))
LanguageTruncated ==
  id = 0 =>
    LET r == SetLanguage(thing.v.language)
    IN /\ r.ok => r.tag = Shortened(thing.v.language) /\ (r.cut <=> r.tag # thing.v.language)
       /\ Accepted(thing.v) => Len(Made.language) <= Longest
       /\ CanPlay /\ damage = "none" => out.v[1].language = r.tag

(* A perfect match is the same tag.  Two tags match in part only if one of   *)
(* them is empty, or has subtags and a primary tag that the other starts     *)
(* with; and they match whenever their primary tags are the same.            *)
Starts(a, b) == AlikeFor(Primary(a), b, Len(Primary(a))) /\ Primary(a) # a
LanguageMatched ==
  id = 0 /\ stage = "played" =>
    LET a == out.v[1].language
    IN \A i \in DOMAIN seen :
         LET b == Asked[i].language IN
         /\ seen[i].match = Perfect <=> a # <<>> /\ b # <<>> /\ Alike(a, b)
         /\ seen[i].match = Partial => \/ a = <<>> \/ b = <<>>
                                      \/ Starts(a, b) \/ Starts(b, a)
         /\ seen[i].match = Different => ~Alike(Primary(a), Primary(b))

(* A position is that of a time to half a granule, its base does not lie     *)
(* after that time, and it names the granule that an event at that time has; *)
(* and there is one for every time the encoding was asked to hold, but for   *)
(* the last two granules of the longest event.                               *)
PositionsHold ==
  id = 0 /\ stage = "played" /\ thing.v.granules # Null =>
    LET info == out.v[1]
        resolution == thing.v.granules[1]
        unit == Over(info.rate)
    IN \A i \in DOMAIN seen :
         LET a == Asked[i]
             at == SplitTime(info.shift, seen[i].position[1])
             wanted == (a.base + a.offset) * info.rate[1]
         IN IF seen[i].position # Null
            THEN /\ 2 * ((at[1] + at[2]) * unit - wanted) \in -unit .. unit
                 /\ at[1] * unit <= a.base * info.rate[1]
                 /\ a.offset = 0 => at[1] + at[2] = seen[i].granule
            ELSE \/ a.base + 2 * resolution > thing.v.granules[2]
                 \/ a.offset + 2 * resolution > thing.v.granules[3]

(* The comments or the metadata of a tag are found under it, in their order, *)
(* and nothing else, unless the tag of a comment is what another starts with.*)
Entries ==
  IF id = 2 THEN Last(out.v[1]).meta[1]
  ELSE LET those == SelectSeq(out.v[1].comments, HasEquals)
       IN [n \in DOMAIN those |-> [tag |-> TagOf(those[n]), value |-> ValueOf(those[n])]]
TagsFound ==
  stage = "played" /\ HasTags =>
    \A i \in DOMAIN seen :
      LET Named(e) == Alike(Tags[i], e.tag)
          those == SelectSeq(Entries, Named)
          values == [n \in DOMAIN those |-> those[n].value]
      IN IF id = 1 /\ \E e \in ToSet(Entries) : ~Named(e) /\ AlikeFor(Tags[i], e.tag, Len(e.tag))
         THEN ToSet(values) \subseteq ToSet(seen[i]) ELSE seen[i] = values

(* A player that asks a stream for its language, its comments or metadata    *)
(* learns what the client said.                                              *)
QueriesAnswered == LanguageTruncated /\ LanguageMatched /\ TagsFound

=============================================================================
