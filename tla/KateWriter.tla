----------------------------- MODULE KateWriter -----------------------------
(***************************************************************************)
(* The description that katedec prints for the headers and an event        *)
(* (kkate.c), as the statements that kateenc is to read.                   *)
(*                                                                         *)
(* An item of a stream is a record; its metadata is a sequence of leaves   *)
(* [tag, value].  A slot of an event refers to an item of the headers by   *)
(* its index, or has one of its own, or none.  A statement is [do, ...],   *)
(* and the settings between its braces are [set, ...].  Colours, flags     *)
(* other than "bold", positions and wrapping are left out.                 *)
(***************************************************************************)
EXTENDS KateScriptText

(* An item without a name, a style without a font, an event without a       *)
(* language.                                                                 *)
NoName == ""

NoRef == [name |-> NoName, index |-> -1]
ByName(n) == [name |-> n, index |-> 0]
ByIndex(i) == [name |-> NoName, index |-> i]

NoSlot == [at |-> "none", index |-> -1]
InInfo(i) == [at |-> "info", index |-> i]
Own(v) == [at |-> "own", index |-> -1, own |-> v]

If(c, s) == IF c THEN <<s>> ELSE <<>>
Each(s, Write(_)) == [i \in DOMAIN s |-> Write(s[i])]

(* write_metadata: a text as a string; any other value as its bytes, but for *)
(* one that has only the characters of a text and no NUL at its end, which   *)
(* is printed as a string with what follows it in memory.                    *)
MetaSettings(leaves) ==
  Each(leaves, LAMBDA l: [set |-> "meta",
                          leaf |-> IF l.value = "bare" THEN [l EXCEPT !.value = "spilt"] ELSE l])

StyleSettings(ks) ==
  If(ks.font # NoName, [set |-> "font", name |-> ks.font])
  \o (IF ks.width = ks.height
      THEN If(ks.width >= 0, [set |-> "size", n |-> ks.width, metric |-> ks.metric])
      ELSE If(ks.width >= 0, [set |-> "width", n |-> ks.width, metric |-> ks.metric])
           \o If(ks.height >= 0, [set |-> "height", n |-> ks.height, metric |-> ks.metric]))
  \o If(ks.left # 0 \/ ks.top # 0,
        [set |-> "margins", list |-> <<ks.left, ks.top>>,
         metric |-> ks.margins, metric2 |-> ks.margins])
  \o If(ks.bold, [set |-> "bold"])
  \o MetaSettings(ks.meta)

RegionSettings(kr) ==
  <<[set |-> "area", list |-> <<kr.w, kr.h>>, metric |-> kr.metric]>>
  \o If(kr.style >= 0, [set |-> "style", ref |-> ByIndex(kr.style)])
  \o If(kr.clip, [set |-> "clip"])
  \o MetaSettings(kr.meta)

CurveSettings(kc) ==
  <<[set |-> "type", name |-> kc.type]>>
  \o If(kc.pts # <<>>, [set |-> "points", n |-> Len(kc.pts) \div 2, list |-> kc.pts])

MotionSettings(km) ==
  <<[set |-> "semantics", name |-> km.semantics]>>
  \o If(km.periodic, [set |-> "periodic"])
  \o If(km.x # "none" \/ km.y # "none", [set |-> "mapping", name |-> km.x, name2 |-> km.y])
  \o [i \in DOMAIN km.curves |->
        LET slot == km.curves[i]
        IN [set |-> "curve", for |-> km.durations[i], ref |-> ByIndex(slot.index),
            braces |-> slot.at = "own",
            body |-> IF slot.at = "own" THEN CurveSettings(slot.own) ELSE <<>>]]
  \o MetaSettings(km.meta)

PaletteSettings(kp) ==
  <<[set |-> "colors", n |-> Len(kp.colors), list |-> kp.colors]>> \o MetaSettings(kp.meta)

BitmapSettings(kb) ==
  (CASE kb.type = "png" ->
          <<[set |-> "png", n |-> Len(kb.pixels), size |-> <<kb.w, kb.h>>, list |-> kb.pixels]>>
     [] kb.type = "paletted" ->
          <<[set |-> "pixels", n |-> kb.bpp, size |-> <<kb.w, kb.h>>, list |-> kb.pixels]>>
     [] OTHER -> <<>>)
  \o If(kb.offset # 0, [set |-> "offset", n |-> kb.offset])
  \o If(kb.palette >= 0, [set |-> "palette", ref |-> ByIndex(kb.palette)])
  \o MetaSettings(kb.meta)

RangeSettings(kfr) ==
  <<[set |-> "first", n |-> kfr.first], [set |-> "last", n |-> kfr.last],
    [set |-> "bitmap", ref |-> ByIndex(kfr.bitmap)]>>

MappingSettings(kfm) ==
  [i \in DOMAIN kfm |->
     [set |-> "range", ref |-> ByIndex(kfm[i].index), braces |-> kfm[i].at = "own",
      body |-> IF kfm[i].at = "own" THEN RangeSettings(kfm[i].own) ELSE <<>>]]

SettingsOf(kind, v) ==
  CASE kind = "style" -> StyleSettings(v)
    [] kind = "region" -> RegionSettings(v)
    [] kind = "curve" -> CurveSettings(v)
    [] kind = "motion" -> MotionSettings(v)
    [] kind = "palette" -> PaletteSettings(v)
    [] kind = "bitmap" -> BitmapSettings(v)
    [] kind = "range" -> RangeSettings(v)
    [] OTHER -> MappingSettings(v)

-----------------------------------------------------------------------------

Kinds == <<"style", "region", "curve", "motion", "palette", "bitmap", "range", "mapping">>

(* write_kate_headers: the items have no names.                              *)
WrittenDefs(info, comments) ==
  Each(comments, LAMBDA c: [do |-> "comment", name |-> c])
  \o FlattenSeq(Each(Kinds, LAMBDA kind:
       Each(info[kind], LAMBDA v: [do |-> "define", kind |-> kind, name |-> NoName,
                                   body |-> SettingsOf(kind, v)])))
  \o <<[do |-> "headers"]>>

(* A slot that has an item of its own, or the index of one.                  *)
WrittenSlot(do, kind, slot) ==
  If(slot.at # "none",
     [do |-> do, ref |-> ByIndex(slot.index), braces |-> slot.at = "own",
      body |-> IF slot.at = "own" THEN SettingsOf(kind, slot.own) ELSE <<>>])

(* The region of an event, of which there may be none.                       *)
RegionOf(info, slot) ==
  CASE slot.at = "own" -> slot.own
    [] slot.at = "info" /\ slot.index < Len(info["region"]) -> info["region"][slot.index + 1]
    [] OTHER -> [style |-> -1]

(* The style of an event is not printed if its region has it, nor if it is a *)
(* predefined one and there is no region.                                    *)
WrittenStyle(info, ev) ==
  IF \/ ev.style.at = "own"
     \/ ev.region.at # "none" /\ ev.style.index # RegionOf(info, ev.region).style
  THEN WrittenSlot("style", "style", ev.style) ELSE <<>>

(* write_kate_event, of an event that the decoder gave.                      *)
WrittenEvent(info, ev) ==
  <<[do |-> "event"]>>
  \o If(ev.id >= 0, [do |-> "id", n |-> ev.id])
  \o <<[do |-> "from_to", t0 |-> ev.t0, t1 |-> ev.t1]>>
  \o If(ev.language # NoName, [do |-> "language", name |-> ev.language])
  \o If(ev.direction # "l2r", [do |-> "directionality", name |-> ev.direction])
  \o <<[do |-> "text", text |-> WrittenText(ev.text), pre |-> TRUE, markup |-> ev.markup]>>
  \o FlattenSeq(Each(ev.bitmaps, LAMBDA b: WrittenSlot("local", "bitmap", b)))
  \o WrittenSlot("region", "region", ev.region)
  \o WrittenStyle(info, ev)
  \o WrittenSlot("secondary", "style", ev.secondary)
  \o WrittenSlot("mapping", "mapping", ev.mapping)
  \o WrittenSlot("palette", "palette", ev.palette)
  \o WrittenSlot("bitmap", "bitmap", ev.bitmap)
  \o FlattenSeq(Each(ev.motions, LAMBDA m: WrittenSlot("motion", "motion", m)))
  \o Each(MetaSettings(ev.meta), LAMBDA s: [do |-> "meta", leaf |-> s.leaf])
  \o <<[do |-> "end"]>>

Written(info, comments, ev) == WrittenDefs(info, comments) \o WrittenEvent(info, ev)
=============================================================================
