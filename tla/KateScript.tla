----------------------------- MODULE KateScript -----------------------------
(***************************************************************************)
(* kateenc reading a description of a Kate stream (the grammar and the     *)
(* actions of kate_parser.y, which kate_parser.c holds).  Each statement   *)
(* is a step.  The definitions fill the headers; then each event sets      *)
(* overrides of the encoder and is encoded when it ends.                   *)
(*                                                                         *)
(* An error is counted and reading goes on, as yyerror does, but where the *)
(* program exits, reads out of a table, or meets a syntax error.  The      *)
(* description is either any sequence of statements of a topic, or the one *)
(* that katedec printed for a stream (KateWriter).                         *)
(***************************************************************************)
EXTENDS KateWriter

CONSTANTS
  Topics,          (* what the descriptions tried are about                  *)
  Definitions(_),  (* the definitions tried in a topic, as statements        *)
  Openings(_),     (* how an event starts: its first statements              *)
  Directives(_),   (* what may follow                                        *)
  Budget(_),       (* how many of these a description has, at most           *)
  Sources,         (* the streams that were printed: [info, comments, event] *)
  KeepaliveTime,   (* option -K, or 0                                        *)
  Garbage,         (* what memory held before                                *)
  Spoils           (* what may be found where a string was, after the lexer  *)
                   (* read more of the file and moved its buffer             *)

VARIABLES
  topic,       (* of Topics, or "printed"                                    *)
  source,      (* what was printed, or none                                  *)
  todo,        (* the statements that come next                              *)
  budget,
  info,        (* the items of each kind                                     *)
  names,       (* their names, as kept                                       *)
  declared,    (* and as written                                             *)
  parser,      (* the static variables, and the overrides of the encoder     *)
  last,        (* last_stream_time                                           *)
  timings,     (* of the encoder: the times of what it sent or refused       *)
  lastBase,    (* the base of its last granule position                      *)
  header,      (* the items as they were sent                                *)
  sent,        (* the events that were sent                                  *)
  said,        (* what the statements of the event said so far               *)
  saidlog,     (* and of each event that was sent                            *)
  shared, loose,  (* whether a style or region added metadata to what it     *)
                  (* derives from; points not after a type, or an odd number *)
  spoilt,      (* the events of which a tag or words were not found again,   *)
               (* and 0 for a definition                                     *)
  lost         (* whether one was looked for in a buffer that was freed      *)
vars == <<topic, source, todo, budget, info, names, declared, parser, last, timings, lastBase,
          header, sent, said, saidlog, shared, loose, spoilt, lost>>

AllKinds == Range(Kinds)

Style0 == [font |-> NoName, width |-> -1, height |-> -1, metric |-> "pixel", left |-> 0, top |-> 0,
           margins |-> "pixel", bold |-> FALSE, meta |-> 0]
Region0 == [metric |-> "percent", w |-> 80, h |-> 10, style |-> -1, clip |-> FALSE, meta |-> 0]
Curve0 == [type |-> "none", pts |-> <<>>]
Motion0 == [semantics |-> "unset", x |-> "none", y |-> "none", periodic |-> FALSE,
            curves |-> <<>>, durations |-> <<>>, meta |-> 0]
Palette0 == [colors |-> <<>>, meta |-> 0]
Bitmap0 == [type |-> "paletted", w |-> 0, h |-> 0, bpp |-> 0, pixels |-> <<>>, palette |-> -1,
            offset |-> 0, meta |-> 0]
Range0 == [first |-> -1, last |-> -1, bitmap |-> -1]
Initial(kind) ==
  CASE kind = "style" -> Style0 [] kind = "region" -> Region0 [] kind = "curve" -> Curve0
    [] kind = "motion" -> Motion0 [] kind = "palette" -> Palette0
    [] kind = "bitmap" -> Bitmap0 [] kind = "range" -> Range0 [] OTHER -> <<>>

Slots == {"region", "style", "secondary", "palette", "bitmap"}
(* init_event: which slots were set is kept apart from the overrides.        *)
Event0 == [t0 |-> -1, t1 |-> -1, for |-> -1, text |-> <<>>, hasText |-> FALSE,
           markup |-> FALSE, set |-> [s \in Slots |-> FALSE]]
(* kate_encode_state_clear_overrides                                         *)
Pending0 == [region |-> NoSlot, style |-> NoSlot, secondary |-> NoSlot, palette |-> NoSlot,
             bitmap |-> NoSlot, mapping |-> NoSlot, bitmaps |-> <<>>, motions |-> <<>>,
             language |-> NoName, direction |-> "l2r", markup |-> FALSE, meta |-> <<>>]

-----------------------------------------------------------------------------
(* The grammar: the settings of each kind of item, and the statements.  Some *)
(* items may derive from one of the headers, and the others may only name it.*)

Reference == [name : STRING, index : Nat \cup {-1}]
MetaForm == [set : {"meta"}, leaf : [tag : STRING, value : STRING]]
StyleForm ==
  [set : {"font"}, name : STRING] \cup [set : {"bold"}] \cup MetaForm
  \cup [set : {"width", "height", "size", "left", "top"}, n : Int, metric : STRING]
  \cup [set : {"margins"}, list : Int \X Int, metric : STRING, metric2 : STRING]
RegionForm ==
  [set : {"area"}, list : Int \X Int, metric : STRING] \cup [set : {"clip"}]
  \cup [set : {"style"}, ref : Reference] \cup MetaForm
CurveForm ==
  [set : {"type"}, name : STRING] \cup [set : {"points"}, n : Int, list : Seq(Int)]
  \cup [set : {"open_points"}, list : Seq(Int)]
MotionForm ==
  [set : {"semantics"}, name : STRING] \cup [set : {"periodic"}]
  \cup [set : {"mapping"}, name : STRING, name2 : STRING] \cup MetaForm
  \cup [set : {"curve"}, for : Nat, ref : Reference, braces : BOOLEAN, body : Seq(CurveForm)]
PaletteForm == [set : {"colors"}, n : Nat, list : Seq(Int)] \cup MetaForm
BitmapForm ==
  [set : {"pixels", "png"}, n : Nat, size : Nat \X Nat, list : Seq(Nat)]
  \cup [set : {"source"}, size : Nat \X Nat, list : Seq(Nat)]
  \cup [set : {"palette"}, ref : Reference] \cup [set : {"offset", "percent"}, n : Int] \cup MetaForm
RangeForm == [set : {"first", "last"}, n : Int] \cup [set : {"bitmap"}, ref : Reference]
MappingForm == [set : {"range"}, ref : Reference, braces : BOOLEAN, body : Seq(RangeForm)]
GlyphForm ==
  [set : {"pointer"}, name : STRING] \cup [set : {"pause"}, time : Nat]
  \cup [set : {"glyph"}, glyph : Nat, time : Nat, absolute : BOOLEAN]
MarkerForm == GlyphForm \cup [set : {"heights"}, list : Int \X Int]
MorphForm ==
  GlyphForm \cup [set : {"styles"}, ref : Reference, ref2 : Reference]
  \cup [set : {"words"}, text : Seq(STRING), time : Nat, absolute : BOOLEAN]

ByReference(do) == [do : {do}, ref : Reference \ {NoRef}, braces : {FALSE}, body : {<<>>}]
OfItsOwn(do, Form) == [do : {do}, ref : {NoRef}, braces : {TRUE}, body : Seq(Form)]
Derived(do, Form) == [do : {do}, ref : Reference \ {NoRef}, braces : {TRUE}, body : Seq(Form)]
Definition(kind, Form) == [do : {"define"}, kind : {kind}, name : STRING, body : Seq(Form)]
DefGrammar ==
  [do : {"comment"}, name : STRING] \cup [do : {"timebase"}, time : Nat] \cup [do : {"headers"}]
  \cup Definition("style", StyleForm) \cup Definition("region", RegionForm)
  \cup Definition("curve", CurveForm) \cup Definition("motion", MotionForm)
  \cup Definition("palette", PaletteForm) \cup Definition("bitmap", BitmapForm)
  \cup Definition("range", RangeForm) \cup Definition("mapping", MappingForm)
EventGrammar ==
  [do : {"from"}, t0 : Nat] \cup [do : {"to"}, t1 : Nat] \cup [do : {"for"}, for : Nat]
  \cup [do : {"from_for"}, t0 : Nat, for : Nat] \cup [do : {"from_to"}, t0 : Nat, t1 : Nat]
  \cup [do : {"id"}, n : Nat] \cup [do : {"language", "directionality"}, name : STRING]
  \cup [do : {"text"}, text : Seq(STRING), pre : BOOLEAN, markup : BOOLEAN]
  \cup [do : {"meta"}, leaf : [tag : STRING, value : STRING]]
  \cup [do : {"karaoke"}, morph : {FALSE}, body : Seq(MarkerForm)]
  \cup [do : {"karaoke"}, morph : {TRUE}, body : Seq(MorphForm)]
  \cup ByReference("region") \cup OfItsOwn("region", RegionForm) \cup Derived("region", RegionForm)
  \cup ByReference("style") \cup OfItsOwn("style", StyleForm) \cup Derived("style", StyleForm)
  \cup ByReference("secondary") \cup OfItsOwn("secondary", StyleForm) \cup Derived("secondary", StyleForm)
  \cup ByReference("palette") \cup OfItsOwn("palette", PaletteForm)
  \cup ByReference("bitmap") \cup OfItsOwn("bitmap", BitmapForm)
  \cup ByReference("local") \cup OfItsOwn("local", BitmapForm)
  \cup ByReference("motion") \cup OfItsOwn("motion", MotionForm) \cup ByReference("mapping")
  \cup [do : {"end"}]
Grammar == DefGrammar \cup [do : {"event", "finish"}] \cup EventGrammar

ASSUME DescriptionsAssumption ==
  /\ \A t \in Topics :
       /\ Budget(t) \in Nat
       /\ Definitions(t) \cup Openings(t) \cup Directives(t) \subseteq Seq(Grammar) \ {<<>>}
  /\ \A src \in Sources : Written(src.info, src.comments, src.event) \in Seq(Grammar)
  /\ KeepaliveTime \in Nat /\ Garbage \notin Int
  /\ Spoils \subseteq [name : STRING \ {"quoted"}, words : Seq(STRING)]

-----------------------------------------------------------------------------
(* The parser is [phase, wrong, v, npts, metas, kstyle, kregion, heights,    *)
(* timebase, comments, event, pending], where v is the item being read, npts *)
(* is n_curve_pts, and metas the lists of metadata that were created.        *)

Err(p) == [p EXCEPT !.wrong = TRUE]
ErrIf(c, p) == IF c THEN Err(p) ELSE p
Ended(p, phase) == [Err(p) EXCEPT !.phase = phase]
Crashed(p) == [p EXCEPT !.phase = "crashed"]     (* with no error for it      *)
Going(p) == p.phase \in {"defs", "events", "event"}

(* A slip: the last item of a name.                                          *)
FirstNamedLast(kind, n, table) ==
  Max({i \in 0 .. Len(table[kind]) - 1 : table[kind][i + 1] = n} \cup {-1})

(* find_item: the first item of a name, or -1                                *)
FirstNamed(kind, n, table) ==
  LET found == {i \in 0 .. Len(table[kind]) - 1 : table[kind][i + 1] = n}
  IN IF found = {} THEN -1 ELSE Min(found)
Lookup(kind, r) == IF r.name = NoName THEN r.index ELSE FirstNamed(kind, r.name, names)
(* An error is told, and then the item 0 is taken for a name that is not     *)
(* found, and an index as it is.                                             *)
Found(kind, r) == IF r.name # NoName /\ Lookup(kind, r) = -1 THEN 0 ELSE Lookup(kind, r)

Missing(kind, r) == Lookup(kind, r) = -1 \/ Lookup(kind, r) >= Len(info[kind])
OutOf(kind, r) == Found(kind, r) >= Len(info[kind])
Item(kind, r) == info[kind][Found(kind, r) + 1]

(* add_meta and add_meta_byte_stream: the program exits on a tag that        *)
(* kate_meta_add refuses; bytes that are announced and not given are not set.*)
StoredLeaf(l) ==
  [l EXCEPT !.value = CASE @ = "short" -> "garbage" [] @ = "long" -> "bytes" [] OTHER -> @]
AddMeta(p, l) ==
  LET q == ErrIf(l.value = "long", p)
  IN IF l.tag = "bad" THEN Ended(p, "exited")
     ELSE IF p.v.meta = 0
     THEN [q EXCEPT !.metas = Append(@, <<StoredLeaf(l)>>), !.v.meta = Len(p.metas) + 1]
     ELSE [q EXCEPT !.metas[p.v.meta] = Append(@, StoredLeaf(l))]

(* set_font, set_font_width, set_font_height and set_font_size: one metric    *)
(* for the width and the height.                                             *)
FontSet(p, s) ==
  LET v == p.v
      Sized(side, other) ==
        ErrIf(v[side] >= 0 \/ (v[other] >= 0 /\ v.metric # s.metric), p)
  IN CASE s.set = "font" -> [ErrIf(v.font # NoName, p) EXCEPT !.v.font = s.name]
       [] s.set = "width" ->
            [Sized("width", "height") EXCEPT !.v.width = s.n, !.v.metric = s.metric]
       [] s.set = "height" ->
            [Sized("height", "width") EXCEPT !.v.height = s.n, !.v.metric = s.metric]
       [] OTHER -> [ErrIf(v.height >= 0 \/ v.width >= 0, p)
                      EXCEPT !.v.width = s.n, !.v.height = s.n, !.v.metric = s.metric]

(* set_margin and set_margins: one metric for all of them.                   *)
MarginSet(p, s) ==
  LET other == IF s.set = "left" THEN p.v.top ELSE p.v.left
  IN CASE s.set = "margins" ->
            IF s.metric # s.metric2 THEN Err(p)
            ELSE [p EXCEPT !.v.left = s.list[1], !.v.top = s.list[2], !.v.margins = s.metric]
       [] OTHER -> IF other # 0 /\ s.metric # p.v.margins THEN Err(p)
                   ELSE [p EXCEPT !.v[s.set] = s.n, !.v.margins = s.metric]

(* kd_style_def                                                              *)
StyleSet(p, s) ==
  CASE s.set \in {"font", "width", "height", "size"} -> FontSet(p, s)
    [] s.set \in {"left", "top", "margins"} -> MarginSet(p, s)
    [] s.set = "bold" -> [p EXCEPT !.v.bold = TRUE]
    [] OTHER -> AddMeta(p, s.leaf)

(* kd_region_def                                                             *)
RegionSet(p, s) ==
  CASE s.set = "area" -> [p EXCEPT !.v.w = s.list[1], !.v.h = s.list[2], !.v.metric = s.metric]
    [] s.set = "clip" -> [p EXCEPT !.v.clip = TRUE]
    [] s.set = "style" ->
         [ErrIf(Missing("style", s.ref), p) EXCEPT !.v.style = Found("style", s.ref)]
    [] OTHER -> AddMeta(p, s.leaf)

(* A slip: a number of points that is not the announced one is accepted.     *)
PointsMissingNever(given, n) == given > 2 * n
PointsMissing(given, n) == given # 2 * n

(* kd_curve_def: only a type sets n_curve_pts back to 0.  Points without     *)
(* a number grow the array from there, and write before it from -1.          *)
CurveSet(p, s) ==
  LET skip == p.npts
      end == skip + Len(s.list)
      Placed(size) == [i \in 1 .. size |-> IF i > skip /\ i <= end THEN s.list[i - skip]
                                           ELSE Garbage]
  IN CASE s.set = "type" -> [p EXCEPT !.v.type = s.name, !.npts = 0]
       [] s.set = "points" /\ (skip < 0 \/ s.n <= 0) -> Ended(p, "exited")
       [] s.set = "points" /\ skip >= 0 /\ s.n > 0 ->
            [ErrIf(PointsMissing(end, s.n), p)
               EXCEPT !.v.pts = Placed(2 * s.n), !.npts = Max({skip, Min({end, 2 * s.n})})]
       [] s.set = "open_points" /\ skip < 0 -> Crashed(Err(p))
       [] OTHER -> [p EXCEPT !.v.pts = Placed(2 * ((end + 1) \div 2)), !.npts = end]
CurveStep(p, s) == IF Going(p) THEN CurveSet(p, s) ELSE p
CurveBody(p, body) ==
  LET at[k \in 0 .. Len(body)] == IF k = 0 THEN p ELSE CurveStep(at[k - 1], body[k])
  IN at[Len(body)]

(* check_curve                                                               *)
CurveWrong(kc) ==
  LET n == Len(kc.pts) \div 2
  IN CASE kc.type = "none" -> n # 0
       [] kc.type = "static" -> n # 1
       [] kc.type = "bezier_cubic" -> n < 3 \/ n % 3 # 1
       [] OTHER -> n < 2

(* add_curve_to_motion                                                       *)
AppendCurve(p, slot, duration) ==
  [ErrIf(slot.at = "own" /\ CurveWrong(slot.own), p)
     EXCEPT !.v.curves = Append(@, slot), !.v.durations = Append(@, duration)]

(* kd_motion_def: a curve is one of the headers, one derived from it, or its *)
(* own.                                                                      *)
CurveRead(km, p, duration) ==
  IF Going(p) THEN AppendCurve([p EXCEPT !.v = km], Own(p.v), duration) ELSE [p EXCEPT !.v = km]
CurveGiven(p, s) ==
  LET derives == s.ref # NoRef
      q == ErrIf(derives /\ Missing("curve", s.ref), p)
  IN CASE derives /\ OutOf("curve", s.ref) ->
            IF s.braces THEN Crashed(q) ELSE Ended(q, "exited")
       [] derives /\ ~OutOf("curve", s.ref) /\ ~s.braces ->
            AppendCurve(q, InInfo(Found("curve", s.ref)), s.for)
       [] derives /\ ~OutOf("curve", s.ref) /\ s.braces /\ Item("curve", s.ref).pts = <<>> ->
            Ended(q, "exited")
       [] OTHER ->
            CurveRead(p.v, CurveBody([q EXCEPT !.v = IF derives THEN Item("curve", s.ref) ELSE Curve0],
                                     s.body), s.for)
MotionSet(p, s) ==
  CASE s.set = "semantics" ->
         IF p.v.semantics # "unset" THEN Err(p) ELSE [p EXCEPT !.v.semantics = s.name]
    [] s.set = "mapping" -> [p EXCEPT !.v.x = s.name, !.v.y = s.name2]
    [] s.set = "periodic" -> [p EXCEPT !.v.periodic = TRUE]
    [] OTHER -> CurveGiven(p, s)

(* kd_palette_def                                                            *)
PaletteSet(p, s) ==
  [ErrIf(Len(s.list) # s.n, p) EXCEPT
     !.v.colors = [i \in 1 .. s.n |-> IF i <= Len(s.list) THEN s.list[i] ELSE Garbage]]

(* kd_bitmap_def: a pixel that does not fit, or is one too many, is told and *)
(* left out.                                                                 *)
FitBy(kept, c, n) == IF c < 2^n THEN Append(kept, c) ELSE kept
Fitting(list, n) ==
  LET at[k \in 0 .. Len(list)] == IF k = 0 THEN <<>> ELSE FitBy(at[k - 1], list[k], n)
  IN at[Len(list)]
Filled(kept, size) ==
  [i \in 1 .. size |-> IF i <= Len(kept) THEN kept[i] ELSE Garbage]
BitmapSet(p, s) ==
  CASE s.set = "pixels" ->
         LET size == s.size[1] * s.size[2]
             kept == Fitting(s.list, s.n)
         IN [ErrIf(size = 0 \/ s.n \notin 1 .. 8 \/ kept # s.list \/ Len(kept) # size, p)
               EXCEPT !.v.type = "paletted", !.v.w = s.size[1], !.v.h = s.size[2],
                      !.v.bpp = s.n, !.v.pixels = Filled(kept, size)]
    [] s.set = "png" ->
         [ErrIf(s.size[1] * s.size[2] = 0 \/ Len(s.list) # s.n, p)
            EXCEPT !.v.type = "png", !.v.w = s.size[1], !.v.h = s.size[2], !.v.bpp = 0,
                   !.v.pixels = Filled(s.list, s.n)]
    [] s.set = "source" ->        (* load_bitmap, of a file that can be read  *)
         [p EXCEPT !.v.type = "png", !.v.w = s.size[1], !.v.h = s.size[2], !.v.bpp = 0,
                   !.v.pixels = s.list, !.v.palette = -1]
    [] s.set = "palette" ->
         [ErrIf(Missing("palette", s.ref), p) EXCEPT !.v.palette = Found("palette", s.ref)]
    [] s.set = "offset" -> [p EXCEPT !.v.offset = s.n]
    [] s.set = "percent" ->
         [ErrIf(p.v.w = 0, p) EXCEPT !.v.offset = (p.v.w * s.n + 50) \div 100]
    [] OTHER -> AddMeta(p, s.leaf)

(* kd_font_range_def                                                         *)
RangeSet(p, s) ==
  CASE s.set = "first" -> [p EXCEPT !.v.first = s.n]
    [] s.set = "last" -> [p EXCEPT !.v.last = s.n]
    [] OTHER -> [ErrIf(Missing("bitmap", s.ref), p) EXCEPT !.v.bitmap = Found("bitmap", s.ref)]
RangeBody(p, body) ==
  LET at[k \in 0 .. Len(body)] == IF k = 0 THEN p ELSE RangeSet(at[k - 1], body[k])
  IN at[Len(body)]
RangeWrong(r) == r.first < 0 \/ r.last < r.first \/ r.bitmap < 0

(* kd_font_mapping_def and check_font_ranges: a range of a mapping's own is  *)
(* checked for its order and against the others, and for nothing else.       *)
RangeIn(slot) == IF slot.at = "own" THEN slot.own ELSE info["range"][slot.index + 1]
RangesWrong(kfm) ==
  \E i \in DOMAIN kfm : \/ RangeIn(kfm[i]).last < RangeIn(kfm[i]).first
                        \/ \E j \in i + 1 .. Len(kfm) :
                             /\ RangeIn(kfm[i]).last >= RangeIn(kfm[j]).first
                             /\ RangeIn(kfm[j]).last >= RangeIn(kfm[i]).first
AddRange(p, kfm) == [ErrIf(RangesWrong(kfm), p) EXCEPT !.v = kfm]
MappingSet(p, s) ==
  LET q == ErrIf(~s.braces /\ Missing("range", s.ref), p)
  IN CASE s.braces ->
            LET r == RangeBody([q EXCEPT !.v = Range0], s.body) IN AddRange(r, Append(p.v, Own(r.v)))
       [] ~s.braces /\ OutOf("range", s.ref) -> Crashed(q)
       [] OTHER -> AddRange(q, Append(p.v, InInfo(Found("range", s.ref))))

-----------------------------------------------------------------------------
(* An item: its settings, and what is checked when it is complete.           *)

Setting(kind, p, s) ==
  CASE kind = "style" -> StyleSet(p, s) [] kind = "region" -> RegionSet(p, s)
    [] kind = "curve" -> CurveSet(p, s) [] kind = "motion" -> MotionSet(p, s)
    [] kind = "palette" -> PaletteSet(p, s) [] kind = "bitmap" -> BitmapSet(p, s)
    [] kind = "range" -> RangeSet(p, s) [] OTHER -> MappingSet(p, s)

ItemWrong(kind, v) ==
  CASE kind = "region" -> v.w < 0 \/ v.h < 0
    [] kind = "curve" -> CurveWrong(v)
    [] kind = "motion" -> v.curves = <<>> \/ v.semantics = "unset"
    [] kind = "range" -> RangeWrong(v)
    [] kind = "mapping" -> v = <<>>
    [] OTHER -> FALSE

(* An item from the value v, and the static variable that a style or a       *)
(* region is read into.                                                      *)
Checked(kind, p) == ErrIf(Going(p) /\ ItemWrong(kind, p.v), p)
Kept(kind, p) ==
  CASE kind = "style" -> [p EXCEPT !.kstyle = p.v]
    [] kind = "region" -> [p EXCEPT !.kregion = p.v]
    [] OTHER -> p
ItemStep(kind, p, s) == IF Going(p) THEN Setting(kind, p, s) ELSE p
ItemBody(kind, p, body) ==
  LET at[k \in 0 .. Len(body)] == IF k = 0 THEN p ELSE ItemStep(kind, at[k - 1], body[k])
  IN at[Len(body)]
ItemFrom(kind, p, v, body) == Kept(kind, Checked(kind, ItemBody(kind, [p EXCEPT !.v = v], body)))

(* A value with its metadata in place of the list that holds it.             *)
HasMeta(kind) == kind \in {"style", "region", "motion", "palette", "bitmap"}
Sealed(kind, v, metas) ==
  IF HasMeta(kind) THEN [v EXCEPT !.meta = IF @ = 0 THEN <<>> ELSE metas[@]] ELSE v

-----------------------------------------------------------------------------
(* The overrides of an event.                                                *)

(* set_event_region_index and its like: the encoder refuses an index that is *)
(* out of range, and any when an item of the event's own is waiting.         *)
SetIndex(p, slot, kind, i) ==
  LET q == [p EXCEPT !.event.set[slot] = TRUE]
  IN CASE p.event.set[slot] -> Err(p)
       [] ~p.event.set[slot] /\ (i >= Len(info[kind]) \/ p.pending[slot].at \notin {"none", "info"})
            -> Err(q)
       [] OTHER -> [q EXCEPT !.pending[slot] = InInfo(i)]

(* set_event_region and its like.  The encoder is given the static kregion   *)
(* or kstyle itself ("static"), which it reads when the event is encoded.    *)
SetOwn(p, slot, own) ==
  LET q == [p EXCEPT !.event.set[slot] = TRUE]
  IN CASE p.event.set[slot] -> Err(p)
       [] ~p.event.set[slot] /\ p.pending[slot].at = "info" -> Err(q)
       [] OTHER -> [q EXCEPT !.pending[slot] = own]

KindOf(slot) == IF slot = "secondary" THEN "style" ELSE slot
Static(slot) == [at |-> "static", index |-> -1]

(* REGION, STYLE, SECONDARY STYLE, PALETTE and BITMAP in an event: an item   *)
(* of the headers, one derived from it (memcpy, so that both have the same   *)
(* list of metadata), or one of the event's own.                             *)
OwnRead(p, slot) ==
  IF ~Going(p) THEN p
  ELSE SetOwn(p, slot, IF KindOf(slot) \in {"style", "region"} THEN Static(slot) ELSE Own(p.v))
SlotRead(p, x) ==
  LET kind == KindOf(x.do)
      derives == x.ref # NoRef
      q == ErrIf(derives /\ Missing(kind, x.ref), p)
  IN CASE derives /\ ~x.braces -> SetIndex(q, x.do, kind, Found(kind, x.ref))
       [] derives /\ x.braces /\ OutOf(kind, x.ref) -> Crashed(q)
       [] OTHER -> OwnRead(ItemFrom(kind, q, IF derives THEN Item(kind, x.ref) ELSE Initial(kind),
                                    x.body), x.do)

(* DEFINE LOCAL BITMAP: the encoder keeps a pointer to the bitmap, which is  *)
(* freed when the event ends.                                                *)
AddBitmap(p, slot) == [p EXCEPT !.pending.bitmaps = Append(@, slot)]
OwnLocal(p) ==
  IF Going(p) THEN AddBitmap(p, [at |-> "local", index |-> -1, own |-> p.v, freed |-> FALSE]) ELSE p
LocalRead(p, x) ==
  CASE x.ref # NoRef /\ OutOf("bitmap", x.ref) -> Err(p)
    [] x.ref # NoRef /\ ~OutOf("bitmap", x.ref) ->
         AddBitmap(ErrIf(Missing("bitmap", x.ref), p), InInfo(Found("bitmap", x.ref)))
    [] OTHER -> OwnLocal(ItemFrom("bitmap", p, Bitmap0, x.body))

(* kate_encode_state_add_motion_or_index: one motion of each semantics.      *)
SemanticsOf(slot) ==
  IF slot.at = "own" THEN slot.own.semantics ELSE info["motion"][slot.index + 1].semantics
AddMotion(p, slot) ==
  IF \E i \in DOMAIN p.pending.motions : SemanticsOf(p.pending.motions[i]) = SemanticsOf(slot)
  THEN Ended(p, "exited")
  ELSE [p EXCEPT !.pending.motions = Append(@, slot)]
OwnMotion(p) == IF Going(p) THEN AddMotion(p, Own(p.v)) ELSE p
MotionRead(p, x) ==
  CASE x.ref # NoRef /\ OutOf("motion", x.ref) -> Ended(p, "exited")
    [] x.ref # NoRef /\ ~OutOf("motion", x.ref) ->
         AddMotion(ErrIf(Missing("motion", x.ref), p), InInfo(Found("motion", x.ref)))
    [] OTHER -> OwnMotion(ItemFrom("motion", p, Motion0, x.body))

(* FONT MAPPING *)
MappingRead(p, x) ==
  IF OutOf("mapping", x.ref) THEN Ended(p, "exited")
  ELSE [ErrIf(Missing("mapping", x.ref), p) EXCEPT !.pending.mapping = InInfo(Found("mapping", x.ref))]

(* kd_add_event_meta *)
MetaRead(p, x) ==
  IF x.leaf.tag = "bad" THEN Err(p)
  ELSE [ErrIf(x.leaf.value = "long", p)
          EXCEPT !.pending.meta = Append(@, StoredLeaf(x.leaf))]

(* set_event_t0_t1, set_event_t0, set_event_t1 and set_event_duration        *)
SetT0(p, t) == IF p.event.t0 >= 0 THEN Err(p) ELSE [p EXCEPT !.event.t0 = t]
SetT1(p, t) == IF p.event.t1 >= 0 THEN Err(p) ELSE [p EXCEPT !.event.t1 = t]
SetFor(p, t) == IF p.event.for >= 0 THEN Err(p) ELSE [p EXCEPT !.event.for = t]
TimesRead(p, x) ==
  CASE x.do = "from" -> SetT0(p, x.t0)
    [] x.do = "to" -> SetT1(p, x.t1)
    [] x.do = "for" -> SetFor(p, x.for)
    [] x.do = "from_for" -> SetFor(SetT0(p, x.t0), x.for)
    [] x.do = "from_to" -> IF p.event.t0 >= 0 \/ p.event.t1 >= 0 THEN Err(p)
                           ELSE SetT1(SetT0(p, x.t0), x.t1)

(* check_event: the times that were given, and those of the event.           *)
TimesGiven(ev) == Cardinality({f \in {"t0", "t1", "for"} : ev[f] >= 0})
Start(ev) == IF TimesGiven(ev) = 2 /\ ev.t0 < 0 THEN ev.t1 - ev.for ELSE ev.t0
End(ev) == IF TimesGiven(ev) = 2 /\ ev.t1 < 0 THEN ev.t0 + ev.for ELSE ev.t1

(* set_event_text: of bytes that are no characters it makes no text.         *)
TextRead(p, x) ==
  LET q == [p EXCEPT !.event.hasText = TRUE, !.event.markup = x.markup]
  IN CASE p.event.hasText -> Err(p)
       [] ~p.event.hasText /\ Broken(x.text) -> IF x.pre THEN Ended(p, "exited") ELSE Err(q)
       [] OTHER -> [q EXCEPT !.event.text = EventText(x.text, x.pre)]

-----------------------------------------------------------------------------
(* SIMPLE TIMED GLYPH MARKER and STYLE MORPH: a motion over the glyphs of    *)
(* the text.  A glyph is at half a unit, and coordinates count half units.   *)

LastX(km) ==
  IF km.curves = <<>> THEN -1
  ELSE LET pts == km.curves[Len(km.curves)].own.pts IN pts[Len(pts) - 1]
Height(p, top) == -(IF top THEN p.heights[2] ELSE p.heights[1])
SumSeq(s) ==
  LET sum[k \in 0 .. Len(s)] == IF k = 0 THEN 0 ELSE sum[k - 1] + s[k] IN sum[Len(s)]

(* add_glyph_pause *)
Pause(p, dt, top) ==
  AppendCurve(p, Own([type |-> "static", pts |-> <<LastX(p.v), Height(p, top)>>]), dt)

(* A slip: the time at which a glyph is reached is taken for a duration.     *)
WaitWhole(km, s) == s.time
Wait(km, s) == IF s.absolute THEN s.time - SumSeq(km.durations) ELSE s.time

(* add_glyph_transition: a jump for a marker; for a morph, whose pause       *)
(* fraction is 1, a pause as long and then a curve of no duration.           *)
Jump(p, x1, dt, high) ==
  LET x0 == LastX(p.v)
      low == Height(p, FALSE)
  IN AppendCurve(p, Own(IF dt = 0 THEN [type |-> "static", pts |-> <<x1, low>>]
                        ELSE [type |-> "catmull_rom",
                              pts |-> <<x0, low, x0, low, (x0 + x1) \div 2, high, x1, low, x1, low>>]),
                 dt)
Transition(p, glyph, s, morph) ==
  LET dt == Wait(p.v, s)
  IN CASE dt < 0 -> Ended(p, "exited")
       [] dt >= 0 /\ morph -> Jump(Pause(p, dt, FALSE), 2 * glyph + 1, 0, Height(p, FALSE))
       [] OTHER -> Jump(p, 2 * glyph + 1, dt, Height(p, TRUE))

(* set_style_morph *)
MorphStyles(p, s) ==
  LET refs == {s.ref, s.ref2}
      q == ErrIf(\E r \in refs : Missing("style", r), p)
      r == SetIndex(q, "style", "style", Found("style", s.ref))
  IN IF p.event.set["style"] THEN Err(q)
     ELSE SetIndex(r, "secondary", "style", Found("style", s.ref2))

(* add_glyph_transition_to_text *)
Words(p, s, morph) ==
  LET raw == p.event.text \o s.text
      text == Expanded(Backslashed(raw))
  IN IF Broken(raw) THEN [Err(p) EXCEPT !.event.text = Backslashed(raw), !.event.hasText = TRUE]
     ELSE Transition([p EXCEPT !.event.text = text, !.event.hasText = TRUE],
                     GlyphCount(text) - 1, s, morph)

KaraokeSet(p, s, morph) ==
  CASE s.set = "pointer" -> [p EXCEPT !.v.semantics = s.name]
    [] s.set = "heights" -> [p EXCEPT !.heights = s.list]
    [] s.set = "pause" -> Pause(p, s.time, FALSE)
    [] s.set = "styles" -> MorphStyles(p, s)
    [] s.set = "glyph" -> Transition(p, s.glyph, s, morph)
    [] s.set = "words" -> Words(p, s, morph)

KaraokeStep(p, s, morph) == IF Going(p) THEN KaraokeSet(p, s, morph) ELSE p
KaraokeBody(p, body, morph) ==
  LET at[k \in 0 .. Len(body)] == IF k = 0 THEN p ELSE KaraokeStep(at[k - 1], body[k], morph)
  IN at[Len(body)]

(* kd_finalize_simple_timed_glyph_motion: a pause to the end of the event.   *)
Finalized(p) ==
  LET rest == End(p.event) - Start(p.event) - SumSeq(p.v.durations)
  IN CASE TimesGiven(p.event) # 2 -> Err(p)
       [] TimesGiven(p.event) = 2 /\ rest < 0 -> Ended(p, "exited")
       [] OTHER -> Pause(p, rest, TRUE)

KaraokeDone(p) == IF Going(p) THEN OwnMotion(ErrIf(p.v.curves = <<>>, p)) ELSE p
KaraokeRead(p, x) ==
  LET start == [p EXCEPT !.heights = <<0, 0>>, !.v = [Motion0 EXCEPT !.semantics = "glyph_pointer_1"]]
      q == KaraokeBody(start, x.body, x.morph)
  IN KaraokeDone(IF Going(q) THEN Finalized(q) ELSE q)

-----------------------------------------------------------------------------
(* What an event says, by its statements alone: each name is the first item  *)
(* that was written with it, and an item of the event's own has its own      *)
(* metadata after that of the item of the headers it derives from.           *)

Said0 == [over |-> Pending0, times |-> [t0 |-> -1, t1 |-> -1, for |-> -1],
          pieces |-> <<>>, words |-> <<>>, marks |-> <<>>, latest |-> Style0]

SaidAt(kind, r) ==
  IF r.name = NoName THEN r.index
  ELSE CHOOSE i \in 0 .. Len(info[kind]) - 1 :
         /\ declared[kind][i + 1] = r.name
         /\ \A j \in 1 .. i : declared[kind][j] # r.name

(* The item that a body makes of an initial value with these leaves.         *)
Unfolded(kind, p) == Sealed(kind, p.v, p.metas)
OwnSaid(kind, from, leaves, body) ==
  Unfolded(kind, ItemFrom(kind, [parser EXCEPT !.metas = <<leaves>>],
                          IF leaves = <<>> THEN from ELSE [from EXCEPT !.meta = 1], body))

SlotSaid(x, kind) ==
  LET base == header.items[kind][SaidAt(kind, x.ref) + 1]
      derives == x.ref # NoRef
  IN IF derives /\ ~x.braces THEN InInfo(SaidAt(kind, x.ref))
     ELSE Own(OwnSaid(kind, IF derives THEN [base EXCEPT !.meta = 0] ELSE Initial(kind),
                      IF derives THEN base.meta ELSE <<>>, x.body))

(* The marks of a karaoke body, after those so far: which glyph is reached   *)
(* when, in a text that goes on with its words, a piece each.                *)
MarkBy(a, s, motion) ==
  LET at == IF s.set # "pause" /\ s.absolute THEN s.time ELSE a.at + s.time
      words == IF s.set = "words" THEN a.words \o s.text ELSE a.words
      pieces == IF s.set = "words" THEN Append(a.pieces, [words |-> s.text, how |-> "raw"]) ELSE a.pieces
      glyph == IF s.set = "glyph" THEN s.glyph ELSE GlyphCount(Expanded(Backslashed(words))) - 1
  IN CASE s.set = "pause" -> [a EXCEPT !.at = at]
       [] s.set \in {"glyph", "words"} ->
            [at |-> at, words |-> words, pieces |-> pieces,
             marks |-> Append(a.marks, [glyph |-> glyph, at |-> at, motion |-> motion])]
       [] OTHER -> a
MarksOf(body, motion) ==
  LET heard[k \in 0 .. Len(body)] ==
        IF k = 0 THEN [at |-> 0, words |-> said.words, pieces |-> said.pieces, marks |-> said.marks]
        ELSE MarkBy(heard[k - 1], body[k], motion)
  IN heard[Len(body)]

SaySlot(do, slot) ==
  CASE do = "local" -> [said EXCEPT !.over.bitmaps = Append(@, slot)]
    [] do = "motion" -> [said EXCEPT !.over.motions = Append(@, slot)]
    [] OTHER -> [said EXCEPT !.over[do] = slot,
                             !.latest = IF KindOf(do) = "style" /\ slot.at = "own" THEN slot.own ELSE @]
KindRead(do) == CASE do = "local" -> "bitmap" [] do = "secondary" -> "style" [] OTHER -> do

Say(x) ==
  CASE x.do \in Slots \cup {"local", "motion"} -> SaySlot(x.do, SlotSaid(x, KindRead(x.do)))
    [] x.do = "mapping" -> [said EXCEPT !.over.mapping = SlotSaid(x, "mapping")]
    [] x.do = "meta" -> [said EXCEPT !.over.meta = Append(@, StoredLeaf(x.leaf))]
    [] x.do = "language" -> [said EXCEPT !.over.language = x.name]
    [] x.do = "directionality" -> [said EXCEPT !.over.direction = x.name]
    [] x.do = "text" -> [said EXCEPT !.pieces = <<[words |-> x.text, how |-> IF x.pre THEN "pre" ELSE "lines"]>>,
                                     !.words = EventText(x.text, x.pre), !.over.markup = x.markup]
    [] x.do = "karaoke" ->
         LET styles == {i \in DOMAIN x.body : x.body[i].set = "styles"}
             morph == x.body[Min(styles)]
             moved == parser'.pending.motions[Len(said.over.motions) + 1].own
             over == [said.over EXCEPT !.motions = Append(@, Own(Sealed("motion", moved, parser'.metas)))]
             heard == MarksOf(x.body, Len(over.motions))
         IN [said EXCEPT
               !.pieces = heard.pieces, !.words = heard.words, !.marks = heard.marks,
               !.over = IF styles = {} THEN over
                        ELSE [over EXCEPT !.style = InInfo(SaidAt("style", morph.ref)),
                                          !.secondary = InInfo(SaidAt("style", morph.ref2))]]
    [] OTHER -> [said EXCEPT !.times = [f \in DOMAIN @ |-> IF f \in DOMAIN x THEN x[f] ELSE @[f]]]

-----------------------------------------------------------------------------

Init ==
  /\ topic \in Topics \cup {"printed"}
  /\ source \in (IF topic = "printed" THEN Sources ELSE {<<>>})
  /\ todo = IF topic = "printed"
            THEN Append(Written(source.info, source.comments, source.event), [do |-> "finish"])
            ELSE <<>>
  /\ budget = IF topic = "printed" THEN 0 ELSE Budget(topic)
  /\ info = [k \in AllKinds |-> <<>>]
  /\ names = [k \in AllKinds |-> <<>>]
  /\ declared = [k \in AllKinds |-> <<>>]
  /\ parser = [phase |-> "defs", wrong |-> FALSE, v |-> <<>>, npts |-> -1, metas |-> <<>>,
               kstyle |-> Style0, kregion |-> Region0, heights |-> <<0, 0>>, timebase |-> 0,
               comments |-> <<>>, event |-> Event0, pending |-> Pending0]
  /\ last = 0
  /\ timings = {}
  /\ lastBase = 0
  /\ header = <<>>
  /\ sent = <<>>
  /\ said = Said0
  /\ saidlog = <<>>
  /\ shared = FALSE
  /\ loose = FALSE
  /\ spoilt = {}
  /\ lost = FALSE

(* The blocks of statements that may come next: what is left of one, or a    *)
(* new one of the topic, or the end of what is open.                         *)
Given ==
  CASE todo # <<>> -> {todo}
    [] todo = <<>> /\ topic = "printed" -> {}
    [] OTHER ->
         LET free(blocks) == IF budget > 0 THEN blocks ELSE {}
         IN CASE parser.phase = "defs" -> free(Definitions(topic)) \cup {<<[do |-> "headers"]>>}
              [] parser.phase = "events" -> free(Openings(topic)) \cup {<<[do |-> "finish"]>>}
              [] parser.phase = "event" -> free(Directives(topic)) \cup {<<[do |-> "end"]>>}
              [] OTHER -> {}

(* A string that holds a quote ends there, and what follows it is no         *)
(* statement; nor is there one for the metadata of a palette or a motion.    *)
Quoted(name) == name = "quoted"
BodyUnreadable(kind, body) ==
  \E i \in DOMAIN body :
    \/ body[i].set = "font" /\ Quoted(body[i].name)
    \/ body[i].set = "meta" /\ (Quoted(body[i].leaf.tag) \/ kind \in {"palette", "motion"})
(* Where the grammar has a statement.                                        *)
Place(x) ==
  CASE x.do \in {"comment", "timebase", "define", "headers"} -> "defs"
    [] x.do \in {"event", "finish"} -> "events"
    [] OTHER -> "event"
Unreadable(x) ==
  \/ Place(x) # parser.phase
  \/ CASE x.do = "comment" -> Quoted(x.name)
       [] x.do = "define" -> BodyUnreadable(x.kind, x.body)
       [] x.do \in Slots -> BodyUnreadable(KindOf(x.do), x.body)
       [] x.do = "local" -> BodyUnreadable("bitmap", x.body)
       [] x.do = "motion" -> BodyUnreadable("motion", x.body)
       [] x.do = "meta" -> Quoted(x.leaf.tag)
       [] x.do = "text" -> \E i \in DOMAIN x.text : x.text[i] = "quote"
       [] OTHER -> FALSE

(* Whether a body adds metadata to the list of the item it derives from.     *)
Shares(x) ==
  /\ x.do \in Slots
  /\ x.ref # NoRef /\ x.braces
  /\ ~OutOf(KindOf(x.do), x.ref)
  /\ Item(KindOf(x.do), x.ref).meta # 0
  /\ \E i \in DOMAIN x.body : x.body[i].set = "meta"

(* Whether points do not come next after a type, or come without their       *)
(* number and are odd.                                                       *)
Loose(body) ==
  \E i \in DOMAIN body :
    /\ body[i].set \in {"points", "open_points"}
    /\ \/ i = 1 \/ body[i - 1].set # "type"
       \/ body[i].set = "open_points" /\ Len(body[i].list) % 2 = 1
LooseIn(x) ==
  CASE x.do = "define" /\ x.kind = "curve" -> Loose(x.body)
    [] x.do = "motion" \/ (x.do = "define" /\ x.kind = "motion") ->
         \E i \in DOMAIN x.body : x.body[i].set = "curve" /\ Loose(x.body[i].body)
    [] OTHER -> FALSE

(* The string of a token is left in the buffer of the lexer.  A name, a tag  *)
(* and the words of a morph are used after what follows them was scanned,    *)
(* when the lexer may have filled its buffer again: something else is there. *)
Fragile(body) == {i \in DOMAIN body : body[i].set \in {"meta", "words"}}
Garbled(s, how) ==
  IF s.set = "meta" THEN [s EXCEPT !.leaf.tag = how.name] ELSE [s EXCEPT !.text = how.words]
BodyHeard(body, hows) ==
  [i \in DOMAIN body |-> IF i \in DOMAIN hows THEN Garbled(body[i], hows[i]) ELSE body[i]]
Readings(x) ==
  CASE "body" \in DOMAIN x ->
         {[x EXCEPT !.body = BodyHeard(@, hows)] :
            hows \in UNION {[those -> Spoils] : those \in SUBSET Fragile(x.body)}}
    [] "body" \notin DOMAIN x /\ x.do = "meta" ->
         {x} \cup {[x EXCEPT !.leaf.tag = how.name] : how \in Spoils}
    [] OTHER -> {x}
NamesRead(name) == {name} \cup (IF name = NoName THEN {} ELSE {how.name : how \in Spoils})
Clings(x) ==
  \/ "body" \in DOMAIN x /\ Fragile(x.body) # {}
  \/ x.do = "meta"
  \/ x.do = "define" /\ x.name # NoName
(* The event that is read, or 0 before the headers.                          *)
Spoiling == IF parser.phase = "defs" THEN 0 ELSE Len(sent) + 1

(* What was said is kept beside the program, as long as all is well.         *)
Statements == {"from", "to", "for", "from_for", "from_to", "text", "local", "motion", "mapping",
               "meta", "language", "directionality", "karaoke"} \cup Slots
Listen(x) ==
  /\ said' = CASE x.do = "event" -> Said0
               [] x.do \in Statements /\ ~parser'.wrong -> Say(x)
               [] OTHER -> said
  /\ shared' = (shared \/ Shares(x))
  /\ loose' = (loose \/ LooseIn(x))

Read(p) == parser' = [p EXCEPT !.v = <<>>]
Defs == UNCHANGED <<info, names, declared>>
Events == UNCHANGED <<last, timings, lastBase, header, sent, saidlog>>
(* A statement that leaves this parser, and nothing else.                    *)
Only(p) == Read(p) /\ Defs /\ Events

(* yyerror, and the end of katedesc_parse: a syntax error.                   *)
SyntaxError(x) ==
  /\ Unreadable(x)
  /\ Only(Ended(parser, "stopped"))

(* COMMENT: the name of the encoder is left for kateenc to write.            *)
Comment(x) ==
  /\ x.do = "comment"
  /\ Only(IF x.name = "encoder" THEN parser ELSE [parser EXCEPT !.comments = Append(@, x.name)])

Timebase(x) ==
  /\ x.do = "timebase"
  /\ Only([parser EXCEPT !.timebase = x.time])

(* DEFINE and add_style and its like.  The name is in the buffer of the      *)
(* lexer, and is copied when the item ends.                                  *)
AddItem(x, p) ==
  /\ Read(p)
  /\ IF Going(p)
     THEN /\ info' = [info EXCEPT ![x.kind] = Append(@, p.v)]
          /\ declared' = [declared EXCEPT ![x.kind] = Append(@, x.name)]
          /\ \E name \in NamesRead(x.name) : names' = [names EXCEPT ![x.kind] = Append(@, name)]
     ELSE Defs
  /\ Events
Define(x) ==
  /\ x.do = "define"
  /\ AddItem(x, ItemFrom(x.kind, parser, Initial(x.kind), x.body))

(* kate_encode_font_range, kate_encode_palette and kate_encode_rle_bitmap:   *)
(* what the encoder refuses to put in the headers.                           *)
RangeFits(r) ==
  r.first >= 0 /\ r.bitmap >= 0 /\ r.bitmap + (r.last - r.first) \in 0 .. Len(info["bitmap"]) - 1
HeadersFit ==
  /\ \A i \in DOMAIN info["palette"] : Len(info["palette"][i].colors) \in 1 .. 256
  /\ \A i \in DOMAIN info["bitmap"] : info["bitmap"][i].bpp <= 8
  /\ \A i \in DOMAIN info["range"] : RangeFits(info["range"][i])
  /\ \A i \in DOMAIN info["mapping"] :
       LET kfm == info["mapping"][i]
       IN \A j \in DOMAIN kfm : kfm[j].at = "own" => RangeFits(kfm[j].own)

(* kd_write_headers *)
HeadersFail(x) ==
  /\ x.do = "headers"
  /\ ~HeadersFit
  /\ Only(Ended(parser, "exited"))
Headers(x) ==
  /\ x.do = "headers"
  /\ HeadersFit
  /\ header' = [comments |-> parser.comments,
                items |-> [k \in AllKinds |->
                             [i \in DOMAIN info[k] |-> Sealed(k, info[k][i], parser.metas)]]]
  /\ Read([parser EXCEPT !.phase = "events"])
  /\ Defs /\ UNCHANGED <<last, timings, lastBase, sent, saidlog>>

(* init_event: the overrides of an event that failed are still there.        *)
OpenEvent(x) ==
  /\ x.do = "event"
  /\ Only([parser EXCEPT !.phase = "event", !.event = Event0])

SetTimes(x) ==
  /\ x.do \in {"from", "to", "for", "from_for", "from_to"}
  /\ Only(TimesRead(parser, x))

SetText(x) ==
  /\ x.do = "text"
  /\ Only(TextRead(parser, x))

SetSlot(x) ==
  /\ x.do \in Slots
  /\ Only(SlotRead(parser, x))

AddLocalBitmap(x) ==
  /\ x.do = "local"
  /\ Only(LocalRead(parser, x))

AddEventMotion(x) ==
  /\ x.do = "motion"
  /\ Only(MotionRead(parser, x))

SetMapping(x) ==
  /\ x.do = "mapping"
  /\ Only(MappingRead(parser, x))

AddEventMeta(x) ==
  /\ x.do = "meta"
  /\ Only(MetaRead(parser, x))

(* kd_encode_set_id: the encoder numbers the events itself.                  *)
SetId(x) ==
  /\ x.do = "id"
  /\ Only(parser)

SetLanguage(x) ==
  /\ x.do = "language"
  /\ Only([parser EXCEPT !.pending.language = x.name])

SetDirectionality(x) ==
  /\ x.do = "directionality"
  /\ Only([parser EXCEPT !.pending.direction = x.name])

Karaoke(x) ==
  /\ x.do = "karaoke"
  /\ Only(KaraokeRead(parser, x))

Finish(x) ==
  /\ x.do = "finish"
  /\ Only([parser EXCEPT !.phase = "done"])

-----------------------------------------------------------------------------
(* The end of an event: check_event, kd_encode_text, clear_event.            *)

(* kate_encode_state_trim_events, kate_encode_state_get_earliest_event and   *)
(* kate_check_granule: what still lasts at a time, the base of a packet of   *)
(* that time, and whether its granule position goes on from the last one's.  *)
Live(t) == {d \in timings : d.t1 > t}
BaseAt(t) == Min({d.t0 : d \in Live(t)} \cup {t})
InOrder(t) == BaseAt(t) > lastBase \/ (BaseAt(t) = lastBase /\ t >= last)

(* update_stream_time: keepalives, which clear the overrides of the encoder, *)
(* at steps of KeepaliveTime from the last packet to the start of the event, *)
(* unless the encoder refuses the first.                                     *)
Tried(start) == KeepaliveTime > 0 /\ last + KeepaliveTime < start
Due(start) == Tried(start) /\ InOrder(last + KeepaliveTime)
LastKeepalive(start) ==
  IF Due(start) THEN last + KeepaliveTime * ((start - last - 1) \div KeepaliveTime) ELSE last
Walked(start) ==
  LET t == LastKeepalive(start)
  IN CASE Due(start) -> Live(t) \cup {[t0 |-> t, t1 |-> t]}
       [] Tried(start) /\ ~Due(start) -> Live(last + KeepaliveTime)
       [] OTHER -> timings

(* What is encoded of an override: the item that it points to, as it is now. *)
Encoded(p, slot, kind) ==
  CASE slot.at = "static" ->
         Own(Sealed(kind, IF kind = "style" THEN p.kstyle ELSE p.kregion, p.metas))
    [] slot.at \in {"own", "local"} -> Own(Sealed(kind, slot.own, p.metas))
    [] OTHER -> slot
Beside(f, g) == [x \in DOMAIN f \cup DOMAIN g |-> IF x \in DOMAIN f THEN f[x] ELSE g[x]]
EncodedOver(p, pending) ==
  [pending EXCEPT
     !.region = Encoded(p, @, "region"), !.style = Encoded(p, @, "style"),
     !.secondary = Encoded(p, @, "style"), !.palette = Encoded(p, @, "palette"),
     !.bitmap = Encoded(p, @, "bitmap"),
     !.bitmaps = Each(@, LAMBDA b: Encoded(p, b, "bitmap")),
     !.motions = Each(@, LAMBDA m: Encoded(p, m, "motion"))]
EncodedEvent(p, pending, start, end) ==
  Beside(EncodedOver(p, pending), [t0 |-> start, t1 |-> end, text |-> p.event.text])

(* clear_local_bitmaps: what the encoder still holds of them is freed.       *)
LocalsFreed(pending) ==
  [pending EXCEPT !.bitmaps = Each(@, LAMBDA b: IF b.at = "local" THEN [b EXCEPT !.freed = TRUE] ELSE b)]
UsesFreed(pending) ==
  \E i \in DOMAIN pending.bitmaps : pending.bitmaps[i].at = "local" /\ pending.bitmaps[i].freed

(* The start and end that the statements said.                               *)
SaidTimes ==
  LET t == said.times
      start == IF t.t0 >= 0 THEN t.t0 ELSE t.t1 - t.for
  IN [start |-> parser.timebase + start,
      end |-> parser.timebase + (IF t.t1 >= 0 THEN t.t1 ELSE start + t.for)]

(* The encoder looks at times and text, then notes the event, and then may   *)
(* find that it is before what it sent last.                                 *)
EndEvent(x) ==
  LET ev == parser.event
      p == ErrIf(TimesGiven(ev) # 2, parser)
      start == p.timebase + Start(ev)
      end == p.timebase + End(ev)
      set == [p.pending EXCEPT !.markup = ev.markup]
      kept == IF Due(start) THEN Pending0 ELSE set
      closed == [p EXCEPT !.phase = "events", !.event = Event0]
      valid == start >= 0 /\ end >= start /\ ~Broken(ev.text)
      accepted == valid /\ (Due(start) \/ InOrder(start))
      walked == Walked(start)
  IN /\ x.do = "end"
     /\ timings' = IF valid THEN {d \in walked : d.t1 > start} \cup {[t0 |-> start, t1 |-> end]}
                   ELSE walked
     /\ lastBase' = CASE accepted -> BaseAt(start)
                      [] ~accepted /\ Due(start) -> BaseAt(LastKeepalive(start))
                      [] OTHER -> lastBase
     /\ IF accepted /\ UsesFreed(kept)
        THEN /\ Read(Crashed(p))
             /\ UNCHANGED <<last, sent, saidlog>>
        ELSE IF accepted
        THEN /\ Read([closed EXCEPT !.pending = Pending0])
             /\ sent' = Append(sent, EncodedEvent(p, kept, start, end))
             /\ last' = Max({LastKeepalive(start), start})
             /\ saidlog' = IF p.wrong THEN saidlog
                           ELSE Append(saidlog, [said |-> said, times |-> SaidTimes,
                                                 keepalive |-> Due(start)])
        ELSE /\ Read([Err(closed) EXCEPT !.pending = LocalsFreed(kept)])
             /\ last' = LastKeepalive(start)
             /\ UNCHANGED <<sent, saidlog>>
     /\ Defs /\ UNCHANGED header

Handled(x) ==
  \/ SyntaxError(x)
  \/ /\ ~Unreadable(x)
     /\ \/ Comment(x) \/ Timebase(x) \/ Define(x) \/ Headers(x) \/ HeadersFail(x)
        \/ OpenEvent(x) \/ SetTimes(x) \/ SetText(x) \/ SetSlot(x) \/ AddLocalBitmap(x)
        \/ AddEventMotion(x) \/ SetMapping(x) \/ AddEventMeta(x) \/ SetId(x) \/ SetLanguage(x)
        \/ SetDirectionality(x) \/ Karaoke(x) \/ EndEvent(x) \/ Finish(x)

(* A statement, as its strings are found when they are used.                 *)
Understood(x) ==
  \E heard \in Readings(x) :
    /\ Handled(heard)
    /\ Listen(heard)
    /\ spoilt' = IF heard = x THEN spoilt ELSE spoilt \cup {Spoiling}
    /\ UNCHANGED lost

(* A string is looked for in a buffer that grew, and was freed.              *)
Lose(x) ==
  /\ Spoils # {} /\ Clings(x) /\ ~Unreadable(x)
  /\ lost' = TRUE
  /\ spoilt' = spoilt \cup {Spoiling}
  /\ UNCHANGED <<parser, said, shared, loose>>
  /\ Defs /\ Events

Next ==
  /\ Going(parser) /\ ~lost
  /\ \E block \in Given :
       /\ todo' = Tail(block)
       /\ budget' = IF todo = <<>> /\ Head(block).do \notin {"headers", "end", "finish"}
                    THEN budget - 1 ELSE budget
       /\ UNCHANGED <<topic, source>>
       /\ Understood(Head(block)) \/ Lose(Head(block))

Spec == Init /\ [][Next]_vars

-----------------------------------------------------------------------------

MetaIn(kind, v) == IF HasMeta(kind) THEN {v.meta} ELSE {}

(* The tables of items and of their names go together, each item refers to a *)
(* list of metadata that exists, and the motions of an event have a duration *)
(* for each of their curves.                                                 *)
TypeOK ==
  /\ topic \in Topics \cup {"printed"}
  /\ parser.phase \in {"defs", "events", "event", "done", "stopped", "exited", "crashed"}
  /\ parser.wrong \in BOOLEAN /\ shared \in BOOLEAN /\ loose \in BOOLEAN /\ lost \in BOOLEAN
  /\ budget \in Nat /\ last \in Nat
  /\ \A k \in AllKinds :
       /\ Len(names[k]) = Len(info[k]) /\ Len(declared[k]) = Len(info[k])
       /\ \A i \in DOMAIN info[k] : MetaIn(k, info[k][i]) \subseteq 0 .. Len(parser.metas)
  /\ DOMAIN header \subseteq {"comments", "items"}
  /\ Len(saidlog) <= Len(sent)
  /\ \A i \in DOMAIN parser.pending.motions :
       LET slot == parser.pending.motions[i]
       IN slot.at = "own" => Len(slot.own.curves) = Len(slot.own.durations)

Leaves(v) == Range(v.meta)
SourceLeaves(src) ==
  UNION ({Range(src.event.meta)}
         \cup {UNION {Leaves(src.info[k][i]) : i \in DOMAIN src.info[k]} : k \in {"style", "region", "bitmap"}}
         \cup {Leaves(src.event[s].own) : s \in {t \in {"style", "secondary", "region"} : src.event[t].at = "own"}})
Unsayable(src) ==
  \/ \E l \in SourceLeaves(src) : Quoted(l.tag)
  \/ \E i \in DOMAIN src.comments : Quoted(src.comments[i])
  \/ \E i \in DOMAIN src.info["style"] : Quoted(src.info["style"][i].font)
  \/ \E s \in {"style", "secondary"} : src.event[s].at = "own" /\ Quoted(src.event[s].own.font)
  \/ \E k \in {"palette", "motion"} : \E i \in DOMAIN src.info[k] : src.info[k][i].meta # <<>>
TextHolds(text) ==
  /\ \A i \in DOMAIN text : text[i] \notin Numeric
  /\ ~Swallows(text)
  /\ text # <<>> => text[1] # "nl" /\ text[Len(text)] # "nl"
(* kate_decode: an event that has a region and no style has that of the      *)
(* region.                                                                   *)
Decoded(ev) ==
  [ev EXCEPT !.style =
     IF @.at = "none" /\ RegionOf(header.items, ev.region).style \in 0 .. Len(header.items["style"]) - 1
     THEN InInfo(RegionOf(header.items, ev.region).style) ELSE @]
SameEvent(got, want) ==
  /\ \A f \in DOMAIN want \ {"id", "style", "text"} : got[f] = want[f]
  /\ got.style = IF want.style.at = "info" /\ want.region.at = "none" THEN NoSlot ELSE want.style
  /\ TextHolds(want.text) => got.text = want.text

(* What katedec prints of a stream, kateenc reads back to the same headers   *)
(* and the same event, without an error, but for: its id, which kateenc      *)
(* gives anew; a quote in a font, a comment or a tag, and the metadata of a  *)
(* palette or a motion, which end the reading; metadata that is printed as   *)
(* text with no end; a predefined style of an event without a region, which  *)
(* is not printed; a text that has numeric entities, a newline at one of its *)
(* ends, or an ampersand open before a quote or a newline; and a tag whose   *)
(* value is so long that the lexer moves its buffer before the tag is used.  *)
WrittenIsRead ==
  topic = "printed" /\ spoilt = {} =>
    /\ parser.phase \notin {"exited", "crashed"}
    /\ parser.phase = "stopped" => Unsayable(source)
    /\ parser.phase = "done" =>
         /\ ~parser.wrong
         /\ header.comments = SelectSeq(source.comments, LAMBDA c: c # "encoder")
         /\ \/ \E l \in SourceLeaves(source) : l.value = "bare"
            \/ header.items = source.info /\ SameEvent(Decoded(sent[1]), source.event)

WithoutMeta(slot) == IF slot.at = "own" THEN [slot EXCEPT !.own.meta = <<>>] ELSE slot
Bare(ev) == [ev EXCEPT !.region = WithoutMeta(@), !.style = WithoutMeta(@), !.secondary = WithoutMeta(@)]
EventSaid(entry) ==
  LET over == entry.said.over
      latest == Own(entry.said.latest)
      full == IF over.style.at = "own" /\ over.secondary.at = "own"
              THEN [over EXCEPT !.style = latest, !.secondary = latest] ELSE over
  IN Beside(IF entry.keepalive THEN Pending0 ELSE full,
            [t0 |-> entry.times.start, t1 |-> entry.times.end])

(* An event is encoded with what its own statements say and nothing of the   *)
(* events before it, unless an error was told, but for: a keepalive that was *)
(* due at its start, which clears all it had set but its text and times; its *)
(* own style and its own secondary style, which both become the later one;   *)
(* metadata that events before it added to the item it derives from; and a   *)
(* name, or a tag or words of its own, that the lexer moved its buffer under.*)
EventsStandAlone ==
  ~parser.wrong /\ names = declared =>
    \A n \in DOMAIN saidlog \ spoilt :
      LET want == EventSaid(saidlog[n])
          got == [f \in DOMAIN want |-> sent[n][f]]
      IN IF shared THEN Bare(got) = Bare(want) ELSE got = want

At(slot, kind) == IF slot.at = "info" THEN {<<kind, slot.index>>} ELSE {}
OwnOf(slot) == IF slot.at = "own" THEN {slot.own} ELSE {}
RegionRefs(v) == IF v.style >= 0 THEN {<<"style", v.style>>} ELSE {}
BitmapRefs(v) == IF v.palette >= 0 THEN {<<"palette", v.palette>>} ELSE {}
MotionRefs(v) == UNION {At(v.curves[i], "curve") : i \in DOMAIN v.curves}
MappingRefs(v) ==
  UNION {At(v[i], "range") \cup {<<"bitmap", r.bitmap>> : r \in OwnOf(v[i])} : i \in DOMAIN v}
HeaderRefs(items) ==
  LET Of(kind, Refs(_)) == UNION {Refs(items[kind][i]) : i \in DOMAIN items[kind]}
  IN Of("region", RegionRefs) \cup Of("bitmap", BitmapRefs) \cup Of("motion", MotionRefs)
     \cup Of("mapping", MappingRefs) \cup Of("range", LAMBDA r: {<<"bitmap", r.bitmap>>})
EventRefs(ev) ==
  UNION ({At(ev[s], KindOf(s)) : s \in Slots} \cup {At(ev.mapping, "mapping")}
         \cup {RegionRefs(v) : v \in OwnOf(ev.region)} \cup {BitmapRefs(v) : v \in OwnOf(ev.bitmap)}
         \cup {At(ev.bitmaps[i], "bitmap") \cup UNION {BitmapRefs(v) : v \in OwnOf(ev.bitmaps[i])} :
                  i \in DOMAIN ev.bitmaps}
         \cup {At(ev.motions[i], "motion") \cup UNION {MotionRefs(v) : v \in OwnOf(ev.motions[i])} :
                  i \in DOMAIN ev.motions})

(* Unless an error was told, no index that was sent is out of its table.     *)
SentIsInTables ==
  ~parser.wrong /\ header # <<>> =>
    \A ref \in HeaderRefs(header.items) \cup UNION {EventRefs(sent[n]) : n \in DOMAIN sent} :
      ref[2] \in 0 .. Len(header.items[ref[1]]) - 1

PieceSeen(piece) ==
  LET seen == Seen(Backslashed(piece.words))
  IN CASE piece.how = "raw" -> seen [] piece.how = "pre" -> TrimmedPre(seen)
       [] OTHER -> Trimmed(seen)

(* Whatever entities, escapes and newlines a text is written with, what is   *)
(* seen of the text that is sent is what was written, without the blanks     *)
(* that its statement trims, if each ampersand starts an entity and the      *)
(* lexer did not move its buffer between the words of a morph and their time.*)
TextKept ==
  ~parser.wrong =>
    \A n \in DOMAIN saidlog \ spoilt :
      LET pieces == saidlog[n].said.pieces
      IN (\A i \in DOMAIN pieces : ~HasBareAmpersand(pieces[i].words)) =>
           Seen(sent[n].text) = FlattenSeq(Each(pieces, PieceSeen))

ReachedAt(km, glyph, at) ==
  \E k \in DOMAIN km.curves :
    /\ SumSeq(SubSeq(km.durations, 1, k)) = at
    /\ LET pts == km.curves[k].own.pts IN pts[Len(pts) - 1] = 2 * glyph + 1

(* A glyph marker is at each glyph at the time that was written, whether     *)
(* times are said from the one before or from the start of the event, and    *)
(* it lasts as long as the event, but for an event that was preceded by a    *)
(* keepalive, or whose words the lexer moved its buffer under.               *)
KaraokeOnTime ==
  ~parser.wrong =>
    \A n \in {m \in DOMAIN saidlog \ spoilt : ~saidlog[m].keepalive} :
      \A i \in DOMAIN saidlog[n].said.marks :
        LET mark == saidlog[n].said.marks[i]
            km == sent[n].motions[mark.motion].own
        IN /\ ReachedAt(km, mark.glyph, mark.at)
           /\ SumSeq(km.durations) = sent[n].t1 - sent[n].t0

Values(kind, v) ==
  CASE kind = "curve" -> Range(v.pts)
    [] kind = "palette" -> Range(v.colors)
    [] kind = "bitmap" -> Range(v.pixels)
    [] kind = "motion" -> UNION {Range(c.pts) : c \in UNION {OwnOf(v.curves[i]) : i \in DOMAIN v.curves}}
    [] OTHER -> {}
EventValues(ev) ==
  UNION ({Values("palette", v) : v \in OwnOf(ev.palette)} \cup {Values("bitmap", v) : v \in OwnOf(ev.bitmap)}
         \cup {UNION {Values("bitmap", v) : v \in OwnOf(ev.bitmaps[i])} : i \in DOMAIN ev.bitmaps}
         \cup {UNION {Values("motion", v) : v \in OwnOf(ev.motions[i])} : i \in DOMAIN ev.motions})

(* Unless an error was told, no point, colour or pixel that is sent was left *)
(* unset, if points come next after a type, once, and are even when they are *)
(* not counted.                                                              *)
ValuesAreSaid ==
  ~parser.wrong /\ ~loose /\ header # <<>> =>
    /\ \A k \in AllKinds : \A i \in DOMAIN header.items[k] : Garbage \notin Values(k, header.items[k][i])
    /\ \A n \in DOMAIN sent : Garbage \notin EventValues(sent[n])

(* The converter reads out of a table, writes before an array or uses what   *)
(* it freed only after it told an error, but for a name, a tag or words that *)
(* are in a buffer of the lexer that grew.                                   *)
CrashesOnlyAfterError ==
  /\ parser.phase = "crashed" => parser.wrong
  /\ lost => spoilt # {}

(* A description without an error gives a stream that can be decoded.        *)
SentIsSound == TypeOK /\ SentIsInTables /\ ValuesAreSaid /\ CrashesOnlyAfterError
=============================================================================
