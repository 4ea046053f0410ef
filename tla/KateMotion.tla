----------------------------- MODULE KateMotion -----------------------------
(***************************************************************************)
(* What moves while an event is shown: curves and motions (kate_motion.c), *)
(* and the bitmaps of code points (kate_font.c).  A time on a curve is a   *)
(* fraction: i out of D.                                                   *)
(***************************************************************************)
EXTENDS KateText

-----------------------------------------------------------------------------
(* One coordinate of the point of segment n of a curve, u / D into it, as    *)
(* [num, den].                                                               *)

Weigh(w, pts, k) == w[1] * pts[k[1] + 1] + w[2] * pts[k[2] + 1]
                    + w[3] * pts[k[3] + 1] + w[4] * pts[k[4] + 1]

CatmullRom(u, D) ==
  << -(D^2 * u) + 2 * D * u^2 - u^3, 2 * D^3 - 5 * D * u^2 + 3 * u^3,
     D^2 * u + 4 * D * u^2 - 3 * u^3, u^3 - D * u^2 >>
Bezier(u, D) ==
  LET r == D - u IN << r^3, 3 * u * r^2, 3 * u^2 * r, u^3 >>
BSpline(u, D) ==
  << (D - u)^3, 3 * u^3 - 6 * D * u^2 + 4 * D^3,
     D^3 + 3 * D^2 * u + 3 * D * u^2 - 3 * u^3, u^3 >>

Clamp(k, npts) == Min({Max({k, 0}), npts - 1})

(* The control points of the segment, counted from 0.                        *)
Knots(type, npts, n) ==
  CASE type = "linear" -> <<n, n + 1>>
    [] type = "catmull_rom" ->
         <<IF n = 0 THEN n ELSE n - 1, n, n + 1,
           IF n = npts - 2 THEN n + 1 ELSE n + 2>>
    [] type = "bezier" -> <<3 * n, 3 * n + 1, 3 * n + 2, 3 * n + 3>>
    [] OTHER -> [j \in 1 .. 4 |-> Clamp(n - 4 + j, npts)]

SegmentPoint(type, pts, n, u, D) ==
  LET k == Knots(type, Len(pts), n)
  IN CASE type = "linear" ->
            [num |-> u * pts[k[2] + 1] + (D - u) * pts[k[1] + 1], den |-> D]
       [] type = "catmull_rom" ->
            [num |-> Weigh(CatmullRom(u, D), pts, k), den |-> 2 * D^3]
       [] type = "bezier" -> [num |-> Weigh(Bezier(u, D), pts, k), den |-> D^3]
       [] OTHER -> [num |-> Weigh(BSpline(u, D), pts, k), den |-> 6 * D^3]

Segments(type, npts) ==
  CASE type \in {"linear", "catmull_rom"} -> npts - 1
    [] type = "bezier" -> IF npts < 4 \/ (npts - 1) % 3 # 0 THEN 0
                          ELSE (npts - 1) \div 3
    [] OTHER -> IF npts < 1 THEN 0 ELSE npts + 3

(* kate_curve_get_point.  ret: 0, 1 no point, -1 an error.                   *)
CurvePoint(type, pts, i, D) ==
  LET nsegs == Segments(type, Len(pts))
      n == Min({(i * nsegs) \div D, nsegs - 1})
  IN CASE i \notin 0 .. D -> [ret |-> -1]
       [] type = "none" -> [ret |-> 1]
       [] type = "static" -> [ret |-> 0, num |-> pts[1], den |-> 1]
       [] type \notin {"none", "static"} /\ nsegs < 1 -> [ret |-> -1]
       [] OTHER -> [ret |-> 0] @@ SegmentPoint(type, pts, n, i * nsegs - n * D, D)

-----------------------------------------------------------------------------
(* kate_motion_get_point: which curve of a motion a time falls on, and where.*)
(* A curve lasts d, or that share of the duration of the event if d is       *)
(* negative.  Times are numbers in sixteenths.                               *)

CurveDuration(d, duration) == IF d < 0 THEN (-d * duration) \div 16 ELSE d

Ends(durations, duration, n) ==
  FoldLeft(LAMBDA a, i: a + CurveDuration(durations[i], duration), 0,
           [i \in 1 .. n |-> i])

OneLoop(durations, duration, t) ==
  LET hit == {n \in DOMAIN durations : t <= Ends(durations, duration, n)}
      n == Min(hit)
  IN IF hit = {} THEN [ret |-> -1]
     ELSE [ret |-> 0, curve |-> n, at |-> t - Ends(durations, duration, n - 1),
           of |-> CurveDuration(durations[n], duration)]

(* A slip: the loops of a periodic motion are not taken off.                 *)
MotionPointOnce(durations, periodic, duration, t) ==
  IF t \in 0 .. duration THEN OneLoop(durations, duration, t) ELSE [ret |-> -1]

(* A motion that has no duration and is periodic is never left: 2, here.     *)
MotionPoint(durations, periodic, duration, t) ==
  LET all == Ends(durations, duration, Len(durations))
      once == OneLoop(durations, duration, t)
  IN CASE t \notin 0 .. duration -> [ret |-> -1]
       [] once.ret = 0 -> once
       [] ~periodic -> [ret |-> -1]
       [] all = 0 -> [ret |-> 2]
       [] OTHER -> OneLoop(durations, duration, (t - all) % all)

-----------------------------------------------------------------------------
(* Fonts: kate_encode_font_range checks a range, and                         *)
(* kate_font_get_index_from_code_point looks a code point up.                *)

RangeAccepted(r, nbitmaps) ==
  /\ ValidCodePoint(r.first) /\ ValidCodePoint(r.last)
  /\ r.bitmap >= 0
  /\ r.bitmap + (r.last - r.first) \in 0 .. nbitmaps - 1

GlyphBitmap(ranges, c) ==
  LET hit == {n \in DOMAIN ranges : c \in ranges[n].first .. ranges[n].last}
      r == ranges[Min(hit)]
  IN IF ~ValidCodePoint(c) \/ hit = {} THEN -1 ELSE r.bitmap + c - r.first
=============================================================================
