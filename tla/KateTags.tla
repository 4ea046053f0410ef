------------------------------ MODULE KateTags ------------------------------
(***************************************************************************)
(* What a client says of its stream before the first header, and what a    *)
(* player asks of the headers: the language and the category, the encoding *)
(* of granules, comments and metadata (kate_info.c, kate_granule.c,        *)
(* kate_comment.c and kate_meta.c).  Strings are sequences of bytes.       *)
(***************************************************************************)
EXTENDS KatePackets

CONSTANTS
  GranuleBits,   (* the bits of a granule position but two: 62 in libkate,   *)
                 (* fewer in the runs                                        *)
  Milli          (* the scale of a granule rate: 1000 in libkate             *)

Lower(s) == [i \in DOMAIN s |-> IF s[i] \in 65 .. 90 THEN s[i] + 32 ELSE s[i]]

(* kate_ascii_strncasecmp finds no difference in the first n bytes, or up to *)
(* the end of both strings.                                                  *)
AlikeFor(a, b, n) ==
  LET first(s) == Lower(SubSeq(s, 1, Min({n, Len(s)})))
  IN first(a) = first(b)
Alike(a, b) == Lower(a) = Lower(b)

-----------------------------------------------------------------------------
(* Languages.                                                                *)

Letter == 65 .. 90 \cup 97 .. 122 \cup 48 .. 57
Separator == {45, 95}
Longest == 15

(* The lengths of the beginnings of a tag that end with one of its subtags,  *)
(* and the length of that subtag.                                            *)
Stops(s) == {i - 1 : i \in {j \in DOMAIN s : s[j] \in Separator}} \cup {Len(s)}
SubtagLen(s, e) == e - Max({0} \cup {b + 1 : b \in {x \in Stops(s) : x < e}})
Primary(s) == SubSeq(s, 1, Min(Stops(s)))

Refusal == [ok |-> FALSE, cut |-> FALSE, tag |-> <<>>]

(* The longest beginning that may be kept: it does not end with a subtag of  *)
(* one character.                                                            *)
Kept(s, fit) == Max({0} \cup {e \in fit : SubtagLen(s, e) >= 2})

(* kate_info_set_language: subtags are taken while they fit, and those that  *)
(* are looked at must be short.                                              *)
SetLanguage(s) ==
  LET fit == {e \in Stops(s) : e <= Longest}
      over == Stops(s) \ fit
      looked == fit \cup (IF over = {} THEN {} ELSE {Min(over)})
  IN IF s = <<>> THEN [ok |-> TRUE, cut |-> FALSE, tag |-> s]
     ELSE IF /\ ToSet(s) \subseteq Letter \cup Separator
             /\ Len(Primary(s)) \in 1 .. 3
             /\ \A e \in looked : SubtagLen(s, e) <= 8
             /\ over = {} => SubtagLen(s, Len(s)) >= 2
             /\ Kept(s, fit) > 1
          THEN [ok |-> TRUE, cut |-> over # {}, tag |-> SubSeq(s, 1, Kept(s, fit))]
          ELSE Refusal

Perfect == 1
Partial == 2
Different == 0

(* A slip: only what both name is compared.                                  *)
SamePrimaryShort(a, b) ==
  AlikeFor(a, b, Min({Min(Stops(a)), Min(Stops(b))}))

(* The primary tags are the same, as far as the one that is followed by      *)
(* subtags goes.                                                             *)
SamePrimary(a, b) ==
  LET sub(s) == Min(Stops(s)) < Len(s)
  IN /\ sub(a) \/ sub(b)
     /\ sub(a) /\ sub(b) => Min(Stops(a)) = Min(Stops(b))
     /\ AlikeFor(a, b, IF sub(a) THEN Min(Stops(a)) ELSE Min(Stops(b)))

(* kate_info_matches_language.                                               *)
MatchesLanguage(stream, s) ==
  CASE stream = <<>> \/ s = <<>> -> Partial
    [] stream # <<>> /\ s # <<>> /\ Alike(stream, s) -> Perfect
    [] OTHER -> IF SamePrimary(stream, s) THEN Partial ELSE Different

(* kate_info_set_category.                                                   *)
CategoryFits(s) == Len(s) <= Longest

-----------------------------------------------------------------------------
(* The encoding of granules.  A time is a number of ticks, Milli of which    *)
(* make a second; the code computes in floating point.                       *)

Round(a, b) == (2 * a + b) \div (2 * b)

(* kate_make_fraction.                                                       *)
Fraction(resolution) ==
  IF resolution < Milli THEN <<Round(Milli * Milli, resolution), Milli>>
                        ELSE <<Milli, resolution>>

(* The bits that granules of that many count to, none for less than one.     *)
OffsetBits(resolution, lifetime) ==
  Min({b \in 0 .. GranuleBits + 2 :
         b = GranuleBits + 2 \/ lifetime < resolution * 2^b})

(* kate_info_set_granule_encoding: <<shift, rate>>, or Null.                 *)
SetGranules(resolution, length, lifetime) ==
  IF resolution <= 0 \/ lifetime < 0 THEN Null
  ELSE LET shift == OffsetBits(resolution, lifetime)
       IN IF /\ shift <= GranuleBits + 1
             /\ length <= resolution * 2^Max({0, GranuleBits - shift})
          THEN <<shift, Fraction(resolution)>> ELSE Null

(* The granules to a time, as a quotient of two integers.                    *)
Over(rate) == rate[2] * Milli
DurationGranule(rate, t) == Round(t * rate[1], Over(rate))

(* A slip: the base is rounded, and may come to lie after the time.          *)
BaseRounded(rate, t) == Round(t * rate[1], Over(rate))

Base(rate, t) == (t * rate[1]) \div Over(rate)

(* kate_time_granule: <<base, offset>>, or Null when they do not fit.  What  *)
(* the base loses by being cut goes to the offset.                           *)
TimeGranule(rate, shift, base, offset) ==
  LET b == Base(rate, base)
      rest == (base + offset) * rate[1] - b * Over(rate)
      o == IF rest < 0 THEN 0 ELSE Round(rest, Over(rate))
  IN IF b >= 2^(GranuleBits + 1 - shift) - 1 \/ o >= 2^shift - 1 THEN Null
     ELSE <<b * 2^shift + o>>

(* kate_granule_split_time.                                                  *)
SplitTime(shift, granulepos) ==
  LET b == granulepos \div 2^shift IN <<b, granulepos - b * 2^shift>>

-----------------------------------------------------------------------------
(* kate_info_init, with the number of headers that kate_encode_init sets,    *)
(* and what the client sets of it, each by its own call.                     *)
InfoInit ==
  [headers |-> 9, encoding |-> 0, directionality |-> 0, shift |-> 32,
   canvas |-> <<0, 0>>, rate |-> <<1000, 1>>, language |-> <<>>, category |-> <<>>]

Accepted(asked) ==
  /\ SetLanguage(asked.language).ok
  /\ CategoryFits(asked.category)
  /\ asked.granules # Null => SetGranules(asked.granules[1], asked.granules[2],
                                         asked.granules[3]) # Null

InfoOf(asked) ==
  LET g == IF asked.granules = Null THEN <<InfoInit.shift, InfoInit.rate>>
           ELSE SetGranules(asked.granules[1], asked.granules[2], asked.granules[3])
  IN [InfoInit EXCEPT !.language = SetLanguage(asked.language).tag,
                      !.category = asked.category,
                      !.directionality = asked.directionality,
                      !.canvas = asked.canvas,
                      !.shift = g[1], !.rate = g[2]]

-----------------------------------------------------------------------------
(* Comments and metadata.                                                    *)

Equals == 61
TagFits(tag) == tag # <<>> /\ \A c \in ToSet(tag) : c \in 32 .. 125 /\ c # Equals

HasEquals(c) == Equals \in ToSet(BeforeNul(c))
EqualsAt(c) == Min({i \in DOMAIN c : c[i] = Equals})
TagOf(c) == SubSeq(c, 1, EqualsAt(c) - 1)
ValueOf(c) == SubSeq(c, EqualsAt(c) + 1, Len(c))

(* kate_comment_add_length.                                                  *)
CommentFits(c) ==
  /\ Equals \in ToSet(c)
  /\ TagFits(TagOf(c))
  /\ TextValidate(SubSeq(c, EqualsAt(c), Len(c)))
Added(comments) == SelectSeq(comments, CommentFits)

(* kate_comment_query takes a comment whose tag is what the asked tag starts *)
(* with.                                                                     *)
Asks(tag, c) == HasEquals(c) /\ AlikeFor(tag, c, EqualsAt(c) - 1)

(* kate_comment_query_count, and what kate_comment_query gives for the nth.  *)
CommentsOf(comments, tag) ==
  LET asked == SelectSeq(comments, LAMBDA c: Asks(tag, c))
  IN [n \in DOMAIN asked |-> ValueOf(asked[n])]

(* kate_meta_query_tag_count, and what kate_meta_query_tag gives.            *)
LeavesOf(meta, tag) ==
  LET asked == SelectSeq(meta, LAMBDA leaf: Alike(tag, leaf.tag))
  IN [n \in DOMAIN asked |-> asked[n].value]
=============================================================================
