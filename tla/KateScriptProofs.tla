-------------------------- MODULE KateScriptProofs --------------------------
(* What kateenc sends, whatever description it reads (KateScript).           *)
EXTENDS KateScript, WellFoundedInduction, TLAPS

(* Induction over the steps of a loop, for a set, as the provers take no     *)
(* operator.                                                                 *)
Below == {p \in Nat \X Nat : p[1] < p[2]}

LEMMA BelowWellFounded == IsWellFoundedOn(Below, Nat)
BY NatLessThanWellFounded DEF OpToRel, Below

LEMMA LeastNatural ==
  ASSUME NEW S, S \subseteq Nat, S # {}
  PROVE  \E x \in S : \A y \in S : x <= y
<1>1. PICK x \in S : \A y \in S : <<y, x>> \notin Below
  BY BelowWellFounded, WFMin, Zenon
<1>2. \A y \in S : ~ (y < x)
  BY <1>1 DEF Below
<1> QED BY <1>2

(* What holds first, and after a step when it does before, holds to the end. *)
LEMMA UpTo ==
  ASSUME NEW n \in Nat, NEW S, 0 \in S, \A k \in 1 .. n : k - 1 \in S => k \in S
  PROVE  \A k \in 0 .. n : k \in S
<1> SUFFICES ASSUME 0 .. n \ S # {} PROVE FALSE
  OBVIOUS
<1>1. PICK k \in 0 .. n \ S : \A j \in 0 .. n \ S : k <= j
  <2>1. 0 .. n \ S \subseteq Nat
    OBVIOUS
  <2> QED BY <2>1, LeastNatural
<1>2. k \in 1 .. n /\ k - 1 \in 0 .. n /\ ~ (k <= k - 1)
  BY <1>1
<1> QED BY <1>1, <1>2

(* The values that a loop goes through, of which the n-th is its result.     *)
Goes(at, n, a, F) == at[0] = a /\ \A k \in 1 .. n : at[k] = F[<<k, at[k - 1]>>]

LEMMA LoopGoes ==
  ASSUME NEW S, NEW a \in S, NEW n \in Nat, NEW F \in [(1 .. n) \X S -> S]
  PROVE  \E at \in [0 .. n -> S] : Goes(at, n, a, F)
<1> DEFINE Some == {m \in 0 .. n : \E h \in [0 .. m -> S] : Goes(h, m, a, F)}
<1>1. 0 \in Some
  <2>1. [k \in 0 .. 0 |-> a] \in [0 .. 0 -> S]
    OBVIOUS
  <2>2. Goes([k \in 0 .. 0 |-> a], 0, a, F)
    BY DEF Goes
  <2> QED BY <2>1, <2>2
<1>2. ASSUME NEW m \in 1 .. n, m - 1 \in Some PROVE m \in Some
  <2>1. PICK h \in [0 .. m - 1 -> S] : Goes(h, m - 1, a, F)
    BY <1>2
  <2> DEFINE g == [k \in 0 .. m |-> IF k = m THEN F[<<m, h[m - 1]>>] ELSE h[k]]
  <2>2. \A k \in 0 .. m : k = m \/ k \in 0 .. m - 1
    OBVIOUS
  <2>3. <<m, h[m - 1]>> \in (1 .. n) \X S
    OBVIOUS
  <2>4. g \in [0 .. m -> S]
    BY <2>2, <2>3
  <2>5. g[0] = a
    BY <2>1 DEF Goes
  <2>6. ASSUME NEW k \in 1 .. m PROVE g[k] = F[<<k, g[k - 1]>>]
    <3>1. CASE k = m
      <4>1. k - 1 \in 0 .. m /\ k - 1 # m /\ k \in 0 .. m
        BY <3>1
      <4> QED BY <3>1, <4>1
    <3>2. CASE k \in 1 .. m - 1
      <4>1. k - 1 \in 0 .. m /\ k - 1 # m /\ k \in 0 .. m /\ k # m
        BY <3>2
      <4>2. g[k] = h[k] /\ g[k - 1] = h[k - 1]
        BY <4>1
      <4> QED BY <2>1, <3>2, <4>2 DEF Goes
    <3> QED BY <3>1, <3>2
  <2>7. Goes(g, m, a, F)
    BY <2>5, <2>6 DEF Goes
  <2> HIDE DEF g
  <2> QED BY <2>4, <2>7
<1> HIDE DEF Some
<1>3. n \in Some
  BY <1>1, <1>2, UpTo
<1> QED BY <1>3 DEF Some

LEMMA LoopStays ==
  ASSUME NEW S, NEW a \in S, NEW n \in Nat, NEW F \in [(1 .. n) \X S -> S], NEW at,
         at[0] = a, \A k \in 1 .. n : at[k - 1] \in S => at[k] = F[<<k, at[k - 1]>>]
  PROVE  \A k \in 0 .. n : at[k] \in S
<1> DEFINE In == {k \in 0 .. n : at[k] \in S}
<1>1. 0 \in In
  OBVIOUS
<1>2. ASSUME NEW k \in 1 .. n, k - 1 \in In PROVE k \in In
  <2>1. <<k, at[k - 1]>> \in (1 .. n) \X S
    BY <1>2
  <2> QED BY <1>2, <2>1
<1> HIDE DEF In
<1>3. \A k \in 0 .. n : k \in In
  BY <1>1, <1>2, UpTo
<1> QED BY <1>3 DEF In

-----------------------------------------------------------------------------
(* The loops over a text, a body and a list.                                 *)

CurveBodyStays(S, G, p, body) ==
  p \in S /\ body \in Seq(G) /\ \A q \in S : \A k \in 1 .. Len(body) : CurveStep(q, body[k]) \in S
LEMMA CurveBodyGoes ==
  ASSUME NEW S, NEW G, NEW p, NEW body, CurveBodyStays(S, G, p, body)
  PROVE  \E at \in [0 .. Len(body) -> S] :
           /\ at[0] = p /\ CurveBody(p, body) = at[Len(body)]
           /\ \A k \in 1 .. Len(body) : at[k] = CurveStep(at[k - 1], body[k])
<1>0. p \in S /\ body \in Seq(G) /\ \A q \in S : \A k \in 1 .. Len(body) : CurveStep(q, body[k]) \in S
  BY DEF CurveBodyStays
<1> DEFINE n == Len(body)
           F == [j \in (1 .. n) \X S |-> CurveStep(j[2], body[j[1]])]
           Runs(g) == g = [k \in 0 .. n |-> IF k = 0 THEN p ELSE CurveStep(g[k - 1], body[k])]
           at == CHOOSE g : Runs(g)
<1>1. n \in Nat /\ F \in [(1 .. n) \X S -> S]
  BY <1>0
<1>2. \A k \in 1 .. n : \A q \in S : F[<<k, q>>] = CurveStep(q, body[k])
  BY <1>0
<1>3. CurveBody(p, body) = at[n]
  BY DEF CurveBody
<1> HIDE DEF n, F
<1>4. PICK f \in [0 .. n -> S] : Goes(f, n, p, F)
  BY <1>0, <1>1, LoopGoes
<1>5. Runs(f)
  <2>1. ASSUME NEW k \in 1 .. n PROVE f[k] = CurveStep(f[k - 1], body[k])
    <3>1. k - 1 \in 0 .. n /\ f[k - 1] \in S
      BY <1>1
    <3> QED BY <1>2, <1>4, <3>1 DEF Goes
  <2>2. \A k \in 0 .. n : f[k] = IF k = 0 THEN p ELSE CurveStep(f[k - 1], body[k])
    BY <1>1, <1>4, <2>1 DEF Goes
  <2> QED BY <1>4, <2>2
<1>6. Runs(at)
  BY <1>5
<1> HIDE DEF at
<1>7. at[0] = p /\ \A k \in 1 .. n : at[k] = CurveStep(at[k - 1], body[k])
  BY <1>1, <1>6
<1>8. \A k \in 0 .. n : at[k] \in S
  <2>1. \A k \in 1 .. n : at[k - 1] \in S => at[k] = F[<<k, at[k - 1]>>]
    BY <1>2, <1>7
  <2>2. at[0] = p
    BY <1>7
  <2> QED BY <1>0, <1>1, <2>1, <2>2, LoopStays
<1>9. at \in [0 .. n -> S]
  BY <1>6, <1>8
<1> QED BY <1>0, <1>3, <1>7, <1>9 DEF n

RangeBodyStays(S, G, p, body) ==
  p \in S /\ body \in Seq(G) /\ \A q \in S : \A k \in 1 .. Len(body) : RangeSet(q, body[k]) \in S
LEMMA RangeBodyGoes ==
  ASSUME NEW S, NEW G, NEW p, NEW body, RangeBodyStays(S, G, p, body)
  PROVE  \E at \in [0 .. Len(body) -> S] :
           /\ at[0] = p /\ RangeBody(p, body) = at[Len(body)]
           /\ \A k \in 1 .. Len(body) : at[k] = RangeSet(at[k - 1], body[k])
<1>0. p \in S /\ body \in Seq(G) /\ \A q \in S : \A k \in 1 .. Len(body) : RangeSet(q, body[k]) \in S
  BY DEF RangeBodyStays
<1> DEFINE n == Len(body)
           F == [j \in (1 .. n) \X S |-> RangeSet(j[2], body[j[1]])]
           Runs(g) == g = [k \in 0 .. n |-> IF k = 0 THEN p ELSE RangeSet(g[k - 1], body[k])]
           at == CHOOSE g : Runs(g)
<1>1. n \in Nat /\ F \in [(1 .. n) \X S -> S]
  BY <1>0
<1>2. \A k \in 1 .. n : \A q \in S : F[<<k, q>>] = RangeSet(q, body[k])
  BY <1>0
<1>3. RangeBody(p, body) = at[n]
  BY DEF RangeBody
<1> HIDE DEF n, F
<1>4. PICK f \in [0 .. n -> S] : Goes(f, n, p, F)
  BY <1>0, <1>1, LoopGoes
<1>5. Runs(f)
  <2>1. ASSUME NEW k \in 1 .. n PROVE f[k] = RangeSet(f[k - 1], body[k])
    <3>1. k - 1 \in 0 .. n /\ f[k - 1] \in S
      BY <1>1
    <3> QED BY <1>2, <1>4, <3>1 DEF Goes
  <2>2. \A k \in 0 .. n : f[k] = IF k = 0 THEN p ELSE RangeSet(f[k - 1], body[k])
    BY <1>1, <1>4, <2>1 DEF Goes
  <2> QED BY <1>4, <2>2
<1>6. Runs(at)
  BY <1>5
<1> HIDE DEF at
<1>7. at[0] = p /\ \A k \in 1 .. n : at[k] = RangeSet(at[k - 1], body[k])
  BY <1>1, <1>6
<1>8. \A k \in 0 .. n : at[k] \in S
  <2>1. \A k \in 1 .. n : at[k - 1] \in S => at[k] = F[<<k, at[k - 1]>>]
    BY <1>2, <1>7
  <2>2. at[0] = p
    BY <1>7
  <2> QED BY <1>0, <1>1, <2>1, <2>2, LoopStays
<1>9. at \in [0 .. n -> S]
  BY <1>6, <1>8
<1> QED BY <1>0, <1>3, <1>7, <1>9 DEF n

ItemBodyStays(S, G, p, kind, body) ==
  p \in S /\ body \in Seq(G) /\ \A q \in S : \A k \in 1 .. Len(body) : ItemStep(kind, q, body[k]) \in S
LEMMA ItemBodyGoes ==
  ASSUME NEW S, NEW G, NEW p, NEW kind, NEW body, ItemBodyStays(S, G, p, kind, body)
  PROVE  \E at \in [0 .. Len(body) -> S] :
           /\ at[0] = p /\ ItemBody(kind, p, body) = at[Len(body)]
           /\ \A k \in 1 .. Len(body) : at[k] = ItemStep(kind, at[k - 1], body[k])
<1>0. p \in S /\ body \in Seq(G) /\ \A q \in S : \A k \in 1 .. Len(body) : ItemStep(kind, q, body[k]) \in S
  BY DEF ItemBodyStays
<1> DEFINE n == Len(body)
           F == [j \in (1 .. n) \X S |-> ItemStep(kind, j[2], body[j[1]])]
           Runs(g) == g = [k \in 0 .. n |-> IF k = 0 THEN p ELSE ItemStep(kind, g[k - 1], body[k])]
           at == CHOOSE g : Runs(g)
<1>1. n \in Nat /\ F \in [(1 .. n) \X S -> S]
  BY <1>0
<1>2. \A k \in 1 .. n : \A q \in S : F[<<k, q>>] = ItemStep(kind, q, body[k])
  BY <1>0
<1>3. ItemBody(kind, p, body) = at[n]
  BY DEF ItemBody
<1> HIDE DEF n, F
<1>4. PICK f \in [0 .. n -> S] : Goes(f, n, p, F)
  BY <1>0, <1>1, LoopGoes
<1>5. Runs(f)
  <2>1. ASSUME NEW k \in 1 .. n PROVE f[k] = ItemStep(kind, f[k - 1], body[k])
    <3>1. k - 1 \in 0 .. n /\ f[k - 1] \in S
      BY <1>1
    <3> QED BY <1>2, <1>4, <3>1 DEF Goes
  <2>2. \A k \in 0 .. n : f[k] = IF k = 0 THEN p ELSE ItemStep(kind, f[k - 1], body[k])
    BY <1>1, <1>4, <2>1 DEF Goes
  <2> QED BY <1>4, <2>2
<1>6. Runs(at)
  BY <1>5
<1> HIDE DEF at
<1>7. at[0] = p /\ \A k \in 1 .. n : at[k] = ItemStep(kind, at[k - 1], body[k])
  BY <1>1, <1>6
<1>8. \A k \in 0 .. n : at[k] \in S
  <2>1. \A k \in 1 .. n : at[k - 1] \in S => at[k] = F[<<k, at[k - 1]>>]
    BY <1>2, <1>7
  <2>2. at[0] = p
    BY <1>7
  <2> QED BY <1>0, <1>1, <2>1, <2>2, LoopStays
<1>9. at \in [0 .. n -> S]
  BY <1>6, <1>8
<1> QED BY <1>0, <1>3, <1>7, <1>9 DEF n

KaraokeBodyStays(S, G, p, morph, body) ==
  p \in S /\ body \in Seq(G) /\ \A q \in S : \A k \in 1 .. Len(body) : KaraokeStep(q, body[k], morph) \in S
LEMMA KaraokeBodyGoes ==
  ASSUME NEW S, NEW G, NEW p, NEW morph, NEW body, KaraokeBodyStays(S, G, p, morph, body)
  PROVE  \E at \in [0 .. Len(body) -> S] :
           /\ at[0] = p /\ KaraokeBody(p, body, morph) = at[Len(body)]
           /\ \A k \in 1 .. Len(body) : at[k] = KaraokeStep(at[k - 1], body[k], morph)
<1>0. p \in S /\ body \in Seq(G) /\ \A q \in S : \A k \in 1 .. Len(body) : KaraokeStep(q, body[k], morph) \in S
  BY DEF KaraokeBodyStays
<1> DEFINE n == Len(body)
           F == [j \in (1 .. n) \X S |-> KaraokeStep(j[2], body[j[1]], morph)]
           Runs(g) == g = [k \in 0 .. n |-> IF k = 0 THEN p ELSE KaraokeStep(g[k - 1], body[k], morph)]
           at == CHOOSE g : Runs(g)
<1>1. n \in Nat /\ F \in [(1 .. n) \X S -> S]
  BY <1>0
<1>2. \A k \in 1 .. n : \A q \in S : F[<<k, q>>] = KaraokeStep(q, body[k], morph)
  BY <1>0
<1>3. KaraokeBody(p, body, morph) = at[n]
  BY DEF KaraokeBody
<1> HIDE DEF n, F
<1>4. PICK f \in [0 .. n -> S] : Goes(f, n, p, F)
  BY <1>0, <1>1, LoopGoes
<1>5. Runs(f)
  <2>1. ASSUME NEW k \in 1 .. n PROVE f[k] = KaraokeStep(f[k - 1], body[k], morph)
    <3>1. k - 1 \in 0 .. n /\ f[k - 1] \in S
      BY <1>1
    <3> QED BY <1>2, <1>4, <3>1 DEF Goes
  <2>2. \A k \in 0 .. n : f[k] = IF k = 0 THEN p ELSE KaraokeStep(f[k - 1], body[k], morph)
    BY <1>1, <1>4, <2>1 DEF Goes
  <2> QED BY <1>4, <2>2
<1>6. Runs(at)
  BY <1>5
<1> HIDE DEF at
<1>7. at[0] = p /\ \A k \in 1 .. n : at[k] = KaraokeStep(at[k - 1], body[k], morph)
  BY <1>1, <1>6
<1>8. \A k \in 0 .. n : at[k] \in S
  <2>1. \A k \in 1 .. n : at[k - 1] \in S => at[k] = F[<<k, at[k - 1]>>]
    BY <1>2, <1>7
  <2>2. at[0] = p
    BY <1>7
  <2> QED BY <1>0, <1>1, <2>1, <2>2, LoopStays
<1>9. at \in [0 .. n -> S]
  BY <1>6, <1>8
<1> QED BY <1>0, <1>3, <1>7, <1>9 DEF n

SumSeqStays(S, G, s) ==
  0 \in S /\ s \in Seq(G) /\ \A q \in S : \A k \in 1 .. Len(s) : q + s[k] \in S
LEMMA SumSeqGoes ==
  ASSUME NEW S, NEW G, NEW s, SumSeqStays(S, G, s)
  PROVE  \E at \in [0 .. Len(s) -> S] :
           /\ at[0] = 0 /\ SumSeq(s) = at[Len(s)]
           /\ \A k \in 1 .. Len(s) : at[k] = at[k - 1] + s[k]
<1>0. 0 \in S /\ s \in Seq(G) /\ \A q \in S : \A k \in 1 .. Len(s) : q + s[k] \in S
  BY DEF SumSeqStays
<1> DEFINE n == Len(s)
           F == [j \in (1 .. n) \X S |-> j[2] + s[j[1]]]
           Runs(g) == g = [k \in 0 .. n |-> IF k = 0 THEN 0 ELSE g[k - 1] + s[k]]
           at == CHOOSE g : Runs(g)
<1>1. n \in Nat /\ F \in [(1 .. n) \X S -> S]
  BY <1>0
<1>2. \A k \in 1 .. n : \A q \in S : F[<<k, q>>] = q + s[k]
  BY <1>0
<1>3. SumSeq(s) = at[n]
  BY DEF SumSeq
<1> HIDE DEF n, F
<1>4. PICK f \in [0 .. n -> S] : Goes(f, n, 0, F)
  BY <1>0, <1>1, LoopGoes
<1>5. Runs(f)
  <2>1. ASSUME NEW k \in 1 .. n PROVE f[k] = f[k - 1] + s[k]
    <3>1. k - 1 \in 0 .. n /\ f[k - 1] \in S
      BY <1>1
    <3> QED BY <1>2, <1>4, <3>1 DEF Goes
  <2>2. \A k \in 0 .. n : f[k] = IF k = 0 THEN 0 ELSE f[k - 1] + s[k]
    BY <1>1, <1>4, <2>1 DEF Goes
  <2> QED BY <1>4, <2>2
<1>6. Runs(at)
  BY <1>5
<1> HIDE DEF at
<1>7. at[0] = 0 /\ \A k \in 1 .. n : at[k] = at[k - 1] + s[k]
  BY <1>1, <1>6
<1>8. \A k \in 0 .. n : at[k] \in S
  <2>1. \A k \in 1 .. n : at[k - 1] \in S => at[k] = F[<<k, at[k - 1]>>]
    BY <1>2, <1>7
  <2>2. at[0] = 0
    BY <1>7
  <2> QED BY <1>0, <1>1, <2>1, <2>2, LoopStays
<1>9. at \in [0 .. n -> S]
  BY <1>6, <1>8
<1> QED BY <1>0, <1>3, <1>7, <1>9 DEF n

ExpandedStays(S, G, text) ==
  [state |-> "text", out |-> <<>>] \in S /\ text \in Seq(G) /\ \A q \in S : \A k \in 1 .. Len(text) : ExpandedBy(q, text[k]) \in S
LEMMA ExpandedGoes ==
  ASSUME NEW S, NEW G, NEW text, ExpandedStays(S, G, text)
  PROVE  \E at \in [0 .. Len(text) -> S] :
           /\ at[0] = [state |-> "text", out |-> <<>>] /\ Expanded(text) = at[Len(text)].out
           /\ \A k \in 1 .. Len(text) : at[k] = ExpandedBy(at[k - 1], text[k])
<1>0. [state |-> "text", out |-> <<>>] \in S /\ text \in Seq(G) /\ \A q \in S : \A k \in 1 .. Len(text) : ExpandedBy(q, text[k]) \in S
  BY DEF ExpandedStays
<1> DEFINE n == Len(text)
           F == [j \in (1 .. n) \X S |-> ExpandedBy(j[2], text[j[1]])]
           Runs(g) == g = [k \in 0 .. n |-> IF k = 0 THEN [state |-> "text", out |-> <<>>] ELSE ExpandedBy(g[k - 1], text[k])]
           at == CHOOSE g : Runs(g)
<1>1. n \in Nat /\ F \in [(1 .. n) \X S -> S]
  BY <1>0
<1>2. \A k \in 1 .. n : \A q \in S : F[<<k, q>>] = ExpandedBy(q, text[k])
  BY <1>0
<1>3. Expanded(text) = at[n].out
  BY DEF Expanded
<1> HIDE DEF n, F
<1>4. PICK f \in [0 .. n -> S] : Goes(f, n, [state |-> "text", out |-> <<>>], F)
  BY <1>0, <1>1, LoopGoes
<1>5. Runs(f)
  <2>1. ASSUME NEW k \in 1 .. n PROVE f[k] = ExpandedBy(f[k - 1], text[k])
    <3>1. k - 1 \in 0 .. n /\ f[k - 1] \in S
      BY <1>1
    <3> QED BY <1>2, <1>4, <3>1 DEF Goes
  <2>2. \A k \in 0 .. n : f[k] = IF k = 0 THEN [state |-> "text", out |-> <<>>] ELSE ExpandedBy(f[k - 1], text[k])
    BY <1>1, <1>4, <2>1 DEF Goes
  <2> QED BY <1>4, <2>2
<1>6. Runs(at)
  BY <1>5
<1> HIDE DEF at
<1>7. at[0] = [state |-> "text", out |-> <<>>] /\ \A k \in 1 .. n : at[k] = ExpandedBy(at[k - 1], text[k])
  BY <1>1, <1>6
<1>8. \A k \in 0 .. n : at[k] \in S
  <2>1. \A k \in 1 .. n : at[k - 1] \in S => at[k] = F[<<k, at[k - 1]>>]
    BY <1>2, <1>7
  <2>2. at[0] = [state |-> "text", out |-> <<>>]
    BY <1>7
  <2> QED BY <1>0, <1>1, <2>1, <2>2, LoopStays
<1>9. at \in [0 .. n -> S]
  BY <1>6, <1>8
<1> QED BY <1>0, <1>3, <1>7, <1>9 DEF n

Unread == [done |-> <<>>, line |-> <<>>]
LEMMA TrimmedGoes ==
  ASSUME NEW S, NEW G, Unread \in S, NEW text \in Seq(G),
         \A q \in S : \A k \in 1 .. Len(text) : LineBy(q, text[k]) \in S
  PROVE  \E at \in [0 .. Len(text) -> S] :
           /\ at[0] = Unread /\ Trimmed(text) = Joined(at[Len(text)])
           /\ \A k \in 1 .. Len(text) : at[k] = LineBy(at[k - 1], text[k])
<1> DEFINE n == Len(text)
           F == [j \in (1 .. n) \X S |-> LineBy(j[2], text[j[1]])]
           Runs(g) == g = [k \in 0 .. n |-> IF k = 0 THEN Unread ELSE LineBy(g[k - 1], text[k])]
           at == CHOOSE g : Runs(g)
<1>1. n \in Nat /\ F \in [(1 .. n) \X S -> S]
  OBVIOUS
<1>2. \A k \in 1 .. n : \A q \in S : F[<<k, q>>] = LineBy(q, text[k])
  OBVIOUS
<1>3. Trimmed(text) = Joined(at[n])
  BY DEF Trimmed, Unread
<1> HIDE DEF n, F
<1>4. PICK f \in [0 .. n -> S] : Goes(f, n, Unread, F)
  BY <1>1, LoopGoes
<1>5. Runs(f)
  <2>1. ASSUME NEW k \in 1 .. n PROVE f[k] = LineBy(f[k - 1], text[k])
    <3>1. k - 1 \in 0 .. n /\ f[k - 1] \in S
      BY <1>1
    <3> QED BY <1>2, <1>4, <3>1 DEF Goes
  <2>2. \A k \in 0 .. n : f[k] = IF k = 0 THEN Unread ELSE LineBy(f[k - 1], text[k])
    BY <1>1, <1>4, <2>1 DEF Goes
  <2> QED BY <1>4, <2>2
<1>6. Runs(at)
  BY <1>5
<1> HIDE DEF at
<1>7. at[0] = Unread /\ \A k \in 1 .. n : at[k] = LineBy(at[k - 1], text[k])
  <2>1. 0 \in 0 .. n /\ \A k \in 1 .. n : k \in 0 .. n /\ k # 0
    BY <1>1
  <2> QED BY <1>6, <2>1, Zenon
<1>8. \A k \in 0 .. n : at[k] \in S
  <2>1. \A k \in 1 .. n : at[k - 1] \in S => at[k] = F[<<k, at[k - 1]>>]
    BY <1>2, <1>7
  <2>2. at[0] = Unread
    BY <1>7
  <2> QED BY <1>1, <2>1, <2>2, LoopStays
<1>9. at \in [0 .. n -> S]
  BY <1>6, <1>8
<1> QED BY <1>3, <1>7, <1>9 DEF n

LEMMA GlyphCountGoes ==
  ASSUME NEW S, NEW G, [in |-> 0, n |-> 0] \in S, NEW text \in Seq(G),
         \A q \in S : \A k \in 1 .. Len(text) : GlyphBy(q, text[k]) \in S
  PROVE  \E at \in [0 .. Len(text) -> S] :
           /\ at[0] = [in |-> 0, n |-> 0] /\ GlyphCount(text) = at[Len(text)].n
           /\ \A k \in 1 .. Len(text) : at[k] = GlyphBy(at[k - 1], text[k])
<1> DEFINE n == Len(text)
           F == [j \in (1 .. n) \X S |-> GlyphBy(j[2], text[j[1]])]
           Runs(g) == g = [k \in 0 .. n |-> IF k = 0 THEN [in |-> 0, n |-> 0] ELSE GlyphBy(g[k - 1], text[k])]
           at == CHOOSE g : Runs(g)
<1>1. n \in Nat /\ F \in [(1 .. n) \X S -> S]
  OBVIOUS
<1>2. \A k \in 1 .. n : \A q \in S : F[<<k, q>>] = GlyphBy(q, text[k])
  OBVIOUS
<1>3. GlyphCount(text) = at[n].n
  BY DEF GlyphCount
<1> HIDE DEF n, F
<1>4. PICK f \in [0 .. n -> S] : Goes(f, n, [in |-> 0, n |-> 0], F)
  BY <1>1, LoopGoes
<1>5. Runs(f)
  <2>1. ASSUME NEW k \in 1 .. n PROVE f[k] = GlyphBy(f[k - 1], text[k])
    <3>1. k - 1 \in 0 .. n /\ f[k - 1] \in S
      BY <1>1
    <3> QED BY <1>2, <1>4, <3>1 DEF Goes
  <2>2. \A k \in 0 .. n : f[k] = IF k = 0 THEN [in |-> 0, n |-> 0] ELSE GlyphBy(f[k - 1], text[k])
    BY <1>1, <1>4, <2>1 DEF Goes
  <2> QED BY <1>4, <2>2
<1>6. Runs(at)
  BY <1>5
<1> HIDE DEF at
<1>7. at[0] = [in |-> 0, n |-> 0] /\ \A k \in 1 .. n : at[k] = GlyphBy(at[k - 1], text[k])
  BY <1>1, <1>6
<1>8. \A k \in 0 .. n : at[k] \in S
  <2>1. \A k \in 1 .. n : at[k - 1] \in S => at[k] = F[<<k, at[k - 1]>>]
    BY <1>2, <1>7
  <2>2. at[0] = [in |-> 0, n |-> 0]
    BY <1>7
  <2> QED BY <1>1, <2>1, <2>2, LoopStays
<1>9. at \in [0 .. n -> S]
  BY <1>6, <1>8
<1> QED BY <1>3, <1>7, <1>9 DEF n

FittingStays(S, G, m, list) ==
  <<>> \in S /\ list \in Seq(G) /\ \A q \in S : \A k \in 1 .. Len(list) : FitBy(q, list[k], m) \in S
LEMMA FittingGoes ==
  ASSUME NEW S, NEW G, NEW m, NEW list, FittingStays(S, G, m, list)
  PROVE  \E at \in [0 .. Len(list) -> S] :
           /\ at[0] = <<>> /\ Fitting(list, m) = at[Len(list)]
           /\ \A k \in 1 .. Len(list) : at[k] = FitBy(at[k - 1], list[k], m)
<1>0. <<>> \in S /\ list \in Seq(G) /\ \A q \in S : \A k \in 1 .. Len(list) : FitBy(q, list[k], m) \in S
  BY DEF FittingStays
<1> DEFINE n == Len(list)
           F == [j \in (1 .. n) \X S |-> FitBy(j[2], list[j[1]], m)]
           Runs(g) == g = [k \in 0 .. n |-> IF k = 0 THEN <<>> ELSE FitBy(g[k - 1], list[k], m)]
           at == CHOOSE g : Runs(g)
<1>1. n \in Nat /\ F \in [(1 .. n) \X S -> S]
  BY <1>0
<1>2. \A k \in 1 .. n : \A q \in S : F[<<k, q>>] = FitBy(q, list[k], m)
  BY <1>0
<1>3. Fitting(list, m) = at[n]
  BY DEF Fitting
<1> HIDE DEF n, F
<1>4. PICK f \in [0 .. n -> S] : Goes(f, n, <<>>, F)
  BY <1>0, <1>1, LoopGoes
<1>5. Runs(f)
  <2>1. ASSUME NEW k \in 1 .. n PROVE f[k] = FitBy(f[k - 1], list[k], m)
    <3>1. k - 1 \in 0 .. n /\ f[k - 1] \in S
      BY <1>1
    <3> QED BY <1>2, <1>4, <3>1 DEF Goes
  <2>2. \A k \in 0 .. n : f[k] = IF k = 0 THEN <<>> ELSE FitBy(f[k - 1], list[k], m)
    BY <1>1, <1>4, <2>1 DEF Goes
  <2> QED BY <1>4, <2>2
<1>6. Runs(at)
  BY <1>5
<1> HIDE DEF at
<1>7. at[0] = <<>> /\ \A k \in 1 .. n : at[k] = FitBy(at[k - 1], list[k], m)
  BY <1>1, <1>6
<1>8. \A k \in 0 .. n : at[k] \in S
  <2>1. \A k \in 1 .. n : at[k - 1] \in S => at[k] = F[<<k, at[k - 1]>>]
    BY <1>2, <1>7
  <2>2. at[0] = <<>>
    BY <1>7
  <2> QED BY <1>0, <1>1, <2>1, <2>2, LoopStays
<1>9. at \in [0 .. n -> S]
  BY <1>6, <1>8
<1> QED BY <1>0, <1>3, <1>7, <1>9 DEF n

-----------------------------------------------------------------------------
(* A text is a sequence of characters all the way.                           *)

(* The strings, as the provers do not know which ones they are.              *)
Word == STRING \cup
  {"a", "&", "<", "quote", "nl", "amp", "lt", "gt", "semicolon", "text", "named", NoName, "pixel",
   "percent", "none", "unset", "static", "catmull_rom", "paletted", "png", "l2r", "glyph_pointer_1",
   "garbage", "bytes", "?", "blank", "backn", ">"}

LEMMA Strings == STRING \subseteq Word
BY DEF Word

LEMMA Letters ==
  /\ "a" \in Word /\ "&" \in Word /\ "<" \in Word /\ "quote" \in Word /\ "nl" \in Word
  /\ "amp" \in Word /\ "lt" \in Word /\ "gt" \in Word /\ "semicolon" \in Word
  /\ "text" \in Word /\ "named" \in Word
BY DEF Word

LEMMA Words0 ==
  /\ NoName \in Word /\ "pixel" \in Word /\ "percent" \in Word /\ "none" \in Word /\ "unset" \in Word
  /\ "static" \in Word /\ "catmull_rom" \in Word /\ "paletted" \in Word /\ "png" \in Word
  /\ "l2r" \in Word /\ "glyph_pointer_1" \in Word /\ "garbage" \in Word /\ "bytes" \in Word
  /\ "?" \in Word
BY DEF Word

LEMMA BackslashedIs == ASSUME NEW text \in Seq(Word) PROVE Backslashed(text) \in Seq(Word)
BY Letters DEF Backslashed

LEMMA EscapedIs == ASSUME NEW c \in Numeric PROVE Escaped(CharOf[c]) \in Seq(Word)
<1>1. CharOf[c] \in {"a", "&", "<", "nl", "quote"}
  BY DEF CharOf, Numeric
<1>2. ASSUME NEW d \in {"a", "&", "<", "nl", "quote"} PROVE Escaped(d) \in Seq(Word)
  <2>1. CASE d \in DOMAIN NameOf
    <3>1. NameOf[d] \in Word
      BY <2>1, Letters DEF NameOf
    <3> QED BY <2>1, <3>1, Letters DEF Escaped
  <2>2. CASE d \notin DOMAIN NameOf
    <3>1. d \in Word
      BY Letters
    <3> QED BY <2>2, <3>1 DEF Escaped
  <2> QED BY <2>1, <2>2
<1> QED BY <1>1, <1>2

LEMMA ExpandedIs == ASSUME NEW text \in Seq(Word) PROVE Expanded(text) \in Seq(Word)
<1> DEFINE S == [state : Word, out : Seq(Word)]
<1>1. [state |-> "text", out |-> <<>>] \in S
  BY Letters
<1>2. ASSUME NEW q \in S, NEW c \in Word PROVE ExpandedBy(q, c) \in S
  <2>1. CASE c \in Numeric /\ q.state = "text"
    <3>1. q.out \o Escaped(CharOf[c]) \in Seq(Word)
      BY <2>1, EscapedIs
    <3> QED BY <2>1, <3>1 DEF ExpandedBy
  <2>2. CASE c \in Numeric /\ q.state # "text"
    BY <2>2, Letters DEF ExpandedBy
  <2>3. CASE c \notin Numeric
    BY <2>3, Letters DEF ExpandedBy
  <2> QED BY <2>1, <2>2, <2>3
<1> HIDE DEF S
<1>3. \A q \in S : \A k \in 1 .. Len(text) : ExpandedBy(q, text[k]) \in S
  BY <1>2
<1>5. ExpandedStays(S, Word, text)
  BY <1>1, <1>3 DEF ExpandedStays
<1>4. PICK at \in [0 .. Len(text) -> S] : Expanded(text) = at[Len(text)].out
  BY <1>5, ExpandedGoes
<1> QED BY <1>4 DEF S

LEMMA LeastIs ==
  ASSUME NEW S, S \subseteq Nat, S # {}
  PROVE  Min(S) \in S /\ \A y \in S : Min(S) <= y
BY LeastNatural DEF Min

LEMMA GreatestIs ==
  ASSUME NEW n \in Nat, NEW S, S \subseteq 0 .. n, S # {}
  PROVE  Max(S) \in S /\ \A y \in S : Max(S) >= y
<1> DEFINE T == {n - y : y \in S}
<1>1. T \subseteq Nat /\ T # {}
  <2>1. PICK y \in S : TRUE
    OBVIOUS
  <2>2. n - y \in T
    BY <2>1
  <2>3. \A z \in S : z \in 0 .. n /\ n - z \in Nat
    OBVIOUS
  <2> QED BY <2>2, <2>3
<1>2. PICK t \in T : \A u \in T : t <= u
  BY <1>1, LeastNatural
<1>3. n - t \in S /\ \A y \in S : n - t >= y
  BY <1>2
<1> QED BY <1>3 DEF Max

LEMMA StrippedIs == ASSUME NEW line \in Seq(Word) PROVE Stripped(line) \in Seq(Word)
<1> DEFINE ink == {i \in DOMAIN line : line[i] # "blank"}
<1>1. CASE ink = {}
  BY <1>1 DEF Stripped
<1>2. CASE ink # {}
  <2>1. ink \subseteq Nat /\ ink \subseteq 0 .. Len(line) /\ ink \subseteq 1 .. Len(line) /\ Len(line) \in Nat
    OBVIOUS
  <2>2. Min(ink) \in 1 .. Len(line) /\ Max(ink) \in 1 .. Len(line)
    BY <1>2, <2>1, LeastIs, GreatestIs
  <2>3. ASSUME NEW a \in 1 .. Len(line), NEW b \in 1 .. Len(line)
        PROVE  SubSeq(line, a, b) \in Seq(Word)
    OBVIOUS
  <2> QED BY <1>2, <2>2, <2>3 DEF Stripped
<1> QED BY <1>1, <1>2

LEMMA JoinedIs ==
  ASSUME NEW a, a.done \in Seq(Word), a.line \in Seq(Word) PROVE Joined(a) \in Seq(Word)
<1>1. Stripped(a.line) \in Seq(Word)
  BY StrippedIs
<1> QED BY <1>1, Letters DEF Joined, JoinedBy

Lined == [done : Seq(Word), line : Seq(Word)]
LEMMA LineByIs == ASSUME NEW a \in Lined, NEW c \in Word PROVE LineBy(a, c) \in Lined
<1>1. Joined(a) \in Seq(Word)
  BY JoinedIs DEF Lined
<1> DEFINE more == Append(a.line, c)
<1>2. more \in Seq(Word)
  BY DEF Lined
<1>3. [a EXCEPT !.line = more] \in Lined
  <2> HIDE DEF more
  <2> QED BY <1>2 DEF Lined
<1> QED BY <1>1, <1>3 DEF LineBy, Lined

LEMMA TrimmedIs == ASSUME NEW text \in Seq(Word) PROVE Trimmed(text) \in Seq(Word)
<1>1. Unread \in Lined
  BY DEF Unread, Lined
<1>2. \A q \in Lined : \A k \in 1 .. Len(text) : LineBy(q, text[k]) \in Lined
  BY LineByIs
<1>3. PICK at \in [0 .. Len(text) -> Lined] : Trimmed(text) = Joined(at[Len(text)])
  BY <1>1, <1>2, TrimmedGoes
<1>4. at[Len(text)] \in Lined
  BY <1>3
<1> QED BY <1>3, <1>4, JoinedIs DEF Lined

LEMMA TrimmedPreIs == ASSUME NEW text \in Seq(Word) PROVE TrimmedPre(text) \in Seq(Word)
BY DEF TrimmedPre

LEMMA EventTextIs ==
  ASSUME NEW text \in Seq(Word), NEW pre PROVE EventText(text, pre) \in Seq(Word)
BY BackslashedIs, ExpandedIs, TrimmedIs, TrimmedPreIs DEF EventText

LEMMA GlyphCountIs == ASSUME NEW text \in Seq(Word) PROVE GlyphCount(text) \in Int
<1> DEFINE S == [in : Int, n : Int]
<1>1. [in |-> 0, n |-> 0] \in S
  OBVIOUS
<1>2. ASSUME NEW q \in S, NEW c \in Word PROVE GlyphBy(q, c) \in S
  <2>1. Width(c) \in Int
    BY DEF Width
  <2> QED BY <2>1 DEF GlyphBy
<1> HIDE DEF S
<1>3. \A q \in S : \A k \in 1 .. Len(text) : GlyphBy(q, text[k]) \in S
  BY <1>2
<1>4. PICK at \in [0 .. Len(text) -> S] : GlyphCount(text) = at[Len(text)].n
  BY <1>1, <1>3, GlyphCountGoes
<1> QED BY <1>4 DEF S

LEMMA SumGoes ==
  ASSUME NEW s \in Seq(Int)
  PROVE  \E at \in [0 .. Len(s) -> Int] :
           /\ at[0] = 0 /\ SumSeq(s) = at[Len(s)]
           /\ \A k \in 1 .. Len(s) : at[k] = at[k - 1] + s[k]
<1>1. SumSeqStays(Int, Int, s)
  BY DEF SumSeqStays
<1> QED BY <1>1, SumSeqGoes

LEMMA SumIs == ASSUME NEW s \in Seq(Int) PROVE SumSeq(s) \in Int
<1>1. PICK at \in [0 .. Len(s) -> Int] : at[0] = 0 /\ SumSeq(s) = at[Len(s)]
  BY SumGoes
<1>2. Len(s) \in 0 .. Len(s)
  OBVIOUS
<1> QED BY <1>1, <1>2

LEMMA FittingIs ==
  ASSUME NEW list \in Seq(Nat), NEW m PROVE Fitting(list, m) \in Seq(Nat)
<1>1. \A q \in Seq(Nat) : \A k \in 1 .. Len(list) : FitBy(q, list[k], m) \in Seq(Nat)
  BY DEF FitBy
<1>2. <<>> \in Seq(Nat)
  OBVIOUS
<1>3. FittingStays(Seq(Nat), Nat, m, list)
  BY <1>1, <1>2 DEF FittingStays
<1>4. PICK at \in [0 .. Len(list) -> Seq(Nat)] : Fitting(list, m) = at[Len(list)]
  BY <1>3, FittingGoes
<1> QED BY <1>4

-----------------------------------------------------------------------------
(* What the parser and the tables hold.                                      *)

Value == Int \cup {Garbage}
Leaf == [tag : Word, value : Word]
StyleVal ==
  [font : Word, width : Int, height : Int, metric : Word, left : Int, top : Int, margins : Word,
   bold : BOOLEAN, meta : Nat]
RegionVal == [metric : Word, w : Int, h : Int, style : Int, clip : BOOLEAN, meta : Nat]
CurveVal == [type : Word, pts : Seq(Value)]
PaletteVal == [colors : Seq(Value), meta : Nat]
BitmapVal ==
  [type : Word, w : Int, h : Int, bpp : Int, pixels : Seq(Value), palette : Int, offset : Int, meta : Nat]
RangeVal == [first : Int, last : Int, bitmap : Int]

InfoSlot == [at : {"none", "info"}, index : Int]
OwnSlot(V) == [at : {"own"}, index : Int, own : V]
StaticSlot == [at : {"static"}, index : Int]
LocalSlot == [at : {"local"}, index : Int, own : BitmapVal, freed : BOOLEAN]
MotionOf(Slot) ==
  {km \in [semantics : Word, x : Word, y : Word, periodic : BOOLEAN, curves : Seq(Slot),
           durations : Seq(Int), meta : Nat] : Len(km.curves) = Len(km.durations)}
MotionVal == MotionOf(InfoSlot \cup OwnSlot(CurveVal))
MappingVal == Seq(InfoSlot \cup OwnSlot(RangeVal))
Val(kind) ==
  CASE kind = "style" -> StyleVal [] kind = "region" -> RegionVal [] kind = "curve" -> CurveVal
    [] kind = "motion" -> MotionVal [] kind = "palette" -> PaletteVal
    [] kind = "bitmap" -> BitmapVal [] kind = "range" -> RangeVal [] OTHER -> MappingVal

EventOf ==
  [t0 : Int, t1 : Int, for : Int, text : Seq(Word), hasText : BOOLEAN, markup : BOOLEAN,
   set : [Slots -> BOOLEAN]]
PendingOf ==
  [region : InfoSlot \cup StaticSlot, style : InfoSlot \cup StaticSlot,
   secondary : InfoSlot \cup StaticSlot, palette : InfoSlot \cup OwnSlot(PaletteVal),
   bitmap : InfoSlot \cup OwnSlot(BitmapVal), mapping : InfoSlot,
   bitmaps : Seq(InfoSlot \cup LocalSlot), motions : Seq(InfoSlot \cup OwnSlot(MotionVal)),
   language : Word, direction : Word, markup : BOOLEAN, meta : Seq(Leaf)]
Phases == {"defs", "events", "event", "done", "stopped", "exited", "crashed"}
Parsers(V) ==
  [phase : Phases, wrong : BOOLEAN, v : V, npts : Int, metas : Seq(Seq(Leaf)), kstyle : StyleVal,
   kregion : RegionVal, heights : Int \X Int, timebase : Int, comments : Seq(Word),
   event : EventOf, pending : PendingOf]

LEMMA ParserHas ==
  ASSUME NEW V, NEW p \in Parsers(V)
  PROVE  /\ p.phase \in Phases /\ p.wrong \in BOOLEAN /\ p.v \in V /\ p.npts \in Int
         /\ p.metas \in Seq(Seq(Leaf)) /\ Len(p.metas) \in Nat
         /\ p.kstyle \in StyleVal /\ p.kregion \in RegionVal /\ p.heights \in Int \X Int
         /\ p.timebase \in Int /\ p.comments \in Seq(Word)
         /\ p.event \in EventOf /\ p.pending \in PendingOf
BY DEF Parsers

(* A parser that went on from another: errors stay, lists of metadata too,   *)
(* and it is stopped only with an error.                                     *)
Moves(p, q) ==
  /\ p.wrong => q.wrong
  /\ Len(p.metas) <= Len(q.metas)
  /\ q.phase = p.phase \/ (q.wrong /\ q.phase # "defs")
(* It read some of an item.                                                  *)
Reads(p, q) ==
  /\ Moves(p, q)
  /\ q.kstyle = p.kstyle /\ q.kregion = p.kregion /\ q.heights = p.heights
  /\ q.timebase = p.timebase /\ q.comments = p.comments
  /\ q.event = p.event /\ q.pending = p.pending

LEMMA ReadsOn ==
  ASSUME NEW p, NEW q, NEW r, Reads(p, q), Reads(q, r),
         Len(p.metas) \in Nat, Len(q.metas) \in Nat, Len(r.metas) \in Nat
  PROVE  Reads(p, r)
BY DEF Reads, Moves

(* A value, or an error, is put in the parser.                               *)
LEMMA ErrIs ==
  ASSUME NEW V, NEW p \in Parsers(V)
  PROVE  /\ Err(p) \in Parsers(V) /\ Reads(p, Err(p)) /\ Err(p).wrong
         /\ Err(p).v = p.v /\ Err(p).metas = p.metas /\ Err(p).npts = p.npts /\ Err(p).phase = p.phase
<1>1. Err(p) \in Parsers(V) /\ Err(p).wrong
  BY DEF Err, Parsers
<1>2. /\ Err(p).v = p.v /\ Err(p).metas = p.metas /\ Err(p).npts = p.npts /\ Err(p).phase = p.phase
      /\ Err(p).kstyle = p.kstyle /\ Err(p).kregion = p.kregion /\ Err(p).heights = p.heights
      /\ Err(p).timebase = p.timebase /\ Err(p).comments = p.comments
      /\ Err(p).event = p.event /\ Err(p).pending = p.pending
  BY DEF Err, Parsers
<1>3. Len(p.metas) \in Nat
  BY DEF Parsers
<1> QED BY <1>1, <1>2, <1>3 DEF Reads, Moves

LEMMA ReadsItself == ASSUME NEW V, NEW p \in Parsers(V) PROVE Reads(p, p)
<1>1. Len(p.metas) \in Nat
  BY DEF Parsers
<1> QED BY <1>1 DEF Reads, Moves

LEMMA ErrIfIs ==
  ASSUME NEW V, NEW p \in Parsers(V), NEW c
  PROVE  /\ ErrIf(c, p) \in Parsers(V) /\ Reads(p, ErrIf(c, p))
         /\ ~ErrIf(c, p).wrong => ~c /\ ~p.wrong
         /\ ErrIf(c, p).v = p.v /\ ErrIf(c, p).metas = p.metas /\ ErrIf(c, p).npts = p.npts
         /\ ErrIf(c, p).phase = p.phase
<1>1. CASE c
  <2>1. ErrIf(c, p) = Err(p)
    BY <1>1 DEF ErrIf
  <2> QED BY <2>1, ErrIs
<1>2. CASE ~c
  <2>1. ErrIf(c, p) = p
    BY <1>2 DEF ErrIf
  <2> QED BY <1>2, <2>1, ReadsItself
<1> QED BY <1>1, <1>2

LEMMA ValueIs ==
  ASSUME NEW V, NEW W, NEW p \in Parsers(V), NEW w \in W
  PROVE  LET q == [p EXCEPT !.v = w]
         IN /\ q \in Parsers(W) /\ Reads(p, q) /\ q.v = w /\ q.metas = p.metas /\ q.npts = p.npts
            /\ q.wrong = p.wrong /\ q.phase = p.phase
<1> DEFINE q == [p EXCEPT !.v = w]
<1>1. q \in Parsers(W)
  BY DEF Parsers
<1>2. /\ q.v = w /\ q.metas = p.metas /\ q.npts = p.npts /\ q.phase = p.phase /\ q.wrong = p.wrong
      /\ q.kstyle = p.kstyle /\ q.kregion = p.kregion /\ q.heights = p.heights
      /\ q.timebase = p.timebase /\ q.comments = p.comments
      /\ q.event = p.event /\ q.pending = p.pending
  BY DEF Parsers
<1>3. Len(p.metas) \in Nat
  BY DEF Parsers
<1> HIDE DEF q
<1>4. Reads(p, q)
  BY <1>2, <1>3 DEF Reads, Moves
<1> QED BY <1>1, <1>2, <1>4 DEF q

Put(c, p, w) == [ErrIf(c, p) EXCEPT !.v = w]
LEMMA PutIs ==
  ASSUME NEW V, NEW W, NEW p \in Parsers(V), NEW w \in W, NEW c
  PROVE  /\ Put(c, p, w) \in Parsers(W) /\ Reads(p, Put(c, p, w))
         /\ Put(c, p, w).v = w /\ Put(c, p, w).metas = p.metas /\ Put(c, p, w).npts = p.npts
         /\ ~Put(c, p, w).wrong => ~c /\ ~p.wrong
         /\ Put(c, p, w).phase = p.phase
<1> DEFINE e == ErrIf(c, p)
           q == [e EXCEPT !.v = w]
<1>1. /\ e \in Parsers(V) /\ Reads(p, e) /\ (~e.wrong => ~c /\ ~p.wrong)
      /\ e.metas = p.metas /\ e.npts = p.npts /\ e.phase = p.phase
  BY ErrIfIs
<1> HIDE DEF e
<1>2. /\ q \in Parsers(W) /\ Reads(e, q) /\ q.v = w /\ q.metas = e.metas /\ q.npts = e.npts
      /\ q.wrong = e.wrong /\ q.phase = e.phase
  BY <1>1, ValueIs
<1> HIDE DEF q
<1>3. Reads(p, q)
  <2>1. Len(p.metas) \in Nat
    BY DEF Parsers
  <2> QED BY <1>1, <1>2, <2>1, ReadsOn
<1>4. /\ q \in Parsers(W) /\ Reads(p, q) /\ q.v = w /\ q.metas = p.metas /\ q.npts = p.npts
      /\ (~q.wrong => ~c /\ ~p.wrong) /\ q.phase = p.phase
  BY <1>1, <1>2, <1>3
<1> QED BY <1>4 DEF q, e, Put

LEMMA EndedIs ==
  ASSUME NEW V, NEW p \in Parsers(V), NEW phase \in {"stopped", "exited"}
  PROVE  /\ Ended(p, phase) \in Parsers(V) /\ Reads(p, Ended(p, phase)) /\ Ended(p, phase).wrong
         /\ Ended(p, phase).v = p.v /\ Ended(p, phase).metas = p.metas
<1> DEFINE e == Err(p)
           q == [e EXCEPT !.phase = phase]
<1>1. e \in Parsers(V) /\ Reads(p, e) /\ e.wrong /\ e.v = p.v /\ e.metas = p.metas
  BY ErrIs
<1> HIDE DEF e
<1>2. phase \in Phases
  BY DEF Phases
<1>3. q \in Parsers(V) /\ q.wrong /\ q.v = e.v /\ q.metas = e.metas
  BY <1>1, <1>2 DEF Parsers
<1>4. Reads(e, q)
  <2>1. Len(e.metas) \in Nat
    BY <1>1 DEF Parsers
  <2> QED BY <1>1, <2>1 DEF Parsers, Reads, Moves
<1> HIDE DEF q
<1>5. Reads(p, q)
  <2>1. Len(p.metas) \in Nat
    BY DEF Parsers
  <2> QED BY <1>1, <1>3, <1>4, <2>1, ReadsOn
<1> QED BY <1>1, <1>3, <1>5 DEF q, e, Ended

LEMMA CrashedIs ==
  ASSUME NEW V, NEW p \in Parsers(V), p.wrong
  PROVE  /\ Crashed(p) \in Parsers(V) /\ Reads(p, Crashed(p)) /\ Crashed(p).wrong
         /\ Crashed(p).v = p.v /\ Crashed(p).metas = p.metas
<1>1. "crashed" \in Phases /\ Len(p.metas) \in Nat
  BY DEF Phases, Parsers
<1>2. Crashed(p) \in Parsers(V) /\ Crashed(p).wrong /\ Crashed(p).v = p.v /\ Crashed(p).metas = p.metas
  BY <1>1 DEF Parsers, Crashed
<1>3. Reads(p, Crashed(p))
  BY <1>1 DEF Parsers, Crashed, Reads, Moves
<1> QED BY <1>2, <1>3

LEMMA ReadsBoth ==
  ASSUME NEW U, NEW V, NEW W, NEW p \in Parsers(U), NEW q \in Parsers(V), NEW r \in Parsers(W),
         Reads(p, q), Reads(q, r)
  PROVE  Reads(p, r)
<1>1. Len(p.metas) \in Nat /\ Len(q.metas) \in Nat /\ Len(r.metas) \in Nat
  BY DEF Parsers
<1> QED BY <1>1, ReadsOn

-----------------------------------------------------------------------------
(* The tables, and what refers to them.                                      *)

LEMMA KindsAre ==
  AllKinds = {"style", "region", "curve", "motion", "palette", "bitmap", "range", "mapping"}
<1>1. DOMAIN Kinds = {1, 2, 3, 4, 5, 6, 7, 8}
  BY DEF Kinds
<1> QED BY <1>1 DEF AllKinds, Range, Kinds

InTable(kind, i) == i \in 0 .. Len(info[kind]) - 1
Within(kind, v) ==
  /\ kind = "region" /\ v.style >= 0 => InTable("style", v.style)
  /\ kind = "bitmap" /\ v.palette >= 0 => InTable("palette", v.palette)
  /\ kind = "motion" => \A i \in DOMAIN v.curves :
                          v.curves[i].at = "info" => InTable("curve", v.curves[i].index)
  /\ kind = "range" => v.first <= v.last
  /\ kind = "mapping" => \A i \in DOMAIN v : IF v[i].at = "own" THEN v[i].own.first <= v[i].own.last
                                             ELSE v[i].at = "info" => InTable("range", v[i].index)
(* No value of an item was left unset.                                       *)
Full(kind, v) == Garbage \notin Values(kind, v)

Tables ==
  \A k \in AllKinds : /\ info[k] \in Seq(Val(k)) /\ names[k] \in Seq(Word)
                      /\ Len(names[k]) = Len(info[k])

LEMMA FoundIs ==
  ASSUME Tables, NEW kind \in AllKinds, NEW r \in Reference
  PROVE  /\ Found(kind, r) \in Int
         /\ ~Missing(kind, r) => InTable(kind, Found(kind, r))
         /\ OutOf(kind, r) => Missing(kind, r)
         /\ r # NoRef /\ ~OutOf(kind, r) => InTable(kind, Found(kind, r))
<1> DEFINE n == Len(info[kind])
           found == {i \in 0 .. Len(names[kind]) - 1 : names[kind][i + 1] = r.name}
           first == FirstNamed(kind, r.name, names)
<1>1. n \in Nat /\ Len(names[kind]) = n
  BY DEF Tables
<1>2. first \in -1 .. n - 1 /\ first \in Int
  <2>1. CASE found = {}
    BY <1>1, <2>1 DEF FirstNamed
  <2>2. CASE found # {}
    <3>1. found \subseteq Nat /\ found \subseteq 0 .. n - 1
      BY <1>1
    <3>2. first = Min(found)
      BY <2>2 DEF FirstNamed
    <3> HIDE DEF found, first
    <3>3. Min(found) \in found
      BY <2>2, <3>1, LeastIs
    <3>4. first \in found
      BY <3>2, <3>3
    <3> HIDE DEF n
    <3>5. first \in 0 .. n - 1
      BY <3>1, <3>4
    <3> QED BY <1>1, <3>5
  <2> QED BY <2>1, <2>2
<1>3. r.index \in Nat \cup {-1} /\ r = [name |-> r.name, index |-> r.index]
  BY DEF Reference
<1>4. r # NoRef => r.name # NoName \/ r.index \in Nat
  BY <1>3 DEF NoRef
<1> HIDE DEF n, found, first
<1>5. Len(info[kind]) = n
  BY DEF n
<1>6. Lookup(kind, r) = IF r.name = NoName THEN r.index ELSE first
  BY DEF Lookup, first
<1> QED BY <1>1, <1>2, <1>3, <1>4, <1>5, <1>6 DEF Found, Missing, OutOf, InTable

-----------------------------------------------------------------------------
(* The settings of an item, one at a time.                                   *)

ReadingOf(kind, p0, ok) ==
  {q \in Parsers(Val(kind)) :
     /\ Reads(p0, q)
     /\ HasMeta(kind) => q.v.meta <= Len(q.metas)
     /\ ~q.wrong /\ kind # "range" => Within(kind, q.v)
     /\ ~q.wrong /\ ok => Full(kind, q.v)}

(* A setting that puts a value in the parser, unless it told an error.       *)
Puts(kind, p, r) ==
  \E c : \E w \in Val(kind) :
    /\ r = Put(c, p, w)
    /\ HasMeta(kind) => w.meta = p.v.meta
    /\ ~c /\ kind # "range" /\ Within(kind, p.v) => Within(kind, w)
    /\ ~c /\ Full(kind, p.v) => Full(kind, w)

LEMMA PutsReads ==
  ASSUME NEW kind, NEW U, NEW p0 \in Parsers(U), NEW ok \in BOOLEAN,
         NEW p \in ReadingOf(kind, p0, ok), NEW r, Puts(kind, p, r)
  PROVE  r \in ReadingOf(kind, p0, ok)
<1>1. PICK c : \E w \in Val(kind) :
        /\ r = Put(c, p, w)
        /\ HasMeta(kind) => w.meta = p.v.meta
        /\ ~c /\ kind # "range" /\ Within(kind, p.v) => Within(kind, w)
        /\ ~c /\ Full(kind, p.v) => Full(kind, w)
  BY DEF Puts
<1>2. PICK w \in Val(kind) :
        /\ r = Put(c, p, w)
        /\ HasMeta(kind) => w.meta = p.v.meta
        /\ ~c /\ kind # "range" /\ Within(kind, p.v) => Within(kind, w)
        /\ ~c /\ Full(kind, p.v) => Full(kind, w)
  BY <1>1
<1>3. p \in Parsers(Val(kind))
  BY DEF ReadingOf
<1>4. /\ r \in Parsers(Val(kind)) /\ Reads(p, r) /\ r.v = w /\ r.metas = p.metas
      /\ ~r.wrong => ~c /\ ~p.wrong
  BY <1>2, <1>3, PutIs
<1>5. /\ Reads(p0, p) /\ (HasMeta(kind) => p.v.meta <= Len(p.metas))
      /\ ~p.wrong /\ kind # "range" => Within(kind, p.v)
      /\ ~p.wrong /\ ok => Full(kind, p.v)
  BY DEF ReadingOf
<1>6. Reads(p0, r)
  BY <1>3, <1>4, <1>5, ReadsBoth
<1> QED BY <1>2, <1>4, <1>5, <1>6 DEF ReadingOf

(* Or it told one, and put nothing.                                          *)
LEMMA WrongReads ==
  ASSUME NEW kind, NEW U, NEW p0 \in Parsers(U), NEW ok \in BOOLEAN,
         NEW p \in ReadingOf(kind, p0, ok), NEW r \in Parsers(Val(kind)),
         Reads(p, r), r.wrong, r.v = p.v, r.metas = p.metas
  PROVE  r \in ReadingOf(kind, p0, ok)
<1>1. p \in Parsers(Val(kind)) /\ Reads(p0, p) /\ (HasMeta(kind) => p.v.meta <= Len(p.metas))
  BY DEF ReadingOf
<1>2. Reads(p0, r)
  BY <1>1, ReadsBoth
<1> QED BY <1>1, <1>2 DEF ReadingOf

LEMMA ErrReads ==
  ASSUME NEW kind, NEW U, NEW p0 \in Parsers(U), NEW ok \in BOOLEAN, NEW p \in ReadingOf(kind, p0, ok)
  PROVE  /\ Err(p) \in ReadingOf(kind, p0, ok)
         /\ Ended(p, "exited") \in ReadingOf(kind, p0, ok)
<1>1. p \in Parsers(Val(kind))
  BY DEF ReadingOf
<1> QED BY <1>1, ErrIs, EndedIs, WrongReads

LEMMA StoredLeafIs ==
  ASSUME NEW l \in [tag : STRING, value : STRING] PROVE StoredLeaf(l) \in Leaf
BY Strings, Words0 DEF StoredLeaf, Leaf

Listed(p, metas, w) == [p EXCEPT !.metas = metas, !.v = w]
LEMMA ListedIs ==
  ASSUME NEW V, NEW W, NEW p \in Parsers(V), NEW w \in W, NEW metas \in Seq(Seq(Leaf)),
         Len(p.metas) <= Len(metas)
  PROVE  /\ Listed(p, metas, w) \in Parsers(W) /\ Reads(p, Listed(p, metas, w))
         /\ Listed(p, metas, w).v = w /\ Listed(p, metas, w).metas = metas
         /\ Listed(p, metas, w).wrong = p.wrong
<1> DEFINE q == [p EXCEPT !.metas = metas, !.v = w]
<1>1. q \in Parsers(W) /\ q.v = w /\ q.metas = metas /\ q.wrong = p.wrong
  BY DEF Parsers
<1>2. /\ q.phase = p.phase /\ q.kstyle = p.kstyle /\ q.kregion = p.kregion /\ q.heights = p.heights
      /\ q.timebase = p.timebase /\ q.comments = p.comments
      /\ q.event = p.event /\ q.pending = p.pending
  BY DEF Parsers
<1>3. Listed(p, metas, w) = q
  BY DEF Listed
<1> HIDE DEF q
<1>4. Reads(p, q)
  BY <1>1, <1>2 DEF Reads, Moves
<1> QED BY <1>1, <1>3, <1>4

LEMMA OneSetIs ==
  ASSUME NEW S, NEW s \in Seq(S), NEW i \in 1 .. Len(s), NEW e \in S
  PROVE  [s EXCEPT ![i] = e] \in Seq(S) /\ Len([s EXCEPT ![i] = e]) = Len(s)
OBVIOUS

LEMMA MetaPut ==
  ASSUME NEW kind \in {"style", "region", "bitmap"}, NEW v \in Val(kind), NEW m \in Nat
  PROVE  [v EXCEPT !.meta = m] \in Val(kind) /\ [v EXCEPT !.meta = m].meta = m
<1>1. CASE kind = "style"
  BY <1>1 DEF Val, StyleVal
<1>2. CASE kind = "region"
  BY <1>2 DEF Val, RegionVal
<1>3. CASE kind = "bitmap"
  BY <1>3 DEF Val, BitmapVal
<1> QED BY <1>1, <1>2, <1>3

LEMMA AddMetaIs ==
  ASSUME NEW kind \in {"style", "region", "bitmap"}, NEW U, NEW p0 \in Parsers(U), NEW ok \in BOOLEAN,
         NEW p \in ReadingOf(kind, p0, ok), NEW l \in [tag : STRING, value : STRING]
  PROVE  AddMeta(p, l) \in ReadingOf(kind, p0, ok)
<1> DEFINE q == ErrIf(l.value = "long", p)
           leaf == StoredLeaf(l)
           new == [q EXCEPT !.metas = Append(@, <<leaf>>), !.v.meta = Len(p.metas) + 1]
           more == [q EXCEPT !.metas[p.v.meta] = Append(@, leaf)]
<1>1. /\ p \in Parsers(Val(kind)) /\ Reads(p0, p)
      /\ ~p.wrong => Within(kind, p.v)
      /\ ~p.wrong /\ ok => Full(kind, p.v)
  BY DEF ReadingOf
<1>0. p.v \in Val(kind) /\ p.metas \in Seq(Seq(Leaf)) /\ Len(p.metas) \in Nat
  BY <1>1, ParserHas
<1>2. p.v.meta <= Len(p.metas) /\ p.v.meta \in Nat
  BY <1>0 DEF ReadingOf, HasMeta, Val, StyleVal, RegionVal, BitmapVal
<1>3. leaf \in Leaf
  BY StoredLeafIs
<1>4. /\ q \in Parsers(Val(kind)) /\ Reads(p, q) /\ (~q.wrong => ~p.wrong)
      /\ q.v = p.v /\ q.metas = p.metas
  BY <1>1, ErrIfIs
<1>5. AddMeta(p, l) = IF l.tag = "bad" THEN Ended(p, "exited") ELSE IF p.v.meta = 0 THEN new ELSE more
  BY DEF AddMeta
<1>6. AddMeta(p, l) = Ended(p, "exited") \/ AddMeta(p, l) = new \/ (p.v.meta # 0 /\ AddMeta(p, l) = more)
  <2> HIDE DEF q, leaf, new, more
  <2> QED BY <1>5
<1> HIDE DEF q, leaf
<1>7. CASE AddMeta(p, l) = new
  <2> DEFINE metas == Append(p.metas, <<leaf>>)
             v == [p.v EXCEPT !.meta = Len(p.metas) + 1]
             r == Listed(q, metas, v)
  <2>1. metas \in Seq(Seq(Leaf)) /\ Len(metas) = Len(p.metas) + 1
    BY <1>0, <1>3
  <2>2. v \in Val(kind) /\ v.meta = Len(p.metas) + 1
    <3>1. Len(p.metas) + 1 \in Nat
      BY <1>0
    <3> QED BY <1>0, <3>1, MetaPut
  <2>3. Within(kind, v) = Within(kind, p.v) /\ Full(kind, v) = Full(kind, p.v)
    BY <1>0 DEF Val, StyleVal, RegionVal, BitmapVal, Within, Full, Values
  <2>4. new = r
    BY <1>4 DEF Parsers, Listed
  <2> HIDE DEF metas, v, new
  <2>5. r \in Parsers(Val(kind)) /\ r.v = v /\ r.metas = metas /\ r.wrong = q.wrong /\ Reads(q, r)
    <3>1. Len(q.metas) <= Len(metas)
      BY <1>0, <1>4, <2>1
    <3> QED BY <1>4, <2>1, <2>2, <3>1, ListedIs
  <2> HIDE DEF r
  <2>6. Reads(p0, r)
    BY <1>1, <1>4, <2>5, ReadsBoth
  <2> QED BY <1>1, <1>4, <1>7, <2>1, <2>2, <2>3, <2>4, <2>5, <2>6 DEF ReadingOf
<1>8. CASE p.v.meta # 0 /\ AddMeta(p, l) = more
  <2> DEFINE e == Append(p.metas[p.v.meta], leaf)
             metas == [p.metas EXCEPT ![p.v.meta] = e]
             r == Listed(q, metas, p.v)
  <2>1. metas \in Seq(Seq(Leaf)) /\ Len(metas) = Len(p.metas)
    <3>1. p.v.meta \in 1 .. Len(p.metas)
      BY <1>0, <1>2, <1>8
    <3>2. e \in Seq(Leaf)
      BY <1>0, <1>3, <3>1
    <3> HIDE DEF e
    <3> QED BY <1>0, <3>1, <3>2, OneSetIs
  <2>2. more = r
    <3>1. q.v = p.v /\ q.metas = p.metas
      BY <1>4
    <3> QED BY <1>4, <3>1 DEF Parsers, Listed
  <2> HIDE DEF metas, more
  <2>3. r \in Parsers(Val(kind)) /\ r.v = p.v /\ r.metas = metas /\ r.wrong = q.wrong /\ Reads(q, r)
    <3>1. Len(q.metas) <= Len(metas)
      BY <1>0, <1>4, <2>1
    <3> QED BY <1>0, <1>4, <2>1, <3>1, ListedIs
  <2> HIDE DEF r
  <2>4. Reads(p0, r)
    BY <1>1, <1>4, <2>3, ReadsBoth
  <2> QED BY <1>0, <1>1, <1>2, <1>4, <1>8, <2>1, <2>2, <2>3, <2>4 DEF ReadingOf
<1> HIDE DEF new, more
<1>9. Ended(p, "exited") \in ReadingOf(kind, p0, ok)
  BY ErrReads
<1> QED BY <1>6, <1>7, <1>8, <1>9

LEMMA ValsAre ==
  /\ Val("style") = StyleVal /\ Val("region") = RegionVal /\ Val("curve") = CurveVal
  /\ Val("motion") = MotionVal /\ Val("palette") = PaletteVal /\ Val("bitmap") = BitmapVal
  /\ Val("range") = RangeVal /\ Val("mapping") = MappingVal
BY DEF Val

LEMMA ErrIfHas == ASSUME NEW V, NEW p \in Parsers(V) PROVE \A c : ErrIf(c, p).v = p.v
BY ErrIfIs

LEMMA StylePuts ==
  ASSUME NEW p, NEW r, NEW c, NEW w \in StyleVal, w.meta = p.v.meta, r = Put(c, p, w)
  PROVE  Puts("style", p, r)
<1>1. Within("style", w) /\ Full("style", w) /\ w \in Val("style")
  BY ValsAre DEF Within, Full, Values
<1> QED BY <1>1 DEF Puts

LEMMA StyleSetIs ==
  ASSUME NEW p \in Parsers(StyleVal), NEW s \in StyleForm, s.set # "meta"
  PROVE  Puts("style", p, StyleSet(p, s)) \/ StyleSet(p, s) = Err(p)
<1>1. p.v \in StyleVal /\ \A c : ErrIf(c, p).v = p.v
  BY ParserHas, ErrIfHas
<1>2. CASE s.set = "font"
  <2> DEFINE w == [p.v EXCEPT !.font = s.name]
             c == p.v.font # NoName
  <2>1. s.name \in Word
    BY <1>2, Strings DEF StyleForm, MetaForm
  <2>2. w \in StyleVal /\ w.meta = p.v.meta
    BY <1>1, <2>1 DEF StyleVal
  <2>3. StyleSet(p, s) = Put(c, p, w)
    BY <1>1, <1>2 DEF StyleSet, FontSet, Put
  <2> HIDE DEF w, c
  <2> QED BY <2>2, <2>3, StylePuts
<1>3. CASE s.set \in {"width", "height", "size"}
  <2>1. s.n \in Int /\ s.metric \in Word
    BY <1>3, Strings DEF StyleForm, MetaForm
  <2>2. CASE s.set = "width"
    <3> DEFINE w == [p.v EXCEPT !.width = s.n, !.metric = s.metric]
               c == p.v["width"] >= 0 \/ (p.v["height"] >= 0 /\ p.v.metric # s.metric)
    <3>1. w \in StyleVal /\ w.meta = p.v.meta
      BY <1>1, <2>1 DEF StyleVal
    <3>2. StyleSet(p, s) = Put(c, p, w)
      BY <1>1, <2>2 DEF StyleSet, FontSet, Put
    <3> HIDE DEF w, c
    <3> QED BY <3>1, <3>2, StylePuts
  <2>3. CASE s.set = "height"
    <3> DEFINE w == [p.v EXCEPT !.height = s.n, !.metric = s.metric]
               c == p.v["height"] >= 0 \/ (p.v["width"] >= 0 /\ p.v.metric # s.metric)
    <3>1. w \in StyleVal /\ w.meta = p.v.meta
      BY <1>1, <2>1 DEF StyleVal
    <3>2. StyleSet(p, s) = Put(c, p, w)
      BY <1>1, <2>3 DEF StyleSet, FontSet, Put
    <3> HIDE DEF w, c
    <3> QED BY <3>1, <3>2, StylePuts
  <2>4. CASE s.set = "size"
    <3> DEFINE w == [p.v EXCEPT !.width = s.n, !.height = s.n, !.metric = s.metric]
               c == p.v.height >= 0 \/ p.v.width >= 0
    <3>1. w \in StyleVal /\ w.meta = p.v.meta
      BY <1>1, <2>1 DEF StyleVal
    <3>2. StyleSet(p, s) = Put(c, p, w)
      BY <1>1, <2>4 DEF StyleSet, FontSet, Put
    <3> HIDE DEF w, c
    <3> QED BY <3>1, <3>2, StylePuts
  <2> QED BY <1>3, <2>2, <2>3, <2>4
<1>4. CASE s.set \in {"left", "top", "margins"}
  <2>0. p = ErrIf(FALSE, p)
    BY DEF ErrIf
  <2>1. CASE s.set = "margins"
    <3> DEFINE w == [p.v EXCEPT !.left = s.list[1], !.top = s.list[2], !.margins = s.metric]
    <3>1. s.list \in Int \X Int /\ s.metric \in Word
      BY <2>1, Strings DEF StyleForm, MetaForm
    <3>2. w \in StyleVal /\ w.meta = p.v.meta
      BY <1>1, <3>1 DEF StyleVal
    <3>3. StyleSet(p, s) = Err(p) \/ StyleSet(p, s) = Put(FALSE, p, w)
      BY <1>1, <2>0, <2>1 DEF StyleSet, MarginSet, Put
    <3> HIDE DEF w
    <3> QED BY <3>2, <3>3, StylePuts
  <2>2. CASE s.set = "left"
    <3> DEFINE w == [p.v EXCEPT !.left = s.n, !.margins = s.metric]
    <3>1. s.n \in Int /\ s.metric \in Word
      BY <2>2, Strings DEF StyleForm, MetaForm
    <3>2. w \in StyleVal /\ w.meta = p.v.meta
      BY <1>1, <3>1 DEF StyleVal
    <3>3. StyleSet(p, s) = Err(p) \/ StyleSet(p, s) = Put(FALSE, p, w)
      BY <1>1, <2>0, <2>2 DEF StyleSet, MarginSet, Put
    <3> HIDE DEF w
    <3> QED BY <3>2, <3>3, StylePuts
  <2>3. CASE s.set = "top"
    <3> DEFINE w == [p.v EXCEPT !.top = s.n, !.margins = s.metric]
    <3>1. s.n \in Int /\ s.metric \in Word
      BY <2>3, Strings DEF StyleForm, MetaForm
    <3>2. w \in StyleVal /\ w.meta = p.v.meta
      BY <1>1, <3>1 DEF StyleVal
    <3>3. StyleSet(p, s) = Err(p) \/ StyleSet(p, s) = Put(FALSE, p, w)
      BY <1>1, <2>0, <2>3 DEF StyleSet, MarginSet, Put
    <3> HIDE DEF w
    <3> QED BY <3>2, <3>3, StylePuts
  <2> QED BY <1>4, <2>1, <2>2, <2>3
<1>5. CASE s.set = "bold"
  <2> DEFINE w == [p.v EXCEPT !.bold = TRUE]
  <2>0. p = ErrIf(FALSE, p)
    BY DEF ErrIf
  <2>1. w \in StyleVal /\ w.meta = p.v.meta
    BY <1>1 DEF StyleVal
  <2>2. StyleSet(p, s) = Put(FALSE, p, w)
    BY <1>1, <1>5, <2>0 DEF StyleSet, Put
  <2> HIDE DEF w
  <2> QED BY <2>1, <2>2, StylePuts
<1>6. s.set \in {"font", "width", "height", "size", "left", "top", "margins", "bold"}
  BY DEF StyleForm, MetaForm
<1> QED BY <1>2, <1>3, <1>4, <1>5, <1>6

LEMMA RegionPuts ==
  ASSUME NEW p, NEW r, NEW c, NEW w \in RegionVal, w.meta = p.v.meta, r = Put(c, p, w),
         w.style = p.v.style \/ (~c => InTable("style", w.style))
  PROVE  Puts("region", p, r)
<1>1. Full("region", w) /\ w \in Val("region")
  BY ValsAre DEF Full, Values
<1>2. ~c /\ Within("region", p.v) => Within("region", w)
  BY DEF Within
<1> QED BY <1>1, <1>2 DEF Puts

LEMMA RegionSetIs ==
  ASSUME Tables, NEW p \in Parsers(RegionVal), NEW s \in RegionForm, s.set # "meta"
  PROVE  Puts("region", p, RegionSet(p, s))
<1>1. p.v \in RegionVal /\ (\A c : ErrIf(c, p).v = p.v) /\ p = ErrIf(FALSE, p)
  BY ParserHas, ErrIfHas DEF ErrIf
<1>2. CASE s.set = "area"
  <2> DEFINE w == [p.v EXCEPT !.w = s.list[1], !.h = s.list[2], !.metric = s.metric]
  <2>1. s.list \in Int \X Int /\ s.metric \in Word
    BY <1>2, Strings DEF RegionForm, MetaForm
  <2>2. w \in RegionVal /\ w.meta = p.v.meta /\ w.style = p.v.style
    BY <1>1, <2>1 DEF RegionVal
  <2>3. RegionSet(p, s) = Put(FALSE, p, w)
    BY <1>1, <1>2 DEF RegionSet, Put
  <2> HIDE DEF w
  <2> QED BY <2>2, <2>3, RegionPuts
<1>3. CASE s.set = "clip"
  <2> DEFINE w == [p.v EXCEPT !.clip = TRUE]
  <2>1. w \in RegionVal /\ w.meta = p.v.meta /\ w.style = p.v.style
    BY <1>1 DEF RegionVal
  <2>2. RegionSet(p, s) = Put(FALSE, p, w)
    BY <1>1, <1>3 DEF RegionSet, Put
  <2> HIDE DEF w
  <2> QED BY <2>1, <2>2, RegionPuts
<1>4. CASE s.set = "style"
  <2> DEFINE i == Found("style", s.ref)
             c == Missing("style", s.ref)
             w == [p.v EXCEPT !.style = i]
  <2>1. s.ref \in Reference
    BY <1>4 DEF RegionForm, MetaForm
  <2>2. i \in Int /\ (~c => InTable("style", i))
    BY <2>1, FoundIs, KindsAre
  <2>3. RegionSet(p, s) = Put(c, p, w)
    BY <1>1, <1>4 DEF RegionSet, Put
  <2> HIDE DEF i, c
  <2>4. w \in RegionVal /\ w.meta = p.v.meta /\ w.style = i
    BY <1>1, <2>2 DEF RegionVal
  <2> HIDE DEF w
  <2> QED BY <2>2, <2>3, <2>4, RegionPuts
<1>5. s.set \in {"area", "clip", "style"}
  BY DEF RegionForm, MetaForm
<1> QED BY <1>2, <1>3, <1>4, <1>5

LEMMA Unset == Garbage \notin Int
BY DescriptionsAssumption

LEMMA GivenAre ==
  ASSUME NEW list \in Seq(Int), NEW n \in Nat
  PROVE  LET g == [i \in 1 .. n |-> IF i <= Len(list) THEN list[i] ELSE Garbage]
         IN g \in Seq(Value) /\ (n <= Len(list) => Garbage \notin Range(g))
<1> DEFINE g == [i \in 1 .. n |-> IF i <= Len(list) THEN list[i] ELSE Garbage]
<1>1. \A i \in 1 .. n : g[i] \in Value /\ (n <= Len(list) => g[i] \in Int)
  BY DEF Value
<1>2. g \in Seq(Value)
  BY <1>1
<1>3. n <= Len(list) => Garbage \notin Range(g)
  BY <1>1, Unset DEF Range
<1> QED BY <1>2, <1>3

LEMMA PalettePuts ==
  ASSUME NEW p, NEW r, NEW c, NEW w \in PaletteVal, w.meta = p.v.meta, r = Put(c, p, w),
         ~c => Garbage \notin Range(w.colors)
  PROVE  Puts("palette", p, r)
<1>1. Within("palette", w) /\ (~c => Full("palette", w)) /\ w \in Val("palette")
  BY ValsAre DEF Within, Full, Values
<1> QED BY <1>1 DEF Puts

LEMMA PaletteSetIs ==
  ASSUME NEW p \in Parsers(PaletteVal), NEW s \in PaletteForm, s.set # "meta"
  PROVE  Puts("palette", p, PaletteSet(p, s))
<1> DEFINE g == [i \in 1 .. s.n |-> IF i <= Len(s.list) THEN s.list[i] ELSE Garbage]
           c == Len(s.list) # s.n
           w == [p.v EXCEPT !.colors = g]
<1>1. p.v \in PaletteVal /\ \A d : ErrIf(d, p).v = p.v
  BY ParserHas, ErrIfHas
<1>2. s.n \in Nat /\ s.list \in Seq(Int)
  BY DEF PaletteForm, MetaForm
<1>3. g \in Seq(Value) /\ (s.n <= Len(s.list) => Garbage \notin Range(g))
  BY <1>2, GivenAre
<1>4. ~c => s.n <= Len(s.list)
  BY <1>2
<1>5. PaletteSet(p, s) = Put(c, p, w)
  BY <1>1 DEF PaletteSet, Put
<1> HIDE DEF g, c
<1>6. w \in PaletteVal /\ w.meta = p.v.meta /\ w.colors = g
  BY <1>1, <1>3 DEF PaletteVal
<1> HIDE DEF w
<1> QED BY <1>3, <1>4, <1>5, <1>6, PalettePuts

LEMMA BitmapPuts ==
  ASSUME NEW p, NEW r, NEW c, NEW w \in BitmapVal, w.meta = p.v.meta, r = Put(c, p, w),
         w.palette = p.v.palette \/ w.palette = -1 \/ (~c => InTable("palette", w.palette)),
         w.pixels = p.v.pixels \/ (~c => Garbage \notin Range(w.pixels))
  PROVE  Puts("bitmap", p, r)
<1>1. w \in Val("bitmap")
  BY ValsAre
<1>2. ~c /\ Within("bitmap", p.v) => Within("bitmap", w)
  BY DEF Within
<1>3. ~c /\ Full("bitmap", p.v) => Full("bitmap", w)
  BY DEF Full, Values
<1> QED BY <1>1, <1>2, <1>3 DEF Puts

LEMMA NatSeqs == ASSUME NEW list \in Seq(Nat) PROVE list \in Seq(Int) /\ list \in Seq(Value) /\ Garbage \notin Range(list)
<1>1. list \in Seq(Int)
  OBVIOUS
<1>2. \A i \in DOMAIN list : list[i] \in Int
  BY <1>1
<1>3. list \in Seq(Value)
  BY <1>1 DEF Value
<1> QED BY <1>1, <1>2, <1>3, Unset DEF Range

Pictured(v, type, a, b, n, pixels) ==
  [v EXCEPT !.type = type, !.w = a, !.h = b, !.bpp = n, !.pixels = pixels]
LEMMA PicturedIs ==
  ASSUME NEW v \in BitmapVal, NEW type \in Word, NEW a \in Int, NEW b \in Int, NEW n \in Int,
         NEW pixels \in Seq(Value)
  PROVE  /\ Pictured(v, type, a, b, n, pixels) \in BitmapVal
         /\ Pictured(v, type, a, b, n, pixels).meta = v.meta
         /\ Pictured(v, type, a, b, n, pixels).palette = v.palette
         /\ Pictured(v, type, a, b, n, pixels).pixels = pixels
<1> DEFINE u == [v EXCEPT !.type = type, !.w = a, !.h = b]
           w == [u EXCEPT !.bpp = n, !.pixels = pixels]
<1>1. u \in BitmapVal /\ u.meta = v.meta /\ u.palette = v.palette
  BY DEF BitmapVal
<1>2. Pictured(v, type, a, b, n, pixels) = w
  BY DEF Pictured
<1> HIDE DEF u
<1>3. w \in BitmapVal /\ w.meta = u.meta /\ w.palette = u.palette /\ w.pixels = pixels
  BY <1>1 DEF BitmapVal
<1> QED BY <1>1, <1>2, <1>3

LEMMA BitmapSetIs ==
  ASSUME Tables, NEW p \in Parsers(BitmapVal), NEW s \in BitmapForm, s.set # "meta"
  PROVE  Puts("bitmap", p, BitmapSet(p, s))
<1>1. p.v \in BitmapVal /\ (\A d : ErrIf(d, p).v = p.v) /\ p = ErrIf(FALSE, p)
  BY ParserHas, ErrIfHas DEF ErrIf
<1>2. CASE s.set = "pixels"
  <2> DEFINE size == s.size[1] * s.size[2]
             kept == Fitting(s.list, s.n)
             c == size = 0 \/ s.n \notin 1 .. 8 \/ kept # s.list \/ Len(kept) # size
             w == Pictured(p.v, "paletted", s.size[1], s.size[2], s.n, Filled(kept, size))
  <2>1. s.n \in Nat /\ s.size \in Nat \X Nat /\ s.list \in Seq(Nat)
    BY <1>2 DEF BitmapForm, MetaForm
  <2>2. size \in Nat
    BY <2>1
  <2>3. kept \in Seq(Int)
    BY <2>1, FittingIs, NatSeqs
  <2>4. BitmapSet(p, s) = Put(c, p, w)
    BY <1>1, <1>2 DEF BitmapSet, Put, Pictured
  <2> HIDE DEF size, kept
  <2>5. Filled(kept, size) \in Seq(Value) /\ (~c => Garbage \notin Range(Filled(kept, size)))
    BY <2>2, <2>3, GivenAre DEF Filled
  <2> HIDE DEF c
  <2>6. w \in BitmapVal /\ w.meta = p.v.meta /\ w.palette = p.v.palette /\ w.pixels = Filled(kept, size)
    BY <1>1, <2>1, <2>5, Words0, PicturedIs
  <2> HIDE DEF w
  <2> QED BY <2>4, <2>5, <2>6, BitmapPuts
<1>3. CASE s.set = "png"
  <2> DEFINE c == s.size[1] * s.size[2] = 0 \/ Len(s.list) # s.n
             w == Pictured(p.v, "png", s.size[1], s.size[2], 0, Filled(s.list, s.n))
  <2>1. s.n \in Nat /\ s.size \in Nat \X Nat /\ s.list \in Seq(Nat)
    BY <1>3 DEF BitmapForm, MetaForm
  <2>2. s.list \in Seq(Int)
    BY <2>1, NatSeqs
  <2>3. BitmapSet(p, s) = Put(c, p, w)
    BY <1>1, <1>3 DEF BitmapSet, Put, Pictured
  <2>4. ~c => s.n <= Len(s.list)
    BY <2>1
  <2> HIDE DEF c
  <2>5. Filled(s.list, s.n) \in Seq(Value) /\ (~c => Garbage \notin Range(Filled(s.list, s.n)))
    BY <2>1, <2>2, <2>4, GivenAre DEF Filled
  <2>6. w \in BitmapVal /\ w.meta = p.v.meta /\ w.palette = p.v.palette /\ w.pixels = Filled(s.list, s.n)
    BY <1>1, <2>1, <2>5, Words0, PicturedIs
  <2> HIDE DEF w
  <2> QED BY <2>3, <2>5, <2>6, BitmapPuts
<1>4. CASE s.set = "source"
  <2> DEFINE u == Pictured(p.v, "png", s.size[1], s.size[2], 0, s.list)
             w == [u EXCEPT !.palette = -1]
  <2>1. s.size \in Nat \X Nat /\ s.list \in Seq(Nat)
    BY <1>4 DEF BitmapForm, MetaForm
  <2>2. s.list \in Seq(Value) /\ Garbage \notin Range(s.list)
    BY <2>1, NatSeqs
  <2>3. BitmapSet(p, s) = Put(FALSE, p, w)
    BY <1>1, <1>4 DEF BitmapSet, Put, Pictured
  <2>5. u \in BitmapVal /\ u.meta = p.v.meta /\ u.pixels = s.list
    BY <1>1, <2>1, <2>2, Words0, PicturedIs
  <2> HIDE DEF u
  <2>4. w \in BitmapVal /\ w.meta = p.v.meta /\ w.palette = -1 /\ w.pixels = s.list
    BY <2>5 DEF BitmapVal
  <2> HIDE DEF w
  <2> QED BY <2>2, <2>3, <2>4, BitmapPuts
<1>5. CASE s.set = "palette"
  <2> DEFINE i == Found("palette", s.ref)
             c == Missing("palette", s.ref)
             w == [p.v EXCEPT !.palette = i]
  <2>1. s.ref \in Reference
    BY <1>5 DEF BitmapForm, MetaForm
  <2>2. i \in Int /\ (~c => InTable("palette", i))
    BY <2>1, FoundIs, KindsAre
  <2>3. BitmapSet(p, s) = Put(c, p, w)
    BY <1>1, <1>5 DEF BitmapSet, Put
  <2> HIDE DEF i, c
  <2>4. w \in BitmapVal /\ w.meta = p.v.meta /\ w.palette = i /\ w.pixels = p.v.pixels
    BY <1>1, <2>2 DEF BitmapVal
  <2> HIDE DEF w
  <2> QED BY <2>2, <2>3, <2>4, BitmapPuts
<1>6. CASE s.set = "offset"
  <2> DEFINE w == [p.v EXCEPT !.offset = s.n]
  <2>1. s.n \in Int
    BY <1>6 DEF BitmapForm, MetaForm
  <2>2. BitmapSet(p, s) = Put(FALSE, p, w)
    BY <1>1, <1>6 DEF BitmapSet, Put
  <2>3. w \in BitmapVal /\ w.meta = p.v.meta /\ w.palette = p.v.palette /\ w.pixels = p.v.pixels
    BY <1>1, <2>1 DEF BitmapVal
  <2> HIDE DEF w
  <2> QED BY <2>2, <2>3, BitmapPuts
<1>7. CASE s.set = "percent"
  <2> DEFINE i == (p.v.w * s.n + 50) \div 100
             c == p.v.w = 0
             w == [p.v EXCEPT !.offset = i]
  <2>1. s.n \in Int
    BY <1>7 DEF BitmapForm, MetaForm
  <2>2. i \in Int
    <3>1. p.v.w \in Int
      BY <1>1 DEF BitmapVal
    <3>2. p.v.w * s.n + 50 \in Int
      BY <2>1, <3>1
    <3> QED BY <3>2
  <2>3. BitmapSet(p, s) = Put(c, p, w)
    BY <1>1, <1>7 DEF BitmapSet, Put
  <2> HIDE DEF i, c
  <2>4. w \in BitmapVal /\ w.meta = p.v.meta /\ w.palette = p.v.palette /\ w.pixels = p.v.pixels
    BY <1>1, <2>2 DEF BitmapVal
  <2> HIDE DEF w
  <2> QED BY <2>3, <2>4, BitmapPuts
<1>8. s.set \in {"pixels", "png", "source", "palette", "offset", "percent"}
  BY DEF BitmapForm, MetaForm
<1> QED BY <1>2, <1>3, <1>4, <1>5, <1>6, <1>7, <1>8

LEMMA RangeSetIs ==
  ASSUME Tables, NEW p \in Parsers(RangeVal), NEW s \in RangeForm
  PROVE  Puts("range", p, RangeSet(p, s))
<1>1. p.v \in RangeVal /\ (\A c : ErrIf(c, p).v = p.v) /\ p = ErrIf(FALSE, p)
  BY ParserHas, ErrIfHas DEF ErrIf
<1>2. ASSUME NEW c, NEW w \in RangeVal, RangeSet(p, s) = Put(c, p, w)
      PROVE  Puts("range", p, RangeSet(p, s))
  BY <1>2, ValsAre DEF Puts, HasMeta, Full, Values
<1>3. CASE s.set \in {"first", "last"}
  <2> DEFINE w1 == [p.v EXCEPT !.first = s.n]
             w2 == [p.v EXCEPT !.last = s.n]
  <2>1. s.n \in Int
    BY <1>3 DEF RangeForm
  <2>2. w1 \in RangeVal /\ w2 \in RangeVal
    BY <1>1, <2>1 DEF RangeVal
  <2>3. RangeSet(p, s) = Put(FALSE, p, w1) \/ RangeSet(p, s) = Put(FALSE, p, w2)
    BY <1>1, <1>3 DEF RangeSet, Put
  <2> HIDE DEF w1, w2
  <2> QED BY <1>2, <2>2, <2>3
<1>4. CASE s.set = "bitmap"
  <2> DEFINE i == Found("bitmap", s.ref)
             w == [p.v EXCEPT !.bitmap = i]
  <2>1. s.ref \in Reference
    BY <1>4 DEF RangeForm
  <2>2. i \in Int
    BY <2>1, FoundIs, KindsAre
  <2>3. RangeSet(p, s) = Put(Missing("bitmap", s.ref), p, w)
    BY <1>1, <1>4 DEF RangeSet, Put
  <2> HIDE DEF i
  <2>4. w \in RangeVal
    BY <1>1, <2>2 DEF RangeVal
  <2> HIDE DEF w
  <2> QED BY <1>2, <2>3, <2>4
<1>5. s.set \in {"first", "last", "bitmap"}
  BY DEF RangeForm
<1> QED BY <1>3, <1>4, <1>5

LEMMA RangeBodyIs ==
  ASSUME Tables, NEW U, NEW p0 \in Parsers(U), NEW ok \in BOOLEAN,
         NEW p \in ReadingOf("range", p0, ok), NEW body \in Seq(RangeForm)
  PROVE  RangeBody(p, body) \in ReadingOf("range", p0, ok)
<1> DEFINE S == ReadingOf("range", p0, ok)
<1>1. ASSUME NEW q \in S, NEW s \in RangeForm PROVE RangeSet(q, s) \in S
  <2>1. q \in Parsers(RangeVal)
    BY <1>1, ValsAre DEF ReadingOf
  <2> QED BY <1>1, <2>1, RangeSetIs, PutsReads
<1> HIDE DEF S
<1>2. \A q \in S : \A k \in 1 .. Len(body) : RangeSet(q, body[k]) \in S
  BY <1>1
<1>3. p \in S
  BY DEF S
<1>4. RangeBodyStays(S, RangeForm, p, body)
  BY <1>2, <1>3 DEF RangeBodyStays
<1>5. PICK at \in [0 .. Len(body) -> S] : RangeBody(p, body) = at[Len(body)]
  BY <1>4, RangeBodyGoes
<1>6. Len(body) \in 0 .. Len(body)
  OBVIOUS
<1> QED BY <1>5, <1>6 DEF S

LEMMA MappingSetIs ==
  ASSUME Tables, NEW U, NEW p0 \in Parsers(U), NEW ok \in BOOLEAN,
         NEW p \in ReadingOf("mapping", p0, ok), NEW s \in MappingForm
  PROVE  MappingSet(p, s) \in ReadingOf("mapping", p0, ok)
<1> DEFINE c == ~s.braces /\ Missing("range", s.ref)
           q == ErrIf(c, p)
<1>1. /\ p \in Parsers(MappingVal) /\ Reads(p0, p)
      /\ ~p.wrong => Within("mapping", p.v)
  BY ValsAre DEF ReadingOf
<1>2. p.v \in MappingVal
  BY <1>1, ParserHas
<1>3. s.ref \in Reference /\ s.braces \in BOOLEAN /\ s.body \in Seq(RangeForm)
  BY DEF MappingForm
<1> HIDE DEF c
<1>4. /\ q \in Parsers(MappingVal) /\ Reads(p, q) /\ (~q.wrong => ~c /\ ~p.wrong)
      /\ q.v = p.v /\ q.metas = p.metas
  BY <1>1, ErrIfIs
<1>5. ASSUME NEW V, NEW r \in Parsers(V), Reads(p, r), NEW slot \in InfoSlot \cup OwnSlot(RangeVal),
             ~r.wrong /\ slot.at = "info" => InTable("range", slot.index)
      PROVE  AddRange(r, Append(p.v, slot)) \in ReadingOf("mapping", p0, ok)
  <2> DEFINE kfm == Append(p.v, slot)
             d == RangesWrong(kfm)
             z == Put(d, r, kfm)
  <2>1. kfm \in MappingVal /\ Len(kfm) = Len(p.v) + 1 /\ Len(p.v) \in Nat
    BY <1>2, <1>5 DEF MappingVal
  <2>2. AddRange(r, kfm) = z
    BY DEF AddRange, Put
  <2>3. ASSUME NEW i \in 1 .. Len(kfm) PROVE kfm[i] = IF i = Len(kfm) THEN slot ELSE p.v[i]
    BY <1>2, <2>1 DEF MappingVal
  <2>4. DOMAIN kfm = 1 .. Len(kfm) /\ DOMAIN p.v = 1 .. Len(p.v)
    BY <1>2, <2>1 DEF MappingVal
  <2> HIDE DEF kfm, d
  <2>5. /\ z \in Parsers(MappingVal) /\ Reads(r, z) /\ z.v = kfm
        /\ ~z.wrong => ~d /\ ~r.wrong
    BY <1>5, <2>1, PutIs
  <2> HIDE DEF z
  <2>6. Reads(p, z) /\ Reads(p0, z)
    BY <1>1, <1>5, <2>5, ReadsBoth
  <2>7. ~z.wrong => ~p.wrong
    BY <2>6 DEF Reads, Moves
  <2>8. ASSUME ~z.wrong PROVE Within("mapping", kfm)
    <3> SUFFICES ASSUME NEW i \in DOMAIN kfm
                 PROVE  IF kfm[i].at = "own" THEN kfm[i].own.first <= kfm[i].own.last
                        ELSE kfm[i].at = "info" => InTable("range", kfm[i].index)
      BY DEF Within
    <3>1. i \in 1 .. Len(kfm) /\ kfm[i] \in InfoSlot \cup OwnSlot(RangeVal)
      BY <2>1, <2>4 DEF MappingVal
    <3>2. CASE kfm[i].at = "own"
      <4>1. ~ (kfm[i].own.last < kfm[i].own.first)
        BY <2>5, <2>8, <3>2 DEF d, RangesWrong, RangeIn
      <4>2. kfm[i].own.last \in Int /\ kfm[i].own.first \in Int
        BY <3>1, <3>2 DEF InfoSlot, OwnSlot, RangeVal
      <4> QED BY <3>2, <4>1, <4>2
    <3>3. CASE kfm[i].at # "own"
      <4>1. CASE i = Len(kfm)
        BY <1>5, <2>3, <2>5, <2>8, <3>1, <3>3, <4>1
      <4>2. CASE i # Len(kfm)
        <5>1. i \in DOMAIN p.v /\ kfm[i] = p.v[i]
          BY <2>1, <2>3, <2>4, <3>1, <4>2
        <5>2. Within("mapping", p.v)
          BY <1>1, <2>7, <2>8
        <5> QED BY <3>3, <5>1, <5>2 DEF Within
      <4> QED BY <4>1, <4>2
    <3> QED BY <3>2, <3>3
  <2>9. Full("mapping", kfm) /\ z \in Parsers(Val("mapping")) /\ ~HasMeta("mapping")
    BY <2>5, ValsAre DEF Full, Values, HasMeta
  <2> QED BY <2>2, <2>5, <2>6, <2>8, <2>9 DEF ReadingOf, kfm
<1> HIDE DEF q
<1>6. MappingSet(p, s) =
        CASE s.braces -> AddRange(RangeBody([q EXCEPT !.v = Range0], s.body),
                                  Append(p.v, Own(RangeBody([q EXCEPT !.v = Range0], s.body).v)))
          [] ~s.braces /\ OutOf("range", s.ref) -> Crashed(q)
          [] OTHER -> AddRange(q, Append(p.v, InInfo(Found("range", s.ref))))
  BY DEF MappingSet, q, c
<1>7. CASE s.braces
  <2> DEFINE z == [q EXCEPT !.v = Range0]
             r == RangeBody(z, s.body)
  <2>1. Range0 \in RangeVal
    BY DEF Range0, RangeVal
  <2>2. z \in Parsers(RangeVal) /\ Reads(q, z)
    BY <1>4, <2>1, ValueIs
  <2> HIDE DEF z
  <2>3. z \in ReadingOf("range", z, ok)
    BY <2>2, ReadsItself, ValsAre DEF ReadingOf, HasMeta, Full, Values
  <2>4. r \in ReadingOf("range", z, ok)
    BY <1>3, <2>2, <2>3, RangeBodyIs
  <2>5. r \in Parsers(RangeVal) /\ Reads(z, r)
    BY <2>4, ValsAre DEF ReadingOf
  <2> HIDE DEF r
  <2>6. Reads(p, r)
    <3>1. Reads(p, z)
      BY <1>1, <1>4, <2>2, ReadsBoth
    <3> QED BY <1>1, <2>2, <2>5, <3>1, ReadsBoth
  <2>7. r.v \in RangeVal
    BY <2>5, ParserHas
  <2>8. Own(r.v) \in OwnSlot(RangeVal) /\ Own(r.v).at = "own"
    BY <2>7 DEF Own, OwnSlot
  <2>9. AddRange(r, Append(p.v, Own(r.v))) \in ReadingOf("mapping", p0, ok)
    BY <1>5, <2>5, <2>6, <2>8
  <2>10. MappingSet(p, s) = AddRange(r, Append(p.v, Own(r.v)))
    BY <1>6, <1>7 DEF r, z
  <2> QED BY <2>9, <2>10
<1>8. CASE ~s.braces /\ OutOf("range", s.ref)
  <2>1. c
    BY <1>3, <1>8, FoundIs, KindsAre DEF c
  <2>2. q.wrong
    BY <2>1, <1>4, ParserHas
  <2>3. /\ Crashed(q) \in Parsers(MappingVal) /\ Reads(q, Crashed(q)) /\ Crashed(q).wrong
        /\ Crashed(q).v = p.v /\ Crashed(q).metas = p.metas
    BY <1>4, <2>2, CrashedIs
  <2>4. Reads(p, Crashed(q))
    BY <1>1, <1>4, <2>3, ReadsBoth
  <2>5. Crashed(q) \in ReadingOf("mapping", p0, ok)
    BY <2>3, <2>4, ValsAre, WrongReads
  <2> QED BY <1>6, <1>8, <2>5
<1>9. CASE ~s.braces /\ ~OutOf("range", s.ref)
  <2> DEFINE i == Found("range", s.ref)
  <2>1. i \in Int /\ (~Missing("range", s.ref) => InTable("range", i))
    BY <1>3, FoundIs, KindsAre
  <2>2. MappingSet(p, s) = AddRange(q, Append(p.v, InInfo(i)))
    BY <1>6, <1>9
  <2> HIDE DEF i
  <2>3. InInfo(i) \in InfoSlot /\ InInfo(i).index = i
    BY <2>1 DEF InfoSlot, InInfo
  <2>4. ~q.wrong => InTable("range", i)
    BY <1>4, <1>9, <2>1 DEF c
  <2> QED BY <1>4, <1>5, <2>2, <2>3, <2>4
<1> QED BY <1>3, <1>7, <1>8, <1>9

LEMMA TwoMax == ASSUME NEW a \in Int, NEW b \in Int PROVE Max({a, b}) \in {a, b}
<1>1. \E x \in {a, b} : \A y \in {a, b} : x >= y
  <2>1. CASE a >= b
    BY <2>1
  <2>2. CASE b >= a
    BY <2>2
  <2> QED BY <2>1, <2>2
<1> QED BY <1>1 DEF Max

LEMMA TwoMin == ASSUME NEW a \in Int, NEW b \in Int PROVE Min({a, b}) \in {a, b}
<1>1. \E x \in {a, b} : \A y \in {a, b} : x <= y
  <2>1. CASE a >= b
    BY <2>1
  <2>2. CASE b >= a
    BY <2>2
  <2> QED BY <2>1, <2>2
<1> QED BY <1>1 DEF Min

(* The points of a setting, after those that were there.                     *)
Placed(list, skip, size) ==
  [i \in 1 .. size |-> IF i > skip /\ i <= skip + Len(list) THEN list[i - skip] ELSE Garbage]

LEMMA PlacedIs ==
  ASSUME NEW list \in Seq(Int), NEW skip \in Int, NEW size \in Int
  PROVE  /\ Placed(list, skip, size) \in Seq(Value)
         /\ skip = 0 /\ size <= Len(list) => Garbage \notin Range(Placed(list, skip, size))
<1> DEFINE g == Placed(list, skip, size)
<1>1. \A i \in 1 .. size : /\ (i > skip /\ i <= skip + Len(list)) => i - skip \in 1 .. Len(list)
                           /\ skip = 0 /\ size <= Len(list) => i > skip /\ i <= skip + Len(list)
  OBVIOUS
<1>2. DOMAIN g = 1 .. size /\ \A i \in 1 .. size :
        g[i] \in Value /\ (skip = 0 /\ size <= Len(list) => g[i] \in Int)
  BY <1>1 DEF Value, Placed
<1>3. g \in Seq(Value)
  <2>1. CASE size \in Nat
    BY <1>2, <2>1 DEF Placed
  <2>2. CASE size \notin Nat
    <3>1. 1 .. size = 1 .. 0
      BY <2>2
    <3> QED BY <1>2, <3>1 DEF Placed
  <2> QED BY <2>1, <2>2
<1> HIDE DEF g
<1>4. skip = 0 /\ size <= Len(list) => Garbage \notin Range(g)
  BY <1>2, Unset DEF Range
<1> QED BY <1>3, <1>4 DEF g

LEMMA NptsIs ==
  ASSUME NEW V, NEW u \in Parsers(V), NEW n \in Int
  PROVE  LET r == [u EXCEPT !.npts = n]
         IN r \in Parsers(V) /\ Reads(u, r) /\ r.v = u.v /\ r.npts = n /\ r.wrong = u.wrong
<1> DEFINE r == [u EXCEPT !.npts = n]
<1>1. Len(u.metas) \in Nat
  BY ParserHas
<1>2. r \in Parsers(V) /\ r.v = u.v /\ r.npts = n /\ r.wrong = u.wrong
  BY DEF Parsers
<1>3. Reads(u, r)
  BY <1>1 DEF Reads, Moves, Parsers
<1> QED BY <1>2, <1>3

Points(v, pts) == v.pts = pts
Drawn(c, p, pts, npts) == [ErrIf(c, p) EXCEPT !.v.pts = pts, !.npts = npts]
LEMMA DrawnIs ==
  ASSUME NEW p \in Parsers(CurveVal), NEW c, NEW pts \in Seq(Value), NEW npts \in Int
  PROVE  /\ Drawn(c, p, pts, npts) \in Parsers(CurveVal) /\ Reads(p, Drawn(c, p, pts, npts))
         /\ Points(Drawn(c, p, pts, npts).v, pts) /\ Drawn(c, p, pts, npts).npts = npts
         /\ ~Drawn(c, p, pts, npts).wrong => ~c
<1> DEFINE e == ErrIf(c, p)
           w == [e.v EXCEPT !.pts = pts]
           u == [e EXCEPT !.v = w]
           r == [u EXCEPT !.npts = npts]
<1>1. e \in Parsers(CurveVal) /\ Reads(p, e) /\ (~e.wrong => ~c)
  BY ErrIfIs
<1>2. Drawn(c, p, pts, npts) = r
  BY DEF Drawn
<1> HIDE DEF e
<1>3. e.v \in CurveVal
  BY <1>1, ParserHas
<1>4. w \in CurveVal /\ w.pts = pts
  BY <1>3 DEF CurveVal
<1> HIDE DEF w
<1>5. u \in Parsers(CurveVal) /\ Reads(e, u) /\ u.v = w /\ u.wrong = e.wrong
  BY <1>1, <1>4, ValueIs
<1> HIDE DEF u
<1>6. r \in Parsers(CurveVal) /\ Reads(u, r) /\ r.v = u.v /\ r.npts = npts /\ r.wrong = u.wrong
  BY <1>5, NptsIs
<1> HIDE DEF r
<1>7. Reads(p, u)
  BY <1>1, <1>5, ReadsBoth
<1>8. Reads(p, r)
  BY <1>5, <1>6, <1>7, ReadsBoth
<1> QED BY <1>1, <1>2, <1>4, <1>5, <1>6, <1>8 DEF Points

(* A setting of a curve; points that come first after a type are all said.   *)
Counted(s) == s.set = "open_points" => Len(s.list) % 2 = 0
LEMMA EvenHalf == ASSUME NEW n \in Nat, n % 2 = 0 PROVE 2 * ((0 + n + 1) \div 2) <= n
OBVIOUS

LEMMA CurveSetIs ==
  ASSUME NEW p \in Parsers(CurveVal), NEW s \in CurveForm
  PROVE  /\ CurveSet(p, s) \in Parsers(CurveVal) /\ Reads(p, CurveSet(p, s))
         /\ s.set = "type" => CurveSet(p, s).v.pts = p.v.pts /\ CurveSet(p, s).npts = 0
         /\ s.set # "type" /\ p.npts = 0 /\ Counted(s) /\ ~CurveSet(p, s).wrong =>
              Garbage \notin Range(CurveSet(p, s).v.pts)
<1>1. p.v \in CurveVal /\ p.npts \in Int
  BY ParserHas
<1>2. s.set \in {"type", "points", "open_points"}
  BY DEF CurveForm
<1>3. CASE s.set = "type"
  <2> DEFINE w == [p.v EXCEPT !.type = s.name]
             u == [p EXCEPT !.v = w]
             r == [u EXCEPT !.npts = 0]
  <2>1. s.name \in Word
    BY <1>3, Strings DEF CurveForm
  <2>2. CurveSet(p, s) = r
    BY <1>3 DEF CurveSet
  <2>3. w \in CurveVal /\ w.pts = p.v.pts
    BY <1>1, <2>1 DEF CurveVal
  <2> HIDE DEF w
  <2>4. u \in Parsers(CurveVal) /\ Reads(p, u) /\ u.v = w /\ u.wrong = p.wrong
    BY <2>3, ValueIs
  <2> HIDE DEF u
  <2>5. r \in Parsers(CurveVal) /\ Reads(u, r) /\ r.v = u.v /\ r.npts = 0 /\ r.wrong = u.wrong
    BY <2>4, NptsIs
  <2> HIDE DEF r
  <2>6. Reads(p, r)
    BY <2>4, <2>5, ReadsBoth
  <2> QED BY <1>3, <2>2, <2>3, <2>4, <2>5, <2>6
<1>4. ASSUME CurveSet(p, s) \in {Ended(p, "exited"), Crashed(Err(p))}, s.set # "type"
      PROVE  /\ CurveSet(p, s) \in Parsers(CurveVal) /\ Reads(p, CurveSet(p, s))
             /\ CurveSet(p, s).wrong
  <2>1. /\ Ended(p, "exited") \in Parsers(CurveVal) /\ Reads(p, Ended(p, "exited"))
        /\ Ended(p, "exited").wrong
    BY EndedIs
  <2>2. Err(p) \in Parsers(CurveVal) /\ Reads(p, Err(p)) /\ Err(p).wrong
    BY ErrIs
  <2>3. /\ Crashed(Err(p)) \in Parsers(CurveVal) /\ Reads(Err(p), Crashed(Err(p)))
        /\ Crashed(Err(p)).wrong
    BY <2>2, CrashedIs
  <2>4. Reads(p, Crashed(Err(p)))
    BY <2>2, <2>3, ReadsBoth
  <2> QED BY <1>4, <2>1, <2>3, <2>4
<1>5. CASE s.set = "points"
  <2> DEFINE skip == p.npts
             end == skip + Len(s.list)
             npts == Max({skip, Min({end, 2 * s.n})})
             c == PointsMissing(end, s.n)
             pts == Placed(s.list, skip, 2 * s.n)
             r == Drawn(c, p, pts, npts)
  <2>1. s.n \in Int /\ s.list \in Seq(Int) /\ Len(s.list) \in Nat
    BY <1>5 DEF CurveForm
  <2>2. CASE skip < 0 \/ s.n <= 0
    <3>1. CurveSet(p, s) = Ended(p, "exited")
      BY <1>1, <1>5, <2>1, <2>2 DEF CurveSet
    <3> QED BY <1>4, <1>5, <3>1
  <2>3. CASE ~ (skip < 0 \/ s.n <= 0)
    <3>1. skip >= 0 /\ s.n > 0
      BY <1>1, <2>1, <2>3
    <3>2. CurveSet(p, s) = r
      BY <1>5, <3>1, <2>3 DEF CurveSet, Drawn, Placed
    <3>3. npts \in Int
      <4>1. end \in Int /\ 2 * s.n \in Int
        BY <1>1, <2>1
      <4>2. Min({end, 2 * s.n}) \in Int
        BY <4>1, TwoMin
      <4> QED BY <1>1, <4>2, TwoMax
    <3>4. pts \in Seq(Value)
      BY <1>1, <2>1, PlacedIs
    <3>5. skip = 0 /\ ~c => Garbage \notin Range(pts)
      BY <1>1, <2>1, PlacedIs DEF PointsMissing
    <3> HIDE DEF npts, c, pts
    <3>6. /\ r \in Parsers(CurveVal) /\ Reads(p, r)
          /\ Points(r.v, pts) /\ (~r.wrong => ~c)
      BY <3>3, <3>4, DrawnIs
    <3> HIDE DEF r
    <3> QED BY <1>5, <3>2, <3>5, <3>6 DEF Points
  <2> QED BY <2>2, <2>3
<1>6. CASE s.set = "open_points"
  <2> DEFINE skip == p.npts
             end == skip + Len(s.list)
             size == 2 * ((end + 1) \div 2)
             c == FALSE
             pts == Placed(s.list, skip, size)
             r == Drawn(c, p, pts, end)
  <2>1. s.list \in Seq(Int) /\ Len(s.list) \in Nat
    BY <1>6 DEF CurveForm
  <2>2. CASE skip < 0
    <3>1. CurveSet(p, s) = Crashed(Err(p))
      BY <1>6, <2>2 DEF CurveSet
    <3> QED BY <1>4, <1>6, <3>1
  <2>3. CASE ~ (skip < 0)
    <3>1. CurveSet(p, s) = r
      BY <1>6, <2>3 DEF CurveSet, Drawn, Placed, ErrIf
    <3>2. end \in Int /\ size \in Int
      BY <1>1, <2>1
    <3>3. pts \in Seq(Value)
      BY <1>1, <2>1, <3>2, PlacedIs
    <3>4. skip = 0 /\ Counted(s) => Garbage \notin Range(pts)
      <4>1. ASSUME skip = 0, Counted(s) PROVE size <= Len(s.list)
        <5>1. Len(s.list) % 2 = 0
          BY <1>6, <4>1 DEF Counted
        <5>2. 2 * ((0 + Len(s.list) + 1) \div 2) <= Len(s.list)
          BY <2>1, <5>1, EvenHalf
        <5> QED BY <4>1, <5>2
      <4> QED BY <1>1, <2>1, <3>2, <4>1, PlacedIs
    <3> HIDE DEF size, end, c, pts
    <3>5. r \in Parsers(CurveVal) /\ Reads(p, r) /\ Points(r.v, pts)
      BY <3>2, <3>3, DrawnIs
    <3> HIDE DEF r
    <3> QED BY <1>6, <3>1, <3>4, <3>5 DEF Points
  <2> QED BY <2>2, <2>3
<1> QED BY <1>2, <1>3, <1>5, <1>6

LEMMA CurveStepIs ==
  ASSUME NEW p \in Parsers(CurveVal), NEW s \in CurveForm
  PROVE  CurveStep(p, s) \in Parsers(CurveVal) /\ Reads(p, CurveStep(p, s))
<1>1. CASE Going(p)
  BY <1>1, CurveSetIs DEF CurveStep
<1>2. CASE ~Going(p)
  BY <1>2, ReadsItself DEF CurveStep
<1> QED BY <1>1, <1>2

(* Points that come next after a type find no points there.                  *)
LEMMA AfterType ==
  ASSUME NEW p \in Parsers(CurveVal), NEW s \in CurveForm, s.set = "type", Going(CurveStep(p, s))
  PROVE  CurveStep(p, s).npts = 0
<1>1. Going(p)
  BY DEF CurveStep
<1> QED BY <1>1, CurveSetIs DEF CurveStep

LEMMA CurveReading ==
  ASSUME NEW U, NEW p0 \in Parsers(U), NEW ok \in BOOLEAN, NEW p \in Parsers(CurveVal), Reads(p0, p)
  PROVE  p \in ReadingOf("curve", p0, ok) <=> (~p.wrong /\ ok => Garbage \notin Range(p.v.pts))
BY ValsAre DEF ReadingOf, HasMeta, Within, Full, Values

CurveRuns(at, body) == \A k \in 1 .. Len(body) : at[k] = CurveStep(at[k - 1], body[k])
LEMMA CurveRunIs ==
  ASSUME NEW U, NEW p0 \in Parsers(U), NEW ok \in BOOLEAN, NEW body \in Seq(CurveForm),
         ok => ~Loose(body), NEW at \in [0 .. Len(body) -> Parsers(CurveVal)],
         at[0] \in ReadingOf("curve", p0, ok), CurveRuns(at, body)
  PROVE  at[Len(body)] \in ReadingOf("curve", p0, ok)
<1> DEFINE S == ReadingOf("curve", p0, ok)
           In == {k \in 0 .. Len(body) : at[k] \in S}
<1>0. Len(body) \in Nat
  OBVIOUS
<1>1. 0 \in In
  BY <1>0
<1>2. ASSUME NEW k \in 1 .. Len(body), k - 1 \in In PROVE k \in In
  <2> DEFINE p == at[k - 1]
             s == body[k]
             r == at[k]
  <2>1. p \in S
    BY <1>2
  <2>2. p \in Parsers(CurveVal) /\ Reads(p0, p)
    BY <2>1, ValsAre DEF ReadingOf
  <2>3. s \in CurveForm /\ r = CurveStep(p, s)
    BY DEF CurveRuns
  <2>4. r \in Parsers(CurveVal) /\ Reads(p, r)
    BY <2>2, <2>3, CurveStepIs
  <2>5. Reads(p0, r)
    BY <2>2, <2>4, ReadsBoth
  <2>6. ASSUME ~r.wrong, ok PROVE Garbage \notin Range(r.v.pts)
    <3>1. ~p.wrong
      BY <2>4, <2>6 DEF Reads, Moves
    <3>2. Garbage \notin Range(p.v.pts)
      BY <2>1, <2>2, <2>6, <3>1, CurveReading
    <3>3. CASE ~Going(p)
      BY <2>3, <3>2, <3>3 DEF CurveStep
    <3>4. CASE Going(p) /\ s.set = "type"
      <4>1. r = CurveSet(p, s)
        BY <2>3, <3>4 DEF CurveStep
      <4>2. r.v.pts = p.v.pts
        BY <2>2, <2>3, <3>4, <4>1, CurveSetIs
      <4> QED BY <3>2, <4>2
    <3>5. CASE Going(p) /\ s.set # "type"
      <4>1. s.set \in {"points", "open_points"}
        BY <2>3, <3>5 DEF CurveForm
      <4>2. k # 1 /\ body[k - 1].set = "type" /\ ~ (s.set = "open_points" /\ Len(s.list) % 2 = 1)
        BY <2>6, <4>1 DEF Loose
      <4>3. k - 1 \in 1 .. Len(body) /\ k - 2 \in 0 .. Len(body) /\ (k - 1) - 1 = k - 2
        BY <1>0, <4>2
      <4>4. p = CurveStep(at[k - 2], body[k - 1]) /\ at[k - 2] \in Parsers(CurveVal)
            /\ body[k - 1] \in CurveForm
        BY <4>3 DEF CurveRuns
      <4>5. p.npts = 0
        BY <3>5, <4>2, <4>4, AfterType
      <4>6. Counted(s)
        <5>1. CASE s.set = "open_points"
          <6>1. Len(s.list) \in Nat
            BY <2>3, <5>1 DEF CurveForm
          <6> QED BY <4>2, <5>1, <6>1 DEF Counted
        <5>2. CASE s.set # "open_points"
          BY <5>2 DEF Counted
        <5> QED BY <5>1, <5>2
      <4>7. r = CurveSet(p, s)
        BY <2>3, <3>5 DEF CurveStep
      <4> QED BY <2>2, <2>3, <2>6, <3>5, <4>5, <4>6, <4>7, CurveSetIs
    <3> QED BY <3>3, <3>4, <3>5
  <2>7. r \in S
    BY <2>4, <2>5, <2>6, CurveReading
  <2> QED BY <2>7
<1> HIDE DEF In
<1>3. \A k \in 0 .. Len(body) : k \in In
  BY <1>0, <1>1, <1>2, UpTo
<1> QED BY <1>0, <1>3 DEF In

LEMMA CurveBodyIs ==
  ASSUME NEW U, NEW p0 \in Parsers(U), NEW ok \in BOOLEAN, NEW body \in Seq(CurveForm),
         ok => ~Loose(body), NEW p \in ReadingOf("curve", p0, ok)
  PROVE  CurveBody(p, body) \in ReadingOf("curve", p0, ok)
<1> DEFINE S == Parsers(CurveVal)
<1>1. p \in S
  BY ValsAre DEF ReadingOf
<1>2. \A q \in S : \A k \in 1 .. Len(body) : CurveStep(q, body[k]) \in S
  BY CurveStepIs
<1> HIDE DEF S
<1>3. CurveBodyStays(S, CurveForm, p, body)
  BY <1>1, <1>2 DEF CurveBodyStays
<1>4. PICK at \in [0 .. Len(body) -> S] :
        /\ at[0] = p /\ CurveBody(p, body) = at[Len(body)]
        /\ \A k \in 1 .. Len(body) : at[k] = CurveStep(at[k - 1], body[k])
  BY <1>3, CurveBodyGoes
<1>5. at \in [0 .. Len(body) -> Parsers(CurveVal)]
  BY DEF S
<1>6. CurveRuns(at, body)
  BY <1>4 DEF CurveRuns
<1>7. at[0] \in ReadingOf("curve", p0, ok)
  BY <1>4
<1>8. at[Len(body)] \in ReadingOf("curve", p0, ok)
  BY <1>5, <1>6, <1>7, CurveRunIs
<1> QED BY <1>4, <1>8


-----------------------------------------------------------------------------
(* The items that others derive from, and the curves of a motion.            *)

ItemsHold(p, ok) ==
  /\ Tables
  /\ \A k \in AllKinds : \A i \in DOMAIN info[k] :
       /\ HasMeta(k) => info[k][i].meta <= Len(p.metas)
       /\ ~p.wrong => Within(k, info[k][i])
       /\ ~p.wrong /\ ok => Full(k, info[k][i])

LEMMA ItemIs ==
  ASSUME NEW U, NEW V, NEW p0 \in Parsers(U), NEW ok \in BOOLEAN, ItemsHold(p0, ok),
         NEW q \in Parsers(V), Reads(p0, q), NEW kind \in AllKinds, NEW r \in Reference,
         r # NoRef, ~OutOf(kind, r)
  PROVE  [q EXCEPT !.v = Item(kind, r)] \in ReadingOf(kind, p0, ok)
<1> DEFINE i == Found(kind, r)
           w == info[kind][i + 1]
           z == [q EXCEPT !.v = w]
<1>1. i \in 0 .. Len(info[kind]) - 1
  BY FoundIs DEF ItemsHold, InTable
<1>2. info[kind] \in Seq(Val(kind)) /\ Len(info[kind]) \in Nat
  BY DEF ItemsHold, Tables
<1>3. Item(kind, r) = w
  BY DEF Item
<1> HIDE DEF i
<1>4. i + 1 \in DOMAIN info[kind]
  BY <1>1, <1>2
<1>5. /\ w \in Val(kind)
      /\ HasMeta(kind) => w.meta <= Len(p0.metas)
      /\ ~p0.wrong => Within(kind, w)
      /\ ~p0.wrong /\ ok => Full(kind, w)
  BY <1>2, <1>4 DEF ItemsHold
<1> HIDE DEF w
<1>6. z \in Parsers(Val(kind)) /\ Reads(q, z) /\ z.v = w /\ z.metas = q.metas /\ z.wrong = q.wrong
  BY <1>5, ValueIs
<1>7. /\ Len(p0.metas) <= Len(q.metas) /\ (~q.wrong => ~p0.wrong)
      /\ Len(p0.metas) \in Nat /\ Len(q.metas) \in Nat
  BY ParserHas DEF Reads, Moves
<1> HIDE DEF z
<1>8. Reads(p0, z)
  BY <1>6, ReadsBoth
<1>9. HasMeta(kind) => w.meta <= Len(z.metas)
  <2>1. HasMeta(kind) => w.meta \in Nat
    BY <1>5, KindsAre DEF HasMeta, Val, StyleVal, RegionVal, MotionVal, MotionOf, PaletteVal, BitmapVal
  <2> HIDE DEF HasMeta
  <2> QED BY <1>5, <1>6, <1>7, <2>1
<1>10. z \in ReadingOf(kind, p0, ok)
  BY <1>5, <1>6, <1>7, <1>8, <1>9 DEF ReadingOf
<1> QED BY <1>3, <1>10 DEF z

LEMMA InitialIs ==
  ASSUME NEW U, NEW V, NEW p0 \in Parsers(U), NEW ok \in BOOLEAN,
         NEW q \in Parsers(V), Reads(p0, q), NEW kind \in AllKinds
  PROVE  [q EXCEPT !.v = Initial(kind)] \in ReadingOf(kind, p0, ok)
<1> DEFINE w == Initial(kind)
           z == [q EXCEPT !.v = w]
<1>1. /\ NoName \in Word /\ "pixel" \in Word /\ "percent" \in Word /\ "none" \in Word
      /\ "unset" \in Word /\ "paletted" \in Word
  BY Strings, Words0 DEF NoName
<1>2. /\ w \in Val(kind) /\ (HasMeta(kind) => w.meta = 0)
      /\ kind # "range" => Within(kind, w)
      /\ Full(kind, w)
  <2>1. CASE kind = "style"
    BY <1>1, <2>1 DEF Initial, Style0, Val, StyleVal, HasMeta, Within, Full, Values
  <2>2. CASE kind = "region"
    BY <1>1, <2>2 DEF Initial, Region0, Val, RegionVal, HasMeta, Within, Full, Values
  <2>3. CASE kind = "curve"
    BY <1>1, <2>3 DEF Initial, Curve0, Val, CurveVal, HasMeta, Within, Full, Values, Range
  <2>4. CASE kind = "motion"
    BY <1>1, <2>4 DEF Initial, Motion0, Val, MotionVal, MotionOf, HasMeta, Within, Full, Values, Range
  <2>5. CASE kind = "palette"
    BY <1>1, <2>5 DEF Initial, Palette0, Val, PaletteVal, HasMeta, Within, Full, Values, Range
  <2>6. CASE kind = "bitmap"
    BY <1>1, <2>6 DEF Initial, Bitmap0, Val, BitmapVal, HasMeta, Within, Full, Values, Range
  <2>7. CASE kind = "range"
    BY <1>1, <2>7 DEF Initial, Range0, Val, RangeVal, HasMeta, Within, Full, Values
  <2>8. CASE kind = "mapping"
    BY <1>1, <2>8 DEF Initial, Val, MappingVal, HasMeta, Within, Full, Values
  <2> QED BY <2>1, <2>2, <2>3, <2>4, <2>5, <2>6, <2>7, <2>8, KindsAre
<1> HIDE DEF w
<1>3. z \in Parsers(Val(kind)) /\ Reads(q, z) /\ z.v = w /\ z.metas = q.metas
  BY <1>2, ValueIs
<1> HIDE DEF z
<1>4. Reads(p0, z) /\ Len(z.metas) \in Nat
  BY <1>3, ReadsBoth, ParserHas
<1>5. z \in ReadingOf(kind, p0, ok)
  BY <1>2, <1>3, <1>4 DEF ReadingOf
<1> QED BY <1>5 DEF z, w

(* What was read before another item was read goes on after it.              *)
LEMMA BackTo ==
  ASSUME NEW U, NEW V, NEW p0 \in Parsers(U), NEW ok \in BOOLEAN, NEW kind \in AllKinds,
         NEW p \in ReadingOf(kind, p0, ok), NEW r \in Parsers(V), Reads(p, r)
  PROVE  /\ [r EXCEPT !.v = p.v] \in ReadingOf(kind, p0, ok)
         /\ [r EXCEPT !.v = p.v].wrong = r.wrong
<1> DEFINE w == p.v
           z == [r EXCEPT !.v = w]
<1>1. /\ p \in Parsers(Val(kind)) /\ Reads(p0, p)
      /\ (HasMeta(kind) => w.meta <= Len(p.metas))
      /\ ~p.wrong /\ kind # "range" => Within(kind, w)
      /\ ~p.wrong /\ ok => Full(kind, w)
  BY DEF ReadingOf
<1>2. w \in Val(kind) /\ Len(p.metas) \in Nat /\ Len(r.metas) \in Nat
  BY <1>1, ParserHas
<1> HIDE DEF w
<1>3. z \in Parsers(Val(kind)) /\ Reads(r, z) /\ z.v = w /\ z.metas = r.metas /\ z.wrong = r.wrong
  BY <1>2, ValueIs
<1> HIDE DEF z
<1>4. Reads(p, z)
  BY <1>1, <1>3, ReadsBoth
<1>5. Reads(p0, z)
  BY <1>1, <1>3, <1>4, ReadsBoth
<1>6. Len(p.metas) <= Len(r.metas) /\ (~r.wrong => ~p.wrong)
  BY DEF Reads, Moves
<1>7. HasMeta(kind) => w.meta <= Len(z.metas)
  <2>1. HasMeta(kind) => w.meta \in Nat
    BY <1>2, KindsAre DEF HasMeta, Val, StyleVal, RegionVal, MotionVal, MotionOf, PaletteVal, BitmapVal
  <2> HIDE DEF HasMeta
  <2> QED BY <1>1, <1>2, <1>3, <1>6, <2>1
<1>8. z \in ReadingOf(kind, p0, ok)
  BY <1>1, <1>3, <1>5, <1>6, <1>7 DEF ReadingOf
<1> QED BY <1>3, <1>8 DEF z, w

LEMMA MotionFull ==
  ASSUME NEW v
  PROVE  Full("motion", v) <=> \A i \in DOMAIN v.curves :
           v.curves[i].at = "own" => Garbage \notin Range(v.curves[i].own.pts)
BY DEF Full, Values, OwnOf

Fits(p, slot, ok) ==
  /\ ~p.wrong /\ slot.at = "info" => InTable("curve", slot.index)
  /\ ~p.wrong /\ ok /\ slot.at = "own" => Garbage \notin Range(slot.own.pts)
LEMMA AppendCurveIs ==
  ASSUME NEW U, NEW p0 \in Parsers(U), NEW ok \in BOOLEAN, NEW p \in ReadingOf("motion", p0, ok),
         NEW slot \in InfoSlot \cup OwnSlot(CurveVal), NEW d \in Int, Fits(p, slot, ok)
  PROVE  AppendCurve(p, slot, d) \in ReadingOf("motion", p0, ok)
<1> DEFINE c == slot.at = "own" /\ CurveWrong(slot.own)
           curves == Append(p.v.curves, slot)
           durations == Append(p.v.durations, d)
           w == [p.v EXCEPT !.curves = curves, !.durations = durations]
           r == Put(c, p, w)
<1>1. /\ p \in Parsers(MotionVal) /\ Reads(p0, p) /\ p.v.meta <= Len(p.metas)
      /\ ~p.wrong => Within("motion", p.v)
      /\ ~p.wrong /\ ok => Full("motion", p.v)
  BY ValsAre DEF ReadingOf, HasMeta
<1>2. p.v \in MotionVal /\ \A b : ErrIf(b, p).v = p.v
  BY <1>1, ParserHas, ErrIfHas
<1> HIDE DEF c
<1>3. AppendCurve(p, slot, d) = r
  <2> DEFINE e == ErrIf(c, p)
  <2>1. e \in Parsers(MotionVal) /\ e.v = p.v
    BY <1>1, ErrIfIs
  <2>2. AppendCurve(p, slot, d) = [e EXCEPT !.v.curves = Append(@, slot), !.v.durations = Append(@, d)]
    BY DEF AppendCurve, c
  <2>3. r = [e EXCEPT !.v = [e.v EXCEPT !.curves = curves, !.durations = durations]]
    BY <2>1 DEF Put
  <2>4. e.v \in MotionVal
    BY <1>2, <2>1
  <2> HIDE DEF e
  <2> QED BY <2>1, <2>2, <2>3, <2>4 DEF Parsers, MotionVal, MotionOf
<1>4. /\ p.v.curves \in Seq(InfoSlot \cup OwnSlot(CurveVal)) /\ p.v.durations \in Seq(Int)
      /\ Len(p.v.curves) = Len(p.v.durations)
  BY <1>2 DEF MotionVal, MotionOf
<1>5. /\ curves \in Seq(InfoSlot \cup OwnSlot(CurveVal)) /\ durations \in Seq(Int)
      /\ Len(curves) = Len(durations)
      /\ \A i \in DOMAIN curves : (i \in DOMAIN p.v.curves /\ curves[i] = p.v.curves[i]) \/ curves[i] = slot
  BY <1>4
<1> HIDE DEF curves, durations
<1>6. w \in MotionVal /\ w.curves = curves /\ w.meta = p.v.meta
  BY <1>2, <1>5 DEF MotionVal, MotionOf
<1>7. ~p.wrong => Within("motion", w)
  BY <1>1, <1>5, <1>6 DEF Within, Fits
<1>8. ~p.wrong /\ ok => Full("motion", w)
  BY <1>1, <1>5, <1>6, MotionFull DEF Fits
<1> HIDE DEF w
<1>9. /\ r \in Parsers(MotionVal) /\ Reads(p, r) /\ r.v = w /\ r.metas = p.metas
      /\ ~r.wrong => ~p.wrong
  BY <1>1, <1>6, PutIs
<1> HIDE DEF r
<1>10. Reads(p0, r)
  BY <1>1, <1>9, ReadsBoth
<1> QED BY <1>1, <1>3, <1>6, <1>7, <1>8, <1>9, <1>10, ValsAre DEF ReadingOf, HasMeta

LEMMA CurveReadIs ==
  ASSUME NEW U, NEW p0 \in Parsers(U), NEW ok \in BOOLEAN, NEW p \in ReadingOf("motion", p0, ok),
         NEW d \in Int, NEW r \in ReadingOf("curve", p, ok)
  PROVE  CurveRead(p.v, r, d) \in ReadingOf("motion", p0, ok)
<1> DEFINE z == [r EXCEPT !.v = p.v]
           slot == Own(r.v)
<1>1. p \in Parsers(MotionVal) /\ r \in Parsers(CurveVal) /\ Reads(p, r)
  BY ValsAre DEF ReadingOf
<1>2. z \in ReadingOf("motion", p0, ok) /\ z.wrong = r.wrong
  BY <1>1, KindsAre, BackTo
<1>3. r.v \in CurveVal
  BY <1>1, ParserHas
<1>4. slot \in OwnSlot(CurveVal) /\ slot.at = "own" /\ slot.own = r.v
  BY <1>3 DEF Own, OwnSlot
<1>5. ~r.wrong /\ ok => Garbage \notin Range(r.v.pts)
  BY ValsAre DEF ReadingOf, Full, Values
<1>6. CurveRead(p.v, r, d) = IF Going(r) THEN AppendCurve(z, slot, d) ELSE z
  BY DEF CurveRead
<1> HIDE DEF z, slot
<1>7. Fits(z, slot, ok)
  BY <1>2, <1>4, <1>5 DEF Fits
<1>8. AppendCurve(z, slot, d) \in ReadingOf("motion", p0, ok)
  BY <1>2, <1>4, <1>7, AppendCurveIs
<1> QED BY <1>2, <1>6, <1>8


LEMMA ItemsStay ==
  ASSUME NEW U, NEW V, NEW p \in Parsers(U), NEW q \in Parsers(V), Moves(p, q),
         NEW ok \in BOOLEAN, NEW ok2 \in BOOLEAN, ok2 => ok, ItemsHold(p, ok)
  PROVE  ItemsHold(q, ok2)
<1>1. /\ Len(p.metas) <= Len(q.metas) /\ (~q.wrong => ~p.wrong)
      /\ Len(p.metas) \in Nat /\ Len(q.metas) \in Nat
  BY ParserHas DEF Moves
<1>2. ASSUME NEW k \in AllKinds, NEW i \in DOMAIN info[k], HasMeta(k)
      PROVE  info[k][i].meta <= Len(q.metas)
  <2>1. info[k][i].meta <= Len(p.metas)
    BY <1>2 DEF ItemsHold
  <2>2. info[k][i] \in Val(k)
    BY DEF ItemsHold, Tables
  <2>3. info[k][i].meta \in Nat
    BY <1>2, <2>2, KindsAre DEF HasMeta, Val, StyleVal, RegionVal, MotionVal, MotionOf, PaletteVal, BitmapVal
  <2> QED BY <1>1, <2>1, <2>3
<1> QED BY <1>1, <1>2 DEF ItemsHold

LEMMA ErrIfReads ==
  ASSUME NEW kind, NEW U, NEW p0 \in Parsers(U), NEW ok \in BOOLEAN, NEW p \in ReadingOf(kind, p0, ok),
         NEW c
  PROVE  ErrIf(c, p) \in ReadingOf(kind, p0, ok)
<1>1. CASE c
  BY <1>1, ErrReads DEF ErrIf
<1>2. CASE ~c
  BY <1>2 DEF ErrIf
<1> QED BY <1>1, <1>2

LEMMA CrashReads ==
  ASSUME NEW kind, NEW U, NEW p0 \in Parsers(U), NEW ok \in BOOLEAN, NEW p \in ReadingOf(kind, p0, ok),
         p.wrong
  PROVE  Crashed(p) \in ReadingOf(kind, p0, ok)
<1>1. p \in Parsers(Val(kind))
  BY DEF ReadingOf
<1> QED BY <1>1, CrashedIs, WrongReads

LEMMA CurveGivenIs ==
  ASSUME NEW U, NEW p0 \in Parsers(U), NEW ok \in BOOLEAN, ItemsHold(p0, ok),
         NEW p \in ReadingOf("motion", p0, ok), NEW s \in MotionForm, s.set = "curve",
         ok => ~Loose(s.body)
  PROVE  CurveGiven(p, s) \in ReadingOf("motion", p0, ok)
<1> DEFINE derives == s.ref # NoRef
           c == derives /\ Missing("curve", s.ref)
           q == ErrIf(c, p)
           z == [q EXCEPT !.v = IF derives THEN Item("curve", s.ref) ELSE Curve0]
           RO == ReadingOf("motion", p0, ok)
<1>1. s.ref \in Reference /\ s.braces \in BOOLEAN /\ s.body \in Seq(CurveForm) /\ s.for \in Int
  BY DEF MotionForm, MetaForm
<1>2. p \in Parsers(MotionVal) /\ Reads(p0, p)
  BY ValsAre DEF ReadingOf
<1> HIDE DEF c
<1>3. /\ q \in Parsers(MotionVal) /\ Reads(p, q) /\ (~q.wrong => ~c /\ ~p.wrong)
      /\ q.v = p.v
  BY <1>2, ErrIfIs
<1>4. q \in RO
  BY ErrIfReads
<1>5. Tables
  BY DEF ItemsHold
<1> HIDE DEF q
<1>6. ItemsHold(q, ok)
  <2>1. Reads(p0, q)
    BY <1>2, <1>3, ReadsBoth
  <2>2. Moves(p0, q)
    BY <2>1 DEF Reads
  <2> QED BY <1>3, <2>2, ItemsStay
<1>7. /\ derives /\ OutOf("curve", s.ref) =>
           CurveGiven(p, s) = IF s.braces THEN Crashed(q) ELSE Ended(q, "exited")
      /\ derives /\ ~OutOf("curve", s.ref) /\ ~s.braces =>
           CurveGiven(p, s) = AppendCurve(q, InInfo(Found("curve", s.ref)), s.for)
      /\ ~derives \/ (derives /\ ~OutOf("curve", s.ref) /\ s.braces) =>
           CurveGiven(p, s) = Ended(q, "exited") \/ CurveGiven(p, s) = CurveRead(p.v, CurveBody(z, s.body), s.for)
  BY <1>1 DEF CurveGiven, q, c
<1>8. CASE derives /\ OutOf("curve", s.ref)
  <2>1. q.wrong
    <3>1. c
      BY <1>1, <1>5, <1>8, FoundIs, KindsAre DEF c
    <3> QED BY <1>3, <3>1, ParserHas
  <2>2. Crashed(q) \in RO /\ Ended(q, "exited") \in RO
    BY <1>4, <2>1, CrashReads, ErrReads
  <2> QED BY <1>7, <1>8, <2>2
<1>9. CASE derives /\ ~OutOf("curve", s.ref) /\ ~s.braces
  <2> DEFINE i == Found("curve", s.ref)
             slot == InInfo(i)
  <2>1. i \in Int /\ (~Missing("curve", s.ref) => InTable("curve", i))
    BY <1>1, <1>5, FoundIs, KindsAre
  <2> HIDE DEF i
  <2>2. slot \in InfoSlot /\ slot.at = "info" /\ slot.index = i
    BY <2>1 DEF InInfo, InfoSlot
  <2>3. Fits(q, slot, ok)
    BY <1>3, <1>9, <2>1, <2>2 DEF Fits, c
  <2> HIDE DEF slot
  <2>4. AppendCurve(q, slot, s.for) \in RO
    BY <1>1, <1>4, <2>2, <2>3, AppendCurveIs
  <2> QED BY <1>7, <1>9, <2>4 DEF slot, i
<1>10. CASE ~derives \/ (derives /\ ~OutOf("curve", s.ref) /\ s.braces)
  <2>1. z \in ReadingOf("curve", q, ok)
    <3>1. Reads(q, q)
      BY <1>3, ReadsItself
    <3>2. CASE derives
      BY <1>1, <1>3, <1>6, <1>10, <3>1, <3>2, ItemIs, KindsAre
    <3>3. CASE ~derives
      <4>1. Initial("curve") = Curve0
        BY DEF Initial
      <4>2. [q EXCEPT !.v = Initial("curve")] \in ReadingOf("curve", q, ok)
        BY <1>3, <3>1, InitialIs, KindsAre
      <4> QED BY <3>3, <4>1, <4>2
    <3> QED BY <3>2, <3>3
  <2> HIDE DEF z
  <2>2. CurveBody(z, s.body) \in ReadingOf("curve", q, ok)
    BY <1>1, <1>3, <2>1, CurveBodyIs
  <2>3. CurveRead(q.v, CurveBody(z, s.body), s.for) \in RO
    BY <1>1, <1>4, <2>2, CurveReadIs
  <2>4. Ended(q, "exited") \in RO
    BY <1>4, ErrReads
  <2> QED BY <1>3, <1>7, <1>10, <2>3, <2>4
<1> QED BY <1>1, <1>8, <1>9, <1>10

LEMMA MotionSetIs ==
  ASSUME NEW U, NEW p0 \in Parsers(U), NEW ok \in BOOLEAN, ItemsHold(p0, ok),
         NEW p \in ReadingOf("motion", p0, ok), NEW s \in MotionForm, s.set # "meta",
         ok /\ s.set = "curve" => ~Loose(s.body)
  PROVE  MotionSet(p, s) \in ReadingOf("motion", p0, ok)
<1>1. p \in Parsers(MotionVal)
  BY ValsAre DEF ReadingOf
<1>2. p.v \in MotionVal /\ p = ErrIf(FALSE, p)
  BY <1>1, ParserHas DEF ErrIf
<1>3. ASSUME NEW w \in MotionVal, w.curves = p.v.curves, w.meta = p.v.meta, MotionSet(p, s) = Put(FALSE, p, w)
      PROVE  MotionSet(p, s) \in ReadingOf("motion", p0, ok)
  <2>1. (Within("motion", p.v) => Within("motion", w)) /\ (Full("motion", p.v) => Full("motion", w))
    BY <1>3, MotionFull DEF Within
  <2>2. Puts("motion", p, MotionSet(p, s))
    BY <1>3, <2>1, ValsAre DEF Puts
  <2> QED BY <2>2, PutsReads
<1>4. CASE s.set = "semantics"
  <2> DEFINE w == [p.v EXCEPT !.semantics = s.name]
  <2>1. s.name \in Word
    BY <1>4, Strings DEF MotionForm, MetaForm
  <2>2. w \in MotionVal /\ w.curves = p.v.curves /\ w.meta = p.v.meta
    BY <1>2, <2>1 DEF MotionVal, MotionOf
  <2>3. MotionSet(p, s) = Err(p) \/ MotionSet(p, s) = Put(FALSE, p, w)
    BY <1>2, <1>4 DEF MotionSet, Put
  <2> HIDE DEF w
  <2> QED BY <1>3, <2>2, <2>3, ErrReads
<1>5. CASE s.set = "periodic"
  <2> DEFINE w == [p.v EXCEPT !.periodic = TRUE]
  <2>2. w \in MotionVal /\ w.curves = p.v.curves /\ w.meta = p.v.meta
    BY <1>2 DEF MotionVal, MotionOf
  <2>3. MotionSet(p, s) = Put(FALSE, p, w)
    BY <1>2, <1>5 DEF MotionSet, Put
  <2> HIDE DEF w
  <2> QED BY <1>3, <2>2, <2>3
<1>6. CASE s.set = "mapping"
  <2> DEFINE w == [p.v EXCEPT !.x = s.name, !.y = s.name2]
  <2>1. s.name \in Word /\ s.name2 \in Word
    BY <1>6, Strings DEF MotionForm, MetaForm
  <2>2. w \in MotionVal /\ w.curves = p.v.curves /\ w.meta = p.v.meta
    BY <1>2, <2>1 DEF MotionVal, MotionOf
  <2>3. MotionSet(p, s) = Put(FALSE, p, w)
    BY <1>1, <1>2, <1>6 DEF MotionSet, Put, Parsers, MotionVal, MotionOf
  <2> HIDE DEF w
  <2> QED BY <1>3, <2>2, <2>3
<1>7. CASE s.set = "curve"
  <2>1. MotionSet(p, s) = CurveGiven(p, s)
    BY <1>7 DEF MotionSet
  <2> QED BY <1>7, <2>1, CurveGivenIs
<1>8. s.set \in {"semantics", "periodic", "mapping", "curve"}
  BY DEF MotionForm, MetaForm
<1> QED BY <1>4, <1>5, <1>6, <1>7, <1>8

-----------------------------------------------------------------------------
(* An item, from its first setting to the checks at its end.                 *)

Form(kind) ==
  CASE kind = "style" -> StyleForm [] kind = "region" -> RegionForm [] kind = "curve" -> CurveForm
    [] kind = "motion" -> MotionForm [] kind = "palette" -> PaletteForm
    [] kind = "bitmap" -> BitmapForm [] kind = "range" -> RangeForm [] OTHER -> MappingForm

LEMMA FormsAre ==
  /\ Form("style") = StyleForm /\ Form("region") = RegionForm /\ Form("curve") = CurveForm
  /\ Form("motion") = MotionForm /\ Form("palette") = PaletteForm /\ Form("bitmap") = BitmapForm
  /\ Form("range") = RangeForm /\ Form("mapping") = MappingForm
BY DEF Form

(* A body that the grammar has, and whose points are all said.               *)
Said1(kind, ok, s) ==
  /\ s.set = "meta" => kind \notin {"palette", "motion"}
  /\ ok /\ kind = "motion" /\ s.set = "curve" => ~Loose(s.body)
Says(kind, ok, body) ==
  /\ body \in Seq(Form(kind))
  /\ kind # "curve" => \A i \in 1 .. Len(body) : Said1(kind, ok, body[i])
  /\ kind = "curve" /\ ok => ~Loose(body)

LEMMA SettingIs ==
  ASSUME NEW U, NEW p0 \in Parsers(U), NEW ok \in BOOLEAN, ItemsHold(p0, ok),
         NEW kind \in AllKinds \ {"curve"},
         NEW p \in ReadingOf(kind, p0, ok), NEW s \in Form(kind), Said1(kind, ok, s)
  PROVE  Setting(kind, p, s) \in ReadingOf(kind, p0, ok)
<1> DEFINE RO == ReadingOf(kind, p0, ok)
<1>1. p \in Parsers(Val(kind)) /\ Tables
  BY DEF ReadingOf, ItemsHold
<1>2. ASSUME NEW r, Puts(kind, p, r) PROVE r \in RO
  BY <1>2, PutsReads
<1>3. Err(p) \in RO
  BY ErrReads
<1>4. ASSUME kind \in {"style", "region", "bitmap"}, s.set = "meta" PROVE AddMeta(p, s.leaf) \in RO
  <2>1. s.leaf \in [tag : STRING, value : STRING]
    <3>1. CASE kind = "style"
      BY <1>4, <3>1, FormsAre DEF StyleForm, MetaForm
    <3>2. CASE kind = "region"
      BY <1>4, <3>2, FormsAre DEF RegionForm, MetaForm
    <3>3. CASE kind = "bitmap"
      BY <1>4, <3>3, FormsAre DEF BitmapForm, MetaForm
    <3> QED BY <1>4, <3>1, <3>2, <3>3
  <2> QED BY <1>4, <2>1, AddMetaIs
<1> SUFFICES Setting(kind, p, s) \in RO
  OBVIOUS
<1> HIDE DEF RO
<1>5. CASE kind = "style"
  <2>1. Setting(kind, p, s) = StyleSet(p, s) /\ p \in Parsers(StyleVal) /\ s \in StyleForm
    BY <1>1, <1>5, FormsAre, ValsAre DEF Setting
  <2>2. CASE s.set = "meta"
    <3>1. StyleSet(p, s) = AddMeta(p, s.leaf)
      BY <2>2 DEF StyleSet
    <3> QED BY <1>4, <1>5, <2>1, <2>2, <3>1
  <2>3. CASE s.set # "meta"
    BY <1>2, <1>3, <1>5, <2>1, <2>3, StyleSetIs
  <2> QED BY <2>2, <2>3
<1>6. CASE kind = "region"
  <2>1. Setting(kind, p, s) = RegionSet(p, s) /\ p \in Parsers(RegionVal) /\ s \in RegionForm
    BY <1>1, <1>6, FormsAre, ValsAre DEF Setting
  <2>2. CASE s.set = "meta"
    <3>1. RegionSet(p, s) = AddMeta(p, s.leaf)
      BY <2>2 DEF RegionSet
    <3> QED BY <1>4, <1>6, <2>1, <2>2, <3>1
  <2>3. CASE s.set # "meta"
    BY <1>1, <1>2, <1>6, <2>1, <2>3, RegionSetIs
  <2> QED BY <2>2, <2>3
<1>7. CASE kind = "bitmap"
  <2>1. Setting(kind, p, s) = BitmapSet(p, s) /\ p \in Parsers(BitmapVal) /\ s \in BitmapForm
    BY <1>1, <1>7, FormsAre, ValsAre DEF Setting
  <2>2. CASE s.set = "meta"
    <3>1. BitmapSet(p, s) = AddMeta(p, s.leaf)
      BY <2>2 DEF BitmapSet
    <3> QED BY <1>4, <1>7, <2>1, <2>2, <3>1
  <2>3. CASE s.set # "meta"
    BY <1>1, <1>2, <1>7, <2>1, <2>3, BitmapSetIs
  <2> QED BY <2>2, <2>3
<1>8. CASE kind = "palette"
  <2>1. Setting(kind, p, s) = PaletteSet(p, s) /\ p \in Parsers(PaletteVal) /\ s \in PaletteForm
    BY <1>1, <1>8, FormsAre, ValsAre DEF Setting
  <2>2. s.set # "meta"
    BY <1>8 DEF Said1
  <2> QED BY <1>2, <1>8, <2>1, <2>2, PaletteSetIs
<1>9. CASE kind = "motion"
  <2>1. Setting(kind, p, s) = MotionSet(p, s) /\ s \in MotionForm
    BY <1>9, FormsAre DEF Setting
  <2>2. s.set # "meta" /\ (ok /\ s.set = "curve" => ~Loose(s.body))
    BY <1>9 DEF Said1
  <2>3. MotionSet(p, s) \in ReadingOf("motion", p0, ok)
    BY <1>9, <2>1, <2>2, MotionSetIs
  <2> QED BY <1>9, <2>1, <2>3 DEF RO
<1>10. CASE kind = "range"
  <2>1. Setting(kind, p, s) = RangeSet(p, s) /\ p \in Parsers(RangeVal) /\ s \in RangeForm
    BY <1>1, <1>10, FormsAre, ValsAre DEF Setting
  <2> QED BY <1>1, <1>2, <1>10, <2>1, RangeSetIs
<1>11. CASE kind = "mapping"
  <2>1. Setting(kind, p, s) = MappingSet(p, s) /\ s \in MappingForm
    BY <1>11, FormsAre DEF Setting
  <2>2. MappingSet(p, s) \in ReadingOf("mapping", p0, ok)
    BY <1>1, <1>11, <2>1, MappingSetIs
  <2> QED BY <1>11, <2>1, <2>2 DEF RO
<1> QED BY <1>5, <1>6, <1>7, <1>8, <1>9, <1>10, <1>11, KindsAre DEF RO

LEMMA ItemBodyIs ==
  ASSUME NEW U, NEW p0 \in Parsers(U), NEW ok \in BOOLEAN, ItemsHold(p0, ok),
         NEW kind \in AllKinds, NEW p \in ReadingOf(kind, p0, ok), NEW body, Says(kind, ok, body)
  PROVE  ItemBody(kind, p, body) \in ReadingOf(kind, p0, ok)
<1>0. body \in Seq(Form(kind)) /\ Len(body) \in Nat /\ \A k \in 1 .. Len(body) : body[k] \in Form(kind)
  BY DEF Says
<1>1. CASE kind = "curve"
  <2> DEFINE S == Parsers(CurveVal)
  <2>1. p \in S /\ body \in Seq(CurveForm) /\ (ok => ~Loose(body))
    BY <1>0, <1>1, FormsAre, ValsAre DEF ReadingOf, Says
  <2>2. \A q \in S : \A k \in 1 .. Len(body) : ItemStep("curve", q, body[k]) \in S
    <3> SUFFICES ASSUME NEW q \in S, NEW k \in 1 .. Len(body) PROVE ItemStep("curve", q, body[k]) \in S
      OBVIOUS
    <3>1. ItemStep("curve", q, body[k]) = CurveStep(q, body[k])
      BY DEF ItemStep, CurveStep, Setting
    <3>2. body[k] \in CurveForm
      BY <2>1
    <3> QED BY <3>1, <3>2, CurveStepIs
  <2> HIDE DEF S
  <2>3. ItemBodyStays(S, CurveForm, p, "curve", body)
    BY <2>1, <2>2 DEF ItemBodyStays
  <2>4. PICK at \in [0 .. Len(body) -> S] :
          /\ at[0] = p /\ ItemBody("curve", p, body) = at[Len(body)]
          /\ \A k \in 1 .. Len(body) : at[k] = ItemStep("curve", at[k - 1], body[k])
    BY <2>3, ItemBodyGoes
  <2>5. at \in [0 .. Len(body) -> Parsers(CurveVal)]
    BY DEF S
  <2>6. CurveRuns(at, body)
    BY <2>4 DEF CurveRuns, ItemStep, CurveStep, Setting
  <2>7. at[0] \in ReadingOf("curve", p0, ok)
    BY <1>1, <2>4
  <2>8. at[Len(body)] \in ReadingOf("curve", p0, ok)
    BY <2>1, <2>5, <2>6, <2>7, CurveRunIs
  <2> QED BY <1>1, <2>4, <2>8
<1>2. CASE kind # "curve"
  <2> DEFINE S == ReadingOf(kind, p0, ok)
  <2>1. ASSUME NEW q \in S, NEW k \in 1 .. Len(body) PROVE ItemStep(kind, q, body[k]) \in S
    <3>1. body[k] \in Form(kind) /\ Said1(kind, ok, body[k])
      BY <1>0, <1>2 DEF Says
    <3>2. Setting(kind, q, body[k]) \in S
      BY <1>2, <3>1, SettingIs
    <3> QED BY <3>2 DEF ItemStep
  <2>2. p \in S
    OBVIOUS
  <2> HIDE DEF S
  <2>3. ItemBodyStays(S, Form(kind), p, kind, body)
    BY <1>0, <2>1, <2>2 DEF ItemBodyStays
  <2>4. PICK at \in [0 .. Len(body) -> S] : ItemBody(kind, p, body) = at[Len(body)]
    BY <2>3, ItemBodyGoes
  <2>5. Len(body) \in 0 .. Len(body)
    BY <1>0
  <2> QED BY <2>4, <2>5 DEF S
<1> QED BY <1>1, <1>2

Aside(p, q) ==
  /\ q.heights = p.heights /\ q.timebase = p.timebase /\ q.comments = p.comments
  /\ q.event = p.event /\ q.pending = p.pending
ItemOf(kind, p0, ok) ==
  {q \in Parsers(Val(kind)) :
     /\ Moves(p0, q) /\ Aside(p0, q)
     /\ HasMeta(kind) => q.v.meta <= Len(q.metas)
     /\ ~q.wrong => Within(kind, q.v)
     /\ ~q.wrong /\ ok => Full(kind, q.v)
     /\ q.kregion = IF kind = "region" THEN q.v ELSE p0.kregion
     /\ q.kstyle = IF kind = "style" THEN q.v ELSE p0.kstyle}

LEMMA KeptIs ==
  ASSUME NEW U, NEW p0 \in Parsers(U), NEW ok \in BOOLEAN, NEW kind \in AllKinds,
         NEW p \in ReadingOf(kind, p0, ok), ~p.wrong => Within(kind, p.v)
  PROVE  Kept(kind, p) \in ItemOf(kind, p0, ok)
<1>1. p \in Parsers(Val(kind)) /\ Reads(p0, p)
  BY DEF ReadingOf
<1>2. CASE kind = "style"
  <2> DEFINE r == [p EXCEPT !.kstyle = p.v]
  <2>1. p.v \in StyleVal
    BY <1>1, <1>2, ValsAre, ParserHas
  <2>2. r \in Parsers(Val(kind))
    BY <1>1, <2>1 DEF Parsers
  <2>3. /\ r.wrong = p.wrong /\ r.metas = p.metas /\ r.phase = p.phase /\ r.v = p.v
        /\ r.kstyle = p.v /\ r.kregion = p.kregion /\ Aside(p, r)
    BY <1>1 DEF Parsers, Aside
  <2>4. Kept(kind, p) = r
    BY <1>2 DEF Kept
  <2> HIDE DEF r
  <2>5. Moves(p0, r) /\ Aside(p0, r) /\ r.kregion = p0.kregion
    BY <1>1, <2>3 DEF Reads, Moves, Aside
  <2> QED BY <1>2, <2>2, <2>3, <2>4, <2>5 DEF ItemOf, ReadingOf
<1>3. CASE kind = "region"
  <2> DEFINE r == [p EXCEPT !.kregion = p.v]
  <2>1. p.v \in RegionVal
    BY <1>1, <1>3, ValsAre, ParserHas
  <2>2. r \in Parsers(Val(kind))
    BY <1>1, <2>1 DEF Parsers
  <2>3. /\ r.wrong = p.wrong /\ r.metas = p.metas /\ r.phase = p.phase /\ r.v = p.v
        /\ r.kregion = p.v /\ r.kstyle = p.kstyle /\ Aside(p, r)
    BY <1>1 DEF Parsers, Aside
  <2>4. Kept(kind, p) = r
    BY <1>3 DEF Kept
  <2> HIDE DEF r
  <2>5. Moves(p0, r) /\ Aside(p0, r) /\ r.kstyle = p0.kstyle
    BY <1>1, <2>3 DEF Reads, Moves, Aside
  <2> QED BY <1>3, <2>2, <2>3, <2>4, <2>5 DEF ItemOf, ReadingOf
<1>4. CASE kind \notin {"style", "region"}
  <2>1. Kept(kind, p) = p
    BY <1>4 DEF Kept
  <2>2. Moves(p0, p) /\ Aside(p0, p) /\ p.kregion = p0.kregion /\ p.kstyle = p0.kstyle
    BY <1>1 DEF Reads, Aside
  <2> QED BY <1>4, <2>1, <2>2 DEF ItemOf, ReadingOf
<1> QED BY <1>2, <1>3, <1>4

LEMMA ItemFromIs ==
  ASSUME NEW U, NEW V, NEW p0 \in Parsers(U), NEW ok \in BOOLEAN, ItemsHold(p0, ok), Going(p0),
         NEW kind \in AllKinds, NEW q, NEW v, [q EXCEPT !.v = v] \in ReadingOf(kind, p0, ok),
         NEW body, Says(kind, ok, body)
  PROVE  ItemFrom(kind, q, v, body) \in ItemOf(kind, p0, ok)
<1> DEFINE z == [q EXCEPT !.v = v]
           b == ItemBody(kind, z, body)
           c == Going(b) /\ ItemWrong(kind, b.v)
           e == ErrIf(c, b)
<1> HIDE DEF z
<1>1. b \in ReadingOf(kind, p0, ok)
  BY ItemBodyIs DEF z
<1> HIDE DEF b
<1>2. e \in ReadingOf(kind, p0, ok)
  BY <1>1, ErrIfReads
<1>3. b \in Parsers(Val(kind)) /\ Reads(p0, b)
  BY <1>1 DEF ReadingOf
<1>4. ItemFrom(kind, q, v, body) = Kept(kind, e)
  BY DEF ItemFrom, Checked, e, c, b, z
<1>5. ASSUME ~e.wrong PROVE Within(kind, e.v)
  <2>1. CASE kind # "range"
    BY <1>2, <1>5, <2>1 DEF ReadingOf
  <2>2. CASE kind = "range"
    <3> HIDE DEF c
    <3>1. ~c /\ ~b.wrong /\ e.v = b.v
      BY <1>3, <1>5, ErrIfIs
    <3>2. Going(b)
      BY <1>3, <3>1 DEF Reads, Moves, Going
    <3>3. ~RangeWrong(b.v)
      BY <2>2, <3>1, <3>2 DEF c, ItemWrong
    <3>4. b.v \in RangeVal
      BY <1>3, <2>2, ValsAre, ParserHas
    <3>5. b.v.first <= b.v.last
      BY <3>3, <3>4 DEF RangeWrong, RangeVal
    <3> QED BY <2>2, <3>1, <3>5 DEF Within
  <2> QED BY <2>1, <2>2
<1> HIDE DEF e
<1>6. Kept(kind, e) \in ItemOf(kind, p0, ok)
  BY <1>2, <1>5, KeptIs
<1> QED BY <1>4, <1>6

-----------------------------------------------------------------------------
(* A statement of an event: what it leaves in the parser.                    *)

(* An override refers to an item of the headers, or has its own, whose       *)
(* values are set, and which is not freed.                                   *)
SlotFits(kind, slot, ok) ==
  /\ slot.at = "info" => InTable(kind, slot.index)
  /\ slot.at \in {"own", "local"} => Within(kind, slot.own) /\ (ok => Full(kind, slot.own))
  /\ slot.at = "local" => ~slot.freed
PendingFits(pending, ok) ==
  /\ \A s \in Slots : SlotFits(KindOf(s), pending[s], ok)
  /\ SlotFits("mapping", pending.mapping, ok)
  /\ \A i \in DOMAIN pending.bitmaps : SlotFits("bitmap", pending.bitmaps[i], ok)
  /\ \A i \in DOMAIN pending.motions : SlotFits("motion", pending.motions[i], ok)
Fine(p, ok) ==
  /\ p.phase = "crashed" => p.wrong
  /\ ~p.wrong => Within("region", p.kregion) /\ PendingFits(p.pending, ok)
Steps(V, p0, ok) == {q \in Parsers(V) : Moves(p0, q) /\ Fine(q, ok)}

SlotTypes(slot) ==
  CASE slot = "palette" -> InfoSlot \cup OwnSlot(PaletteVal)
    [] slot = "bitmap" -> InfoSlot \cup OwnSlot(BitmapVal)
    [] OTHER -> InfoSlot \cup StaticSlot

LEMMA MovesBoth ==
  ASSUME NEW U, NEW V, NEW W, NEW p \in Parsers(U), NEW q \in Parsers(V), NEW r \in Parsers(W),
         Moves(p, q), Moves(q, r)
  PROVE  Moves(p, r)
<1>1. Len(p.metas) \in Nat /\ Len(q.metas) \in Nat /\ Len(r.metas) \in Nat
  BY ParserHas
<1> QED BY <1>1 DEF Moves

LEMMA ReadSteps ==
  ASSUME NEW U, NEW V, NEW W, NEW p0 \in Parsers(U), NEW ok \in BOOLEAN, NEW p \in Steps(V, p0, ok),
         NEW q \in Parsers(W), Reads(p, q), q.phase = "crashed" => q.wrong
  PROVE  q \in Steps(W, p0, ok)
<1>1. p \in Parsers(V) /\ Moves(p0, p) /\ Fine(p, ok)
  BY DEF Steps
<1>2. Moves(p0, q)
  BY <1>1, MovesBoth DEF Reads
<1>3. Fine(q, ok)
  BY <1>1 DEF Fine, Reads, Moves
<1> QED BY <1>2, <1>3 DEF Steps

LEMMA ErrSteps ==
  ASSUME NEW U, NEW V, NEW p0 \in Parsers(U), NEW ok \in BOOLEAN, NEW p \in Steps(V, p0, ok)
  PROVE  /\ Err(p) \in Steps(V, p0, ok)
         /\ \A c : ErrIf(c, p) \in Steps(V, p0, ok)
         /\ \A phase \in {"stopped", "exited"} : Ended(p, phase) \in Steps(V, p0, ok)
         /\ p.wrong => Crashed(p) \in Steps(V, p0, ok)
<1>1. p \in Parsers(V)
  BY DEF Steps
<1>2. Err(p) \in Steps(V, p0, ok)
  BY <1>1, ErrIs, ReadSteps
<1>3. ASSUME NEW c PROVE ErrIf(c, p) \in Steps(V, p0, ok)
  BY <1>2 DEF ErrIf
<1>4. ASSUME NEW phase \in {"stopped", "exited"} PROVE Ended(p, phase) \in Steps(V, p0, ok)
  BY <1>1, EndedIs, ReadSteps
<1>5. ASSUME p.wrong PROVE Crashed(p) \in Steps(V, p0, ok)
  BY <1>1, <1>5, CrashedIs, ReadSteps
<1> QED BY <1>2, <1>3, <1>4, <1>5

LEMMA ValueSteps ==
  ASSUME NEW U, NEW V, NEW W, NEW p0 \in Parsers(U), NEW ok \in BOOLEAN, NEW p \in Steps(V, p0, ok),
         NEW w \in W
  PROVE  [p EXCEPT !.v = w] \in Steps(W, p0, ok)
<1> DEFINE q == [p EXCEPT !.v = w]
<1>1. p \in Parsers(V) /\ Fine(p, ok)
  BY DEF Steps
<1>2. q \in Parsers(W) /\ Reads(p, q) /\ q.phase = p.phase /\ q.wrong = p.wrong
  BY <1>1, ValueIs
<1> HIDE DEF q
<1>3. q.phase = "crashed" => q.wrong
  BY <1>1, <1>2 DEF Fine
<1>4. q \in Steps(W, p0, ok)
  BY <1>2, <1>3, ReadSteps
<1> QED BY <1>4 DEF q

LEMMA PendingSteps ==
  ASSUME NEW U, NEW V, NEW p0 \in Parsers(U), NEW ok \in BOOLEAN, NEW p \in Steps(V, p0, ok),
         NEW w \in PendingOf, ~p.wrong => PendingFits(w, ok)
  PROVE  [p EXCEPT !.pending = w] \in Steps(V, p0, ok)
<1> DEFINE q == [p EXCEPT !.pending = w]
<1>1. p \in Parsers(V) /\ Fine(p, ok) /\ Moves(p0, p)
  BY DEF Steps
<1>2. /\ q \in Parsers(V) /\ q.phase = p.phase /\ q.wrong = p.wrong /\ q.pending = w
      /\ q.kregion = p.kregion /\ q.metas = p.metas
  BY <1>1 DEF Parsers
<1> HIDE DEF q
<1>3. Fine(q, ok)
  BY <1>1, <1>2 DEF Fine
<1>4. Moves(p0, q)
  BY <1>1, <1>2 DEF Moves
<1>5. q \in Steps(V, p0, ok)
  BY <1>2, <1>3, <1>4 DEF Steps
<1> QED BY <1>5 DEF q

LEMMA EventSteps ==
  ASSUME NEW U, NEW V, NEW p0 \in Parsers(U), NEW ok \in BOOLEAN, NEW p \in Steps(V, p0, ok),
         NEW w \in EventOf
  PROVE  [p EXCEPT !.event = w] \in Steps(V, p0, ok)
<1> DEFINE q == [p EXCEPT !.event = w]
<1>1. p \in Parsers(V) /\ Fine(p, ok) /\ Moves(p0, p)
  BY DEF Steps
<1>2. /\ q \in Parsers(V) /\ q.phase = p.phase /\ q.wrong = p.wrong /\ q.pending = p.pending
      /\ q.kregion = p.kregion /\ q.metas = p.metas
  BY <1>1 DEF Parsers
<1> HIDE DEF q
<1>3. Fine(q, ok)
  BY <1>1, <1>2 DEF Fine
<1>4. Moves(p0, q)
  BY <1>1, <1>2 DEF Moves
<1>5. q \in Steps(V, p0, ok)
  BY <1>2, <1>3, <1>4 DEF Steps
<1> QED BY <1>5 DEF q

LEMMA SlotTypesAre ==
  ASSUME NEW pending \in PendingOf, NEW slot \in Slots, NEW w \in SlotTypes(slot)
  PROVE  /\ pending[slot] \in SlotTypes(slot)
         /\ [pending EXCEPT ![slot] = w] \in PendingOf
         /\ \A s \in Slots : [pending EXCEPT ![slot] = w][s] = IF s = slot THEN w ELSE pending[s]
         /\ [pending EXCEPT ![slot] = w].mapping = pending.mapping
         /\ [pending EXCEPT ![slot] = w].bitmaps = pending.bitmaps
         /\ [pending EXCEPT ![slot] = w].motions = pending.motions
<1>1. CASE slot = "region"
  BY <1>1 DEF PendingOf, SlotTypes, Slots
<1>2. CASE slot = "style"
  BY <1>2 DEF PendingOf, SlotTypes, Slots
<1>3. CASE slot = "secondary"
  BY <1>3 DEF PendingOf, SlotTypes, Slots
<1>4. CASE slot = "palette"
  BY <1>4 DEF PendingOf, SlotTypes, Slots
<1>5. CASE slot = "bitmap"
  BY <1>5 DEF PendingOf, SlotTypes, Slots
<1> QED BY <1>1, <1>2, <1>3, <1>4, <1>5 DEF Slots

(* A slot that is marked as set, and then set.                               *)
Marked(p, slot) == [p EXCEPT !.event.set[slot] = TRUE]
Slotted(p, slot, w) == [Marked(p, slot) EXCEPT !.pending[slot] = w]
LEMMA SlotSteps ==
  ASSUME NEW U, NEW V, NEW p0 \in Parsers(U), NEW ok \in BOOLEAN, NEW p \in Steps(V, p0, ok),
         NEW slot \in Slots, NEW w \in SlotTypes(slot), ~p.wrong => SlotFits(KindOf(slot), w, ok)
  PROVE  /\ Marked(p, slot) \in Steps(V, p0, ok) /\ Marked(p, slot).wrong = p.wrong
         /\ Slotted(p, slot, w) \in Steps(V, p0, ok)
<1> DEFINE event == [p.event EXCEPT !.set[slot] = TRUE]
           q == [p EXCEPT !.event = event]
           pending == [p.pending EXCEPT ![slot] = w]
           r == [q EXCEPT !.pending = pending]
<1>1. p \in Parsers(V) /\ Fine(p, ok)
  BY DEF Steps
<1>2. p.event \in EventOf /\ p.pending \in PendingOf
  BY <1>1, ParserHas
<1>3. event \in EventOf
  BY <1>2 DEF EventOf
<1>4. Marked(p, slot) = q
  BY DEF Marked
<1> HIDE DEF event
<1>5. q \in Steps(V, p0, ok)
  BY <1>3, EventSteps
<1>6. q.wrong = p.wrong /\ q.pending = p.pending
  BY <1>1 DEF Parsers
<1>7. Slotted(p, slot, w) = r
  <2> HIDE DEF q
  <2> QED BY <1>4, <1>6 DEF Slotted
<1> HIDE DEF q
<1>8. /\ pending \in PendingOf
      /\ \A s \in Slots : pending[s] = IF s = slot THEN w ELSE p.pending[s]
      /\ pending.mapping = p.pending.mapping /\ pending.bitmaps = p.pending.bitmaps
      /\ pending.motions = p.pending.motions
  BY <1>2, SlotTypesAre
<1> HIDE DEF pending
<1>9. ~p.wrong => PendingFits(pending, ok)
  BY <1>1, <1>8 DEF Fine, PendingFits
<1>10. r \in Steps(V, p0, ok)
  BY <1>5, <1>6, <1>8, <1>9, PendingSteps
<1> QED BY <1>4, <1>5, <1>6, <1>7, <1>10

LEMMA SetIndexIs ==
  ASSUME NEW U, NEW V, NEW p0 \in Parsers(U), NEW ok \in BOOLEAN, NEW p \in Steps(V, p0, ok),
         NEW slot \in Slots, NEW i \in Int, ~p.wrong => InTable(KindOf(slot), i)
  PROVE  SetIndex(p, slot, KindOf(slot), i) \in Steps(V, p0, ok)
<1> DEFINE w == InInfo(i)
           q == Marked(p, slot)
           r == Slotted(p, slot, w)
<1>1. w \in SlotTypes(slot) /\ w.at = "info" /\ w.index = i
  BY DEF InInfo, SlotTypes, InfoSlot
<1>2. SetIndex(p, slot, KindOf(slot), i) \in {Err(p), Err(q), r}
  BY DEF SetIndex, Marked, Slotted
<1> HIDE DEF w
<1>3. ~p.wrong => SlotFits(KindOf(slot), w, ok)
  BY <1>1 DEF SlotFits
<1>4. q \in Steps(V, p0, ok) /\ r \in Steps(V, p0, ok)
  BY <1>1, <1>3, SlotSteps
<1> QED BY <1>2, <1>4, ErrSteps

LEMMA SetOwnIs ==
  ASSUME NEW U, NEW V, NEW p0 \in Parsers(U), NEW ok \in BOOLEAN, NEW p \in Steps(V, p0, ok),
         NEW slot \in Slots, NEW w \in SlotTypes(slot), ~p.wrong => SlotFits(KindOf(slot), w, ok)
  PROVE  SetOwn(p, slot, w) \in Steps(V, p0, ok)
<1> DEFINE q == Marked(p, slot)
           r == Slotted(p, slot, w)
<1>2. SetOwn(p, slot, w) \in {Err(p), Err(q), r}
  BY DEF SetOwn, Marked, Slotted
<1>4. q \in Steps(V, p0, ok) /\ r \in Steps(V, p0, ok)
  BY SlotSteps
<1> QED BY <1>2, <1>4, ErrSteps

LEMMA ItemSteps ==
  ASSUME NEW U, NEW p0 \in Parsers(U), NEW ok \in BOOLEAN, Going(p0), Fine(p0, ok),
         NEW kind, NEW p \in ItemOf(kind, p0, ok)
  PROVE  p \in Steps(Val(kind), p0, ok)
<1>1. p \in Parsers(Val(kind)) /\ Moves(p0, p) /\ p.pending = p0.pending
  BY DEF ItemOf, Aside
<1>2. p.phase = "crashed" => p.wrong
  BY <1>1 DEF Moves, Going
<1>3. ~p.wrong => Within("region", p.kregion)
  BY <1>1 DEF ItemOf, Fine, Moves
<1> QED BY <1>1, <1>2, <1>3 DEF Steps, Fine, Moves

(* Where a statement starts from, and what it may leave.                     *)
Starts(p0, ok) == p0 \in Parsers({<<>>}) /\ Going(p0) /\ ItemsHold(p0, ok) /\ Fine(p0, ok)
Leaves1(p0, r, ok) == \E V : r \in Steps(V, p0, ok)

LEMMA StartsItself ==
  ASSUME NEW p0, NEW ok \in BOOLEAN, Starts(p0, ok) PROVE p0 \in Steps({<<>>}, p0, ok)
<1>1. p0 \in Parsers({<<>>})
  BY DEF Starts
<1>2. Reads(p0, p0)
  BY <1>1, ReadsItself
<1> QED BY <1>1, <1>2 DEF Starts, Steps, Reads

LEMMA LeavesRead ==
  ASSUME NEW p0, NEW ok \in BOOLEAN, Starts(p0, ok), NEW r, Leaves1(p0, r, ok)
  PROVE  [r EXCEPT !.v = <<>>] \in Steps({<<>>}, p0, ok)
<1>1. PICK V : r \in Steps(V, p0, ok)
  BY DEF Leaves1
<1>2. <<>> \in {<<>>} /\ p0 \in Parsers({<<>>})
  BY DEF Starts
<1> QED BY <1>1, <1>2, ValueSteps

LEMMA FormlessIs == \A S : <<>> \in Seq(S)
OBVIOUS

LEMMA OwnReadIs ==
  ASSUME NEW p0, NEW ok \in BOOLEAN, Starts(p0, ok), NEW slot \in Slots,
         NEW p \in ItemOf(KindOf(slot), p0, ok)
  PROVE  Leaves1(p0, OwnRead(p, slot), ok)
<1> DEFINE kind == KindOf(slot)
           w == IF kind \in {"style", "region"} THEN Static(slot) ELSE Own(p.v)
<1>1. p0 \in Parsers({<<>>}) /\ Going(p0) /\ Fine(p0, ok)
  BY DEF Starts
<1>2. p \in Steps(Val(kind), p0, ok)
  BY <1>1, ItemSteps
<1>3. p.v \in Val(kind)
  BY <1>2, ParserHas DEF Steps
<1>4. ~p.wrong => Within(kind, p.v) /\ (ok => Full(kind, p.v))
  BY DEF ItemOf
<1>5. w \in SlotTypes(slot) /\ (~p.wrong => SlotFits(kind, w, ok))
  <2>1. CASE kind \in {"style", "region"}
    <3>1. w = Static(slot) /\ slot \in {"region", "style", "secondary"}
      BY <2>1 DEF KindOf, Slots
    <3> QED BY <3>1 DEF Static, SlotTypes, StaticSlot, SlotFits
  <2>2. CASE kind \notin {"style", "region"}
    <3>1. w = Own(p.v) /\ slot \in {"palette", "bitmap"} /\ kind = slot
      BY <2>2 DEF KindOf, Slots
    <3>2. w \in SlotTypes(slot)
      BY <1>3, <3>1, ValsAre DEF Own, SlotTypes, OwnSlot
    <3>3. w.at = "own" /\ w.own = p.v
      BY <3>1 DEF Own
    <3> QED BY <1>4, <3>2, <3>3 DEF SlotFits
  <2> QED BY <2>1, <2>2
<1>6. OwnRead(p, slot) = IF ~Going(p) THEN p ELSE SetOwn(p, slot, w)
  BY DEF OwnRead
<1> HIDE DEF w, kind
<1>7. SetOwn(p, slot, w) \in Steps(Val(kind), p0, ok)
  BY <1>1, <1>2, <1>5, SetOwnIs DEF kind
<1> QED BY <1>2, <1>6, <1>7 DEF Leaves1

LEMMA KindOfIs == ASSUME NEW slot \in Slots PROVE KindOf(slot) \in AllKinds
BY KindsAre DEF KindOf, Slots

LEMMA SlotReadIs ==
  ASSUME NEW p0, NEW ok \in BOOLEAN, Starts(p0, ok), NEW x, x.do \in Slots,
         x.ref # NoRef => x.ref \in Reference,
         Says(KindOf(x.do), ok, x.body)
  PROVE  Leaves1(p0, SlotRead(p0, x), ok)
<1> DEFINE slot == x.do
           ref == x.ref
           kind == KindOf(slot)
           derives == ref # NoRef
           c == derives /\ Missing(kind, ref)
           q == ErrIf(c, p0)
           z1 == ItemFrom(kind, q, Item(kind, ref), x.body)
           z2 == ItemFrom(kind, q, Initial(kind), x.body)
<1> HIDE DEF c
<1>1. p0 \in Parsers({<<>>}) /\ Going(p0) /\ Fine(p0, ok) /\ ItemsHold(p0, ok) /\ Tables
  BY DEF Starts, ItemsHold
<1>2. p0 \in Steps({<<>>}, p0, ok)
  BY StartsItself
<1>3. q \in Parsers({<<>>}) /\ Reads(p0, q) /\ (~q.wrong => ~c)
  BY <1>1, ErrIfIs
<1>4. q \in Steps({<<>>}, p0, ok)
  BY <1>1, <1>2, ErrSteps
<1>5. kind \in AllKinds
  BY KindOfIs
<1>6. SlotRead(p0, x) = CASE derives /\ ~x.braces -> SetIndex(q, slot, kind, Found(kind, ref))
                          [] derives /\ x.braces /\ OutOf(kind, ref) -> Crashed(q)
                          [] OTHER -> OwnRead(IF derives THEN z1 ELSE z2, slot)
  BY DEF SlotRead, c
<1> HIDE DEF q
<1>7. CASE derives /\ ~x.braces
  <2> DEFINE i == Found(kind, ref)
  <2>1. i \in Int /\ (~Missing(kind, ref) => InTable(kind, i))
    BY <1>1, <1>5, <1>7, FoundIs
  <2>2. SlotRead(p0, x) = SetIndex(q, slot, kind, i)
    BY <1>6, <1>7
  <2> HIDE DEF i
  <2>3. ~q.wrong => InTable(kind, i)
    BY <1>3, <1>7, <2>1 DEF c
  <2>4. SetIndex(q, slot, kind, i) \in Steps({<<>>}, p0, ok)
    BY <1>1, <1>4, <2>1, <2>3, SetIndexIs
  <2> QED BY <2>2, <2>4 DEF Leaves1
<1>8. CASE derives /\ x.braces /\ OutOf(kind, ref)
  <2>1. c
    BY <1>1, <1>5, <1>8, FoundIs DEF c
  <2>2. q.wrong
    BY <1>3, <2>1, ParserHas
  <2>3. Crashed(q) \in Steps({<<>>}, p0, ok)
    BY <1>1, <1>4, <2>2, ErrSteps
  <2> QED BY <1>6, <1>8, <2>3 DEF Leaves1
<1>9. CASE derives /\ x.braces /\ ~OutOf(kind, ref)
  <2>1. [q EXCEPT !.v = Item(kind, ref)] \in ReadingOf(kind, p0, ok)
    BY <1>1, <1>3, <1>5, <1>9, ItemIs
  <2>2. z1 \in ItemOf(kind, p0, ok)
    BY <1>1, <1>5, <2>1, ItemFromIs
  <2>3. SlotRead(p0, x) = OwnRead(z1, slot)
    BY <1>6, <1>9
  <2> HIDE DEF z1
  <2> QED BY <2>2, <2>3, OwnReadIs
<1>10. CASE ~derives
  <2>1. [q EXCEPT !.v = Initial(kind)] \in ReadingOf(kind, p0, ok)
    BY <1>1, <1>3, <1>5, InitialIs
  <2>2. z2 \in ItemOf(kind, p0, ok)
    BY <1>1, <1>5, <2>1, ItemFromIs
  <2>3. SlotRead(p0, x) = OwnRead(z2, slot)
    BY <1>6, <1>10
  <2> HIDE DEF z2
  <2> QED BY <2>2, <2>3, OwnReadIs
<1> QED BY <1>7, <1>8, <1>9, <1>10

LEMMA AddBitmapIs ==
  ASSUME NEW U, NEW V, NEW p0 \in Parsers(U), NEW ok \in BOOLEAN, NEW p \in Steps(V, p0, ok),
         NEW slot \in InfoSlot \cup LocalSlot, ~p.wrong => SlotFits("bitmap", slot, ok)
  PROVE  AddBitmap(p, slot) \in Steps(V, p0, ok)
<1> DEFINE list == Append(p.pending.bitmaps, slot)
           w == [p.pending EXCEPT !.bitmaps = list]
<1>1. p \in Parsers(V) /\ Fine(p, ok) /\ p.pending \in PendingOf
  BY ParserHas DEF Steps
<1>2. p.pending.bitmaps \in Seq(InfoSlot \cup LocalSlot)
  BY <1>1 DEF PendingOf
<1>3. /\ list \in Seq(InfoSlot \cup LocalSlot)
      /\ \A i \in DOMAIN list : (i \in DOMAIN p.pending.bitmaps /\ list[i] = p.pending.bitmaps[i]) \/ list[i] = slot
  BY <1>2
<1>4. AddBitmap(p, slot) = [p EXCEPT !.pending = w]
  BY DEF AddBitmap
<1> HIDE DEF list
<1>5. /\ w \in PendingOf /\ (\A s \in Slots : w[s] = p.pending[s]) /\ w.mapping = p.pending.mapping
      /\ w.bitmaps = list /\ w.motions = p.pending.motions
  BY <1>1, <1>3 DEF PendingOf, Slots
<1> HIDE DEF w
<1>6. ~p.wrong => PendingFits(w, ok)
  BY <1>1, <1>3, <1>5 DEF Fine, PendingFits
<1> QED BY <1>4, <1>5, <1>6, PendingSteps

LEMMA AddMotionIs ==
  ASSUME NEW U, NEW V, NEW p0 \in Parsers(U), NEW ok \in BOOLEAN, NEW p \in Steps(V, p0, ok),
         NEW slot \in InfoSlot \cup OwnSlot(MotionVal), ~p.wrong => SlotFits("motion", slot, ok)
  PROVE  AddMotion(p, slot) \in Steps(V, p0, ok)
<1> DEFINE list == Append(p.pending.motions, slot)
           w == [p.pending EXCEPT !.motions = list]
           q == [p EXCEPT !.pending = w]
<1>1. p \in Parsers(V) /\ Fine(p, ok) /\ p.pending \in PendingOf
  BY ParserHas DEF Steps
<1>2. p.pending.motions \in Seq(InfoSlot \cup OwnSlot(MotionVal))
  BY <1>1 DEF PendingOf
<1>3. /\ list \in Seq(InfoSlot \cup OwnSlot(MotionVal))
      /\ \A i \in DOMAIN list : (i \in DOMAIN p.pending.motions /\ list[i] = p.pending.motions[i]) \/ list[i] = slot
  BY <1>2
<1>4. AddMotion(p, slot) = q \/ AddMotion(p, slot) = Ended(p, "exited")
  BY DEF AddMotion
<1> HIDE DEF list
<1>5. /\ w \in PendingOf /\ (\A s \in Slots : w[s] = p.pending[s]) /\ w.mapping = p.pending.mapping
      /\ w.motions = list /\ w.bitmaps = p.pending.bitmaps
  BY <1>1, <1>3 DEF PendingOf, Slots
<1> HIDE DEF w
<1>6. ~p.wrong => PendingFits(w, ok)
  BY <1>1, <1>3, <1>5 DEF Fine, PendingFits
<1>7. q \in Steps(V, p0, ok)
  BY <1>5, <1>6, PendingSteps
<1> QED BY <1>4, <1>7, ErrSteps

LEMMA LocalReadIs ==
  ASSUME NEW p0, NEW ok \in BOOLEAN, Starts(p0, ok), NEW x, x.ref # NoRef => x.ref \in Reference,
         Says("bitmap", ok, x.body)
  PROVE  Leaves1(p0, LocalRead(p0, x), ok)
<1> DEFINE ref == x.ref
           c == Missing("bitmap", ref)
           q == ErrIf(c, p0)
           i == Found("bitmap", ref)
           z == ItemFrom("bitmap", p0, Bitmap0, x.body)
           slot == [at |-> "local", index |-> -1, own |-> z.v, freed |-> FALSE]
<1>1. p0 \in Parsers({<<>>}) /\ Going(p0) /\ Fine(p0, ok) /\ ItemsHold(p0, ok) /\ Tables
  BY DEF Starts, ItemsHold
<1>2. p0 \in Steps({<<>>}, p0, ok) /\ "bitmap" \in AllKinds
  BY StartsItself, KindsAre
<1>3. ref # NoRef => i \in Int /\ (~OutOf("bitmap", ref) => InTable("bitmap", i))
  BY <1>1, <1>2, FoundIs
<1>4. LocalRead(p0, x) = CASE ref # NoRef /\ OutOf("bitmap", ref) -> Err(p0)
                           [] ref # NoRef /\ ~OutOf("bitmap", ref) -> AddBitmap(q, InInfo(i))
                           [] OTHER -> OwnLocal(z)
  BY DEF LocalRead
<1> HIDE DEF c, i
<1>5. q \in Steps({<<>>}, p0, ok)
  BY <1>1, <1>2, ErrSteps
<1> HIDE DEF q
<1>6. CASE ref # NoRef /\ OutOf("bitmap", ref)
  <2>1. Err(p0) \in Steps({<<>>}, p0, ok)
    BY <1>1, <1>2, ErrSteps
  <2> QED BY <1>4, <1>6, <2>1 DEF Leaves1
<1>7. CASE ref # NoRef /\ ~OutOf("bitmap", ref)
  <2>1. InInfo(i) \in InfoSlot /\ SlotFits("bitmap", InInfo(i), ok)
    BY <1>3, <1>7 DEF InInfo, InfoSlot, SlotFits
  <2>2. AddBitmap(q, InInfo(i)) \in Steps({<<>>}, p0, ok)
    BY <1>1, <1>5, <2>1, AddBitmapIs
  <2> QED BY <1>4, <1>7, <2>2 DEF Leaves1
<1>8. CASE ref = NoRef
  <2>1. [p0 EXCEPT !.v = Bitmap0] \in ReadingOf("bitmap", p0, ok)
    <3>1. Initial("bitmap") = Bitmap0
      BY DEF Initial
    <3>2. [p0 EXCEPT !.v = Initial("bitmap")] \in ReadingOf("bitmap", p0, ok)
      BY <1>1, <1>2, ReadsItself, InitialIs
    <3> QED BY <3>1, <3>2
  <2>2. z \in ItemOf("bitmap", p0, ok)
    BY <1>1, <1>2, <2>1, ItemFromIs
  <2>3. OwnLocal(z) = IF Going(z) THEN AddBitmap(z, slot) ELSE z
    BY DEF OwnLocal
  <2>4. LocalRead(p0, x) = OwnLocal(z)
    BY <1>4, <1>8
  <2> HIDE DEF z
  <2>5. z \in Steps(BitmapVal, p0, ok)
    BY <1>1, <2>2, ItemSteps, ValsAre
  <2>6. z.v \in BitmapVal /\ (~z.wrong => Within("bitmap", z.v) /\ (ok => Full("bitmap", z.v)))
    BY <2>2, ValsAre, ParserHas DEF ItemOf
  <2>7. slot \in LocalSlot /\ (~z.wrong => SlotFits("bitmap", slot, ok))
    BY <2>6 DEF LocalSlot, SlotFits
  <2> HIDE DEF slot
  <2>8. AddBitmap(z, slot) \in Steps(BitmapVal, p0, ok)
    BY <1>1, <2>5, <2>7, AddBitmapIs
  <2> QED BY <2>3, <2>4, <2>5, <2>8 DEF Leaves1
<1> QED BY <1>6, <1>7, <1>8

LEMMA MotionReadIs ==
  ASSUME NEW p0, NEW ok \in BOOLEAN, Starts(p0, ok), NEW x, x.ref # NoRef => x.ref \in Reference,
         Says("motion", ok, x.body)
  PROVE  Leaves1(p0, MotionRead(p0, x), ok)
<1> DEFINE ref == x.ref
           c == Missing("motion", ref)
           q == ErrIf(c, p0)
           i == Found("motion", ref)
           z == ItemFrom("motion", p0, Motion0, x.body)
           slot == Own(z.v)
<1>1. p0 \in Parsers({<<>>}) /\ Going(p0) /\ Fine(p0, ok) /\ ItemsHold(p0, ok) /\ Tables
  BY DEF Starts, ItemsHold
<1>2. p0 \in Steps({<<>>}, p0, ok) /\ "motion" \in AllKinds
  BY StartsItself, KindsAre
<1>3. ref # NoRef => i \in Int /\ (~OutOf("motion", ref) => InTable("motion", i))
  BY <1>1, <1>2, FoundIs
<1>4. MotionRead(p0, x) = CASE ref # NoRef /\ OutOf("motion", ref) -> Ended(p0, "exited")
                           [] ref # NoRef /\ ~OutOf("motion", ref) -> AddMotion(q, InInfo(i))
                           [] OTHER -> OwnMotion(z)
  BY DEF MotionRead
<1> HIDE DEF c, i
<1>5. q \in Steps({<<>>}, p0, ok)
  BY <1>1, <1>2, ErrSteps
<1> HIDE DEF q
<1>6. CASE ref # NoRef /\ OutOf("motion", ref)
  <2>1. Ended(p0, "exited") \in Steps({<<>>}, p0, ok)
    BY <1>1, <1>2, ErrSteps
  <2> QED BY <1>4, <1>6, <2>1 DEF Leaves1
<1>7. CASE ref # NoRef /\ ~OutOf("motion", ref)
  <2>1. InInfo(i) \in InfoSlot /\ SlotFits("motion", InInfo(i), ok)
    BY <1>3, <1>7 DEF InInfo, InfoSlot, SlotFits
  <2>2. AddMotion(q, InInfo(i)) \in Steps({<<>>}, p0, ok)
    BY <1>1, <1>5, <2>1, AddMotionIs
  <2> QED BY <1>4, <1>7, <2>2 DEF Leaves1
<1>8. CASE ref = NoRef
  <2>1. [p0 EXCEPT !.v = Motion0] \in ReadingOf("motion", p0, ok)
    <3>1. Initial("motion") = Motion0
      BY DEF Initial
    <3>2. [p0 EXCEPT !.v = Initial("motion")] \in ReadingOf("motion", p0, ok)
      BY <1>1, <1>2, ReadsItself, InitialIs
    <3> QED BY <3>1, <3>2
  <2>2. z \in ItemOf("motion", p0, ok)
    BY <1>1, <1>2, <2>1, ItemFromIs
  <2>3. OwnMotion(z) = IF Going(z) THEN AddMotion(z, slot) ELSE z
    BY DEF OwnMotion
  <2>4. MotionRead(p0, x) = OwnMotion(z)
    BY <1>4, <1>8
  <2> HIDE DEF z
  <2>5. z \in Steps(MotionVal, p0, ok)
    BY <1>1, <2>2, ItemSteps, ValsAre
  <2>6. z.v \in MotionVal /\ (~z.wrong => Within("motion", z.v) /\ (ok => Full("motion", z.v)))
    BY <2>2, ValsAre, ParserHas DEF ItemOf
  <2>7. slot \in OwnSlot(MotionVal) /\ (~z.wrong => SlotFits("motion", slot, ok))
    BY <2>6 DEF OwnSlot, Own, SlotFits
  <2> HIDE DEF slot
  <2>8. AddMotion(z, slot) \in Steps(MotionVal, p0, ok)
    BY <1>1, <2>5, <2>7, AddMotionIs
  <2> QED BY <2>3, <2>4, <2>5, <2>8 DEF Leaves1
<1> QED BY <1>6, <1>7, <1>8

LEMMA MappingReadIs ==
  ASSUME NEW p0, NEW ok \in BOOLEAN, Starts(p0, ok), NEW x, x.ref \in Reference \ {NoRef}
  PROVE  MappingRead(p0, x) \in Steps({<<>>}, p0, ok)
<1> DEFINE c == Missing("mapping", x.ref)
           q == ErrIf(c, p0)
           i == Found("mapping", x.ref)
           w == [q.pending EXCEPT !.mapping = InInfo(i)]
<1>1. p0 \in Parsers({<<>>}) /\ Tables
  BY DEF Starts, ItemsHold
<1>2. p0 \in Steps({<<>>}, p0, ok)
  BY StartsItself
<1>3. i \in Int /\ (~OutOf("mapping", x.ref) => InTable("mapping", i))
  BY <1>1, FoundIs, KindsAre
<1>4. MappingRead(p0, x) = IF OutOf("mapping", x.ref) THEN Ended(p0, "exited") ELSE [q EXCEPT !.pending = w]
  BY DEF MappingRead
<1> HIDE DEF i, c
<1>5. q \in Steps({<<>>}, p0, ok) /\ Ended(p0, "exited") \in Steps({<<>>}, p0, ok)
  BY <1>1, <1>2, ErrSteps
<1> HIDE DEF q
<1>6. ASSUME ~OutOf("mapping", x.ref) PROVE [q EXCEPT !.pending = w] \in Steps({<<>>}, p0, ok)
  <2>1. q \in Parsers({<<>>}) /\ Fine(q, ok) /\ q.pending \in PendingOf
    BY <1>5, ParserHas DEF Steps
  <2>2. InInfo(i) \in InfoSlot /\ SlotFits("mapping", InInfo(i), ok)
    BY <1>3, <1>6 DEF InInfo, InfoSlot, SlotFits
  <2>3. /\ w \in PendingOf /\ (\A s \in Slots : w[s] = q.pending[s]) /\ w.mapping = InInfo(i)
        /\ w.bitmaps = q.pending.bitmaps /\ w.motions = q.pending.motions
    BY <2>1, <2>2 DEF PendingOf, Slots
  <2> HIDE DEF w
  <2>4. ~q.wrong => PendingFits(w, ok)
    BY <2>1, <2>2, <2>3 DEF Fine, PendingFits
  <2> QED BY <1>1, <1>5, <2>3, <2>4, PendingSteps
<1> QED BY <1>4, <1>5, <1>6

(* What is said besides the items.                                           *)
Plainly(pending, w) ==
  /\ w \in PendingOf /\ (\A s \in Slots : w[s] = pending[s]) /\ w.mapping = pending.mapping
  /\ w.bitmaps = pending.bitmaps /\ w.motions = pending.motions
LEMMA PlainSteps ==
  ASSUME NEW U, NEW V, NEW p0 \in Parsers(U), NEW ok \in BOOLEAN, NEW p \in Steps(V, p0, ok),
         NEW w, Plainly(p.pending, w)
  PROVE  [p EXCEPT !.pending = w] \in Steps(V, p0, ok)
<1>1. p \in Parsers(V) /\ Fine(p, ok)
  BY DEF Steps
<1>2. ~p.wrong => PendingFits(w, ok)
  BY <1>1 DEF Fine, PendingFits, Plainly
<1> QED BY <1>2, PendingSteps DEF Plainly

LEMMA MetaReadIs ==
  ASSUME NEW p0, NEW ok \in BOOLEAN, Starts(p0, ok), NEW x,
         x.leaf \in [tag : STRING, value : STRING]
  PROVE  MetaRead(p0, x) \in Steps({<<>>}, p0, ok)
<1> DEFINE c == x.leaf.value = "long"
           q == ErrIf(c, p0)
           leaf == StoredLeaf(x.leaf)
           list == Append(q.pending.meta, leaf)
           w == [q.pending EXCEPT !.meta = list]
<1>1. p0 \in Parsers({<<>>})
  BY DEF Starts
<1>2. p0 \in Steps({<<>>}, p0, ok)
  BY StartsItself
<1>3. MetaRead(p0, x) = IF x.leaf.tag = "bad" THEN Err(p0) ELSE [q EXCEPT !.pending = w]
  BY DEF MetaRead
<1>4. leaf \in Leaf
  BY StoredLeafIs
<1> HIDE DEF c, leaf
<1>5. q \in Steps({<<>>}, p0, ok) /\ Err(p0) \in Steps({<<>>}, p0, ok)
  BY <1>1, <1>2, ErrSteps
<1> HIDE DEF q
<1>6. q.pending \in PendingOf
  BY <1>5, ParserHas DEF Steps
<1>9. list \in Seq(Leaf)
  <2>1. q.pending.meta \in Seq(Leaf)
    BY <1>6 DEF PendingOf
  <2> QED BY <1>4, <2>1
<1> HIDE DEF list
<1>7. Plainly(q.pending, w)
  BY <1>6, <1>9 DEF PendingOf, Slots, Plainly
<1> HIDE DEF w
<1>8. [q EXCEPT !.pending = w] \in Steps({<<>>}, p0, ok)
  BY <1>1, <1>5, <1>7, PlainSteps
<1> QED BY <1>3, <1>5, <1>8

LEMMA SpokenIs ==
  ASSUME NEW p0, NEW ok \in BOOLEAN, Starts(p0, ok), NEW name \in Word
  PROVE  /\ [p0 EXCEPT !.pending.language = name] \in Steps({<<>>}, p0, ok)
         /\ [p0 EXCEPT !.pending.direction = name] \in Steps({<<>>}, p0, ok)
<1> DEFINE w1 == [p0.pending EXCEPT !.language = name]
           w2 == [p0.pending EXCEPT !.direction = name]
<1>1. p0 \in Parsers({<<>>})
  BY DEF Starts
<1>2. p0 \in Steps({<<>>}, p0, ok)
  BY StartsItself
<1>3. p0.pending \in PendingOf
  BY <1>1, ParserHas
<1>4. Plainly(p0.pending, w1) /\ Plainly(p0.pending, w2)
  BY <1>3 DEF PendingOf, Slots, Plainly
<1>5. /\ [p0 EXCEPT !.pending.language = name] = [p0 EXCEPT !.pending = w1]
      /\ [p0 EXCEPT !.pending.direction = name] = [p0 EXCEPT !.pending = w2]
  OBVIOUS
<1> HIDE DEF w1, w2
<1> QED BY <1>1, <1>2, <1>4, <1>5, PlainSteps

LEMMA TimeSteps ==
  ASSUME NEW U, NEW V, NEW p0 \in Parsers(U), NEW ok \in BOOLEAN, NEW p \in Steps(V, p0, ok),
         NEW t \in Int
  PROVE  /\ SetT0(p, t) \in Steps(V, p0, ok) /\ SetT1(p, t) \in Steps(V, p0, ok)
         /\ SetFor(p, t) \in Steps(V, p0, ok)
<1> DEFINE w0 == [p.event EXCEPT !.t0 = t]
           w1 == [p.event EXCEPT !.t1 = t]
           w2 == [p.event EXCEPT !.for = t]
<1>1. p.event \in EventOf
  BY ParserHas DEF Steps
<1>2. w0 \in EventOf /\ w1 \in EventOf /\ w2 \in EventOf
  BY <1>1 DEF EventOf
<1>3. /\ SetT0(p, t) \in {Err(p), [p EXCEPT !.event = w0]}
      /\ SetT1(p, t) \in {Err(p), [p EXCEPT !.event = w1]}
      /\ SetFor(p, t) \in {Err(p), [p EXCEPT !.event = w2]}
  BY DEF SetT0, SetT1, SetFor
<1> HIDE DEF w0, w1, w2
<1> QED BY <1>2, <1>3, ErrSteps, EventSteps

LEMMA TimesReadIs ==
  ASSUME NEW p0, NEW ok \in BOOLEAN, Starts(p0, ok), NEW x,
         x.do \in {"from", "to", "for", "from_for", "from_to"},
         x.do \in {"from", "from_for", "from_to"} => x.t0 \in Int,
         x.do \in {"to", "from_to"} => x.t1 \in Int, x.do \in {"for", "from_for"} => x.for \in Int
  PROVE  TimesRead(p0, x) \in Steps({<<>>}, p0, ok)
<1>1. p0 \in Parsers({<<>>}) /\ p0 \in Steps({<<>>}, p0, ok)
  BY StartsItself DEF Starts
<1>2. CASE x.do \in {"from", "to", "for"}
  BY <1>1, <1>2, TimeSteps DEF TimesRead
<1>3. CASE x.do = "from_for"
  <2>1. SetT0(p0, x.t0) \in Steps({<<>>}, p0, ok)
    BY <1>1, <1>3, TimeSteps
  <2>2. SetFor(SetT0(p0, x.t0), x.for) \in Steps({<<>>}, p0, ok)
    BY <1>1, <1>3, <2>1, TimeSteps
  <2> QED BY <1>3, <2>2 DEF TimesRead
<1>4. CASE x.do = "from_to"
  <2>1. SetT0(p0, x.t0) \in Steps({<<>>}, p0, ok)
    BY <1>1, <1>4, TimeSteps
  <2>2. SetT1(SetT0(p0, x.t0), x.t1) \in Steps({<<>>}, p0, ok)
    BY <1>1, <1>4, <2>1, TimeSteps
  <2>3. Err(p0) \in Steps({<<>>}, p0, ok)
    BY <1>1, ErrSteps
  <2> QED BY <1>4, <2>2, <2>3 DEF TimesRead
<1> QED BY <1>2, <1>3, <1>4

LEMMA WiderIs == ASSUME NEW S, NEW T, S \subseteq T, NEW s \in Seq(S) PROVE s \in Seq(T)
OBVIOUS

LEMMA SpeltIs == ASSUME NEW text \in Seq(STRING) PROVE text \in Seq(Word)
BY Strings, WiderIs

LEMMA TextReadIs ==
  ASSUME NEW p0, NEW ok \in BOOLEAN, Starts(p0, ok), NEW x, x.text \in Seq(STRING), x.markup \in BOOLEAN
  PROVE  TextRead(p0, x) \in Steps({<<>>}, p0, ok)
<1> DEFINE text == EventText(x.text, x.pre)
           v == [p0.event EXCEPT !.hasText = TRUE, !.markup = x.markup]
           w == [v EXCEPT !.text = text]
           q == [p0 EXCEPT !.event = v]
<1>1. p0 \in Parsers({<<>>}) /\ p0 \in Steps({<<>>}, p0, ok) /\ p0.event \in EventOf
  BY StartsItself, ParserHas DEF Starts
<1>2. text \in Seq(Word)
  BY SpeltIs, EventTextIs
<1>3. TextRead(p0, x) \in {Err(p0), Ended(p0, "exited"), Err(q), [p0 EXCEPT !.event = w]}
  <2>1. [p0 EXCEPT !.event.hasText = TRUE, !.event.markup = x.markup] = q
    BY <1>1 DEF Parsers, EventOf
  <2>2. [q EXCEPT !.event.text = text] = [p0 EXCEPT !.event = w]
    BY <1>1 DEF Parsers
  <2> HIDE DEF q, w, text
  <2> QED BY <2>1, <2>2 DEF TextRead, text
<1> HIDE DEF text
<1>4. v \in EventOf /\ w \in EventOf
  BY <1>1, <1>2 DEF EventOf
<1> HIDE DEF w, v
<1>5. Err(p0) \in Steps({<<>>}, p0, ok) /\ Ended(p0, "exited") \in Steps({<<>>}, p0, ok)
  BY <1>1, ErrSteps
<1>6. [p0 EXCEPT !.event = w] \in Steps({<<>>}, p0, ok) /\ q \in Steps({<<>>}, p0, ok)
  BY <1>1, <1>4, EventSteps
<1> HIDE DEF q
<1>7. Err(q) \in Steps({<<>>}, p0, ok)
  BY <1>1, <1>6, ErrSteps
<1> QED BY <1>3, <1>5, <1>6, <1>7

-----------------------------------------------------------------------------
(* Karaoke: a motion whose curves are all its own, and have an end.          *)

GlyphCurve == {kc \in [type : Word, pts : Seq(Int)] : Len(kc.pts) >= 2}
KaraokeVal == MotionOf(OwnSlot(GlyphCurve))

LEMMA KaraokeValHas ==
  ASSUME NEW km \in KaraokeVal
  PROVE  /\ km.curves \in Seq(OwnSlot(GlyphCurve)) /\ km.durations \in Seq(Int)
         /\ Len(km.curves) = Len(km.durations)
BY DEF KaraokeVal, MotionOf

LEMMA GlyphCurveIs ==
  ASSUME NEW kc \in GlyphCurve
  PROVE  kc \in CurveVal /\ Garbage \notin Range(kc.pts) /\ kc.pts[Len(kc.pts) - 1] \in Int
<1>1. kc.pts \in Seq(Int) /\ Len(kc.pts) \in Nat /\ Len(kc.pts) >= 2 /\ kc \in [type : Word, pts : Seq(Int)]
  BY DEF GlyphCurve
<1>2. kc.pts \in Seq(Value)
  <2>1. Int \subseteq Value
    BY DEF Value
  <2> QED BY <1>1, <2>1, WiderIs
<1>3. kc \in CurveVal
  BY <1>1, <1>2 DEF CurveVal
<1>4. Garbage \notin Range(kc.pts)
  BY <1>1, Unset DEF Range
<1>5. Len(kc.pts) - 1 \in 1 .. Len(kc.pts)
  BY <1>1
<1> QED BY <1>1, <1>3, <1>4, <1>5

LEMMA KaraokeValIs ==
  ASSUME NEW km \in KaraokeVal
  PROVE  /\ km \in MotionVal /\ Within("motion", km) /\ Full("motion", km)
         /\ LastX(km) \in Int
<1>1. \A i \in DOMAIN km.curves : km.curves[i] \in OwnSlot(GlyphCurve)
  BY KaraokeValHas
<1>2. OwnSlot(GlyphCurve) \subseteq InfoSlot \cup OwnSlot(CurveVal)
  BY GlyphCurveIs DEF OwnSlot
<1>3. km \in MotionVal
  <2>1. km.curves \in Seq(InfoSlot \cup OwnSlot(CurveVal))
    BY <1>2, KaraokeValHas, WiderIs
  <2> QED BY <2>1 DEF KaraokeVal, MotionVal, MotionOf
<1>4. Within("motion", km)
  BY <1>1 DEF Within, OwnSlot
<1>5. Full("motion", km)
  BY <1>1, MotionFull, GlyphCurveIs DEF OwnSlot
<1>6. LastX(km) \in Int
  <2>1. CASE km.curves = <<>>
    BY <2>1 DEF LastX
  <2>2. CASE km.curves # <<>>
    <3>1. Len(km.curves) \in DOMAIN km.curves
      BY <2>2, KaraokeValHas
    <3>2. km.curves[Len(km.curves)].own \in GlyphCurve
      BY <1>1, <3>1 DEF OwnSlot
    <3> QED BY <2>2, <3>2, GlyphCurveIs DEF LastX
  <2> QED BY <2>1, <2>2
<1> QED BY <1>3, <1>4, <1>5, <1>6

LEMMA AppendIs ==
  ASSUME NEW S, NEW s \in Seq(S), NEW e \in S
  PROVE  Append(s, e) \in Seq(S) /\ Len(Append(s, e)) = Len(s) + 1
OBVIOUS

LEMMA GlyphSteps ==
  ASSUME NEW U, NEW p0 \in Parsers(U), NEW ok \in BOOLEAN, NEW p \in Steps(KaraokeVal, p0, ok),
         NEW kc \in GlyphCurve, NEW d \in Int
  PROVE  AppendCurve(p, Own(kc), d) \in Steps(KaraokeVal, p0, ok)
<1> DEFINE slot == Own(kc)
           c == slot.at = "own" /\ CurveWrong(slot.own)
           e == ErrIf(c, p)
           curves == Append(e.v.curves, slot)
           durations == Append(e.v.durations, d)
           w == [e.v EXCEPT !.curves = curves, !.durations = durations]
<1>1. slot \in OwnSlot(GlyphCurve)
  BY DEF Own, OwnSlot
<1>2. AppendCurve(p, Own(kc), d) = [e EXCEPT !.v.curves = Append(@, slot), !.v.durations = Append(@, d)]
  BY DEF AppendCurve
<1> HIDE DEF slot, c
<1>3. e \in Steps(KaraokeVal, p0, ok)
  BY ErrSteps
<1> HIDE DEF e
<1>4. e \in Parsers(KaraokeVal) /\ e.v \in KaraokeVal
  BY <1>3, ParserHas DEF Steps
<1>5. AppendCurve(p, Own(kc), d) = [e EXCEPT !.v = w]
  BY <1>2, <1>4 DEF Parsers, KaraokeVal, MotionOf
<1>6. /\ curves \in Seq(OwnSlot(GlyphCurve)) /\ durations \in Seq(Int)
      /\ Len(curves) = Len(durations)
  <2>1. /\ e.v.curves \in Seq(OwnSlot(GlyphCurve)) /\ e.v.durations \in Seq(Int)
        /\ Len(e.v.curves) = Len(e.v.durations)
    BY <1>4, KaraokeValHas
  <2>2. curves \in Seq(OwnSlot(GlyphCurve)) /\ Len(curves) = Len(e.v.curves) + 1
    BY <1>1, <2>1, AppendIs
  <2>3. durations \in Seq(Int) /\ Len(durations) = Len(e.v.durations) + 1
    BY <2>1, AppendIs
  <2> QED BY <2>1, <2>2, <2>3
<1> HIDE DEF curves, durations
<1>7. w \in KaraokeVal
  BY <1>4, <1>6 DEF KaraokeVal, MotionOf
<1> HIDE DEF w
<1>8. [e EXCEPT !.v = w] \in Steps(KaraokeVal, p0, ok)
  BY <1>3, <1>7, ValueSteps
<1> QED BY <1>5, <1>8

LEMMA DrawnGlyph ==
  ASSUME NEW type \in Word, NEW pts \in Seq(Int), Len(pts) >= 2
  PROVE  [type |-> type, pts |-> pts] \in GlyphCurve
BY DEF GlyphCurve

LEMMA HeightIs ==
  ASSUME NEW V, NEW p \in Parsers(V), NEW top PROVE Height(p, top) \in Int
BY ParserHas DEF Height

LEMMA PauseIs ==
  ASSUME NEW U, NEW p0 \in Parsers(U), NEW ok \in BOOLEAN, NEW p \in Steps(KaraokeVal, p0, ok),
         NEW top, NEW d \in Int
  PROVE  Pause(p, d, top) \in Steps(KaraokeVal, p0, ok)
<1> DEFINE a == LastX(p.v)
           b == Height(p, top)
           pts == <<a, b>>
           kc == [type |-> "static", pts |-> pts]
<1>1. p \in Parsers(KaraokeVal) /\ p.v \in KaraokeVal
  BY ParserHas DEF Steps
<1>2. a \in Int /\ b \in Int
  BY <1>1, KaraokeValIs, HeightIs
<1>3. Pause(p, d, top) = AppendCurve(p, Own(kc), d)
  BY DEF Pause
<1> HIDE DEF a, b
<1>4. kc \in GlyphCurve
  <2>1. pts \in Seq(Int) /\ Len(pts) = 2
    BY <1>2
  <2> HIDE DEF pts
  <2>2. Len(pts) >= 2
    BY <2>1
  <2> QED BY <2>1, <2>2, DrawnGlyph, Words0
<1> HIDE DEF kc
<1> QED BY <1>3, <1>4, GlyphSteps

LEMMA JumpIs ==
  ASSUME NEW U, NEW p0 \in Parsers(U), NEW ok \in BOOLEAN, NEW p \in Steps(KaraokeVal, p0, ok),
         NEW x1 \in Int, NEW d \in Int, NEW high \in Int
  PROVE  Jump(p, x1, d, high) \in Steps(KaraokeVal, p0, ok)
<1> DEFINE x0 == LastX(p.v)
           low == Height(p, FALSE)
           mid == (x0 + x1) \div 2
           s1 == <<x1, low>>
           s2 == <<x0, low, x0, low, mid, high, x1, low, x1, low>>
           k1 == [type |-> "static", pts |-> s1]
           k2 == [type |-> "catmull_rom", pts |-> s2]
<1>1. p \in Parsers(KaraokeVal) /\ p.v \in KaraokeVal
  BY ParserHas DEF Steps
<1>2. x0 \in Int /\ low \in Int
  BY <1>1, KaraokeValIs, HeightIs
<1>3. Jump(p, x1, d, high) = AppendCurve(p, Own(IF d = 0 THEN k1 ELSE k2), d)
  BY DEF Jump
<1> HIDE DEF x0, low
<1>4. mid \in Int
  BY <1>2
<1> HIDE DEF mid
<1>5. k1 \in GlyphCurve /\ k2 \in GlyphCurve
  <2>1. s1 \in Seq(Int) /\ Len(s1) = 2 /\ s2 \in Seq(Int) /\ Len(s2) = 10
    BY <1>2, <1>4
  <2> HIDE DEF s1, s2
  <2>2. Len(s1) >= 2 /\ Len(s2) >= 2
    BY <2>1
  <2> QED BY <2>1, <2>2, DrawnGlyph, Words0
<1> HIDE DEF k1, k2
<1>6. (IF d = 0 THEN k1 ELSE k2) \in GlyphCurve
  BY <1>5
<1> QED BY <1>3, <1>6, GlyphSteps

LEMMA TransitionIs ==
  ASSUME NEW U, NEW p0 \in Parsers(U), NEW ok \in BOOLEAN, NEW p \in Steps(KaraokeVal, p0, ok),
         NEW glyph \in Int, NEW s, s.time \in Int, NEW morph
  PROVE  Transition(p, glyph, s, morph) \in Steps(KaraokeVal, p0, ok)
<1> DEFINE d == Wait(p.v, s)
           x1 == 2 * glyph + 1
           low == Height(p, FALSE)
           high == Height(p, TRUE)
           q == Pause(p, d, FALSE)
           KS == Steps(KaraokeVal, p0, ok)
<1>1. p \in Parsers(KaraokeVal) /\ p.v \in KaraokeVal
  BY ParserHas DEF Steps
<1>2. d \in Int /\ x1 \in Int /\ low \in Int /\ high \in Int
  <2>1. SumSeq(p.v.durations) \in Int
    BY <1>1, KaraokeValHas, SumIs
  <2>2. d \in Int
    BY <2>1 DEF Wait
  <2>3. low \in Int /\ high \in Int
    BY <1>1, HeightIs
  <2>4. x1 \in Int
    OBVIOUS
  <2> QED BY <2>2, <2>3, <2>4
<1>3. Transition(p, glyph, s, morph) \in {Ended(p, "exited"), Jump(q, x1, 0, low), Jump(p, x1, d, high)}
  BY <1>2 DEF Transition
<1> HIDE DEF d, x1, low, high
<1>4. q \in KS
  BY <1>2, PauseIs
<1> HIDE DEF q
<1>5. Jump(q, x1, 0, low) \in KS /\ Jump(p, x1, d, high) \in KS
  BY <1>2, <1>4, JumpIs
<1>6. Ended(p, "exited") \in KS
  BY ErrSteps
<1> QED BY <1>3, <1>5, <1>6

LEMMA StepsBoth ==
  ASSUME NEW U, NEW V, NEW W, NEW p0 \in Parsers(U), NEW ok \in BOOLEAN, NEW q \in Steps(V, p0, ok),
         NEW r \in Steps(W, q, ok)
  PROVE  r \in Steps(W, p0, ok)
<1>1. q \in Parsers(V) /\ r \in Parsers(W) /\ Moves(p0, q) /\ Moves(q, r)
  BY DEF Steps
<1>2. Moves(p0, r)
  BY <1>1, MovesBoth
<1> QED BY <1>2 DEF Steps

LEMMA MorphStylesIs ==
  ASSUME NEW V, NEW p0, NEW ok \in BOOLEAN, Starts(p0, ok), NEW p \in Steps(V, p0, ok),
         NEW s, s.ref \in Reference, s.ref2 \in Reference
  PROVE  MorphStyles(p, s) \in Steps(V, p0, ok)
<1> DEFINE c == \E r \in {s.ref, s.ref2} : Missing("style", r)
           q == ErrIf(c, p)
           i == Found("style", s.ref)
           j == Found("style", s.ref2)
           r == SetIndex(q, "style", KindOf("style"), i)
           t == SetIndex(r, "secondary", KindOf("secondary"), j)
<1>1. p0 \in Parsers({<<>>}) /\ Tables
  BY DEF Starts, ItemsHold
<1>2. /\ i \in Int /\ (~Missing("style", s.ref) => InTable("style", i))
      /\ j \in Int /\ (~Missing("style", s.ref2) => InTable("style", j))
  BY <1>1, FoundIs, KindsAre
<1>3. MorphStyles(p, s) = IF p.event.set["style"] THEN Err(q) ELSE t
  BY DEF MorphStyles, KindOf
<1>4. c \/ (~Missing("style", s.ref) /\ ~Missing("style", s.ref2))
  OBVIOUS
<1> HIDE DEF c, i, j
<1>5. p \in Parsers(V)
  BY DEF Steps
<1>6. q \in Parsers(V) /\ (~q.wrong => ~c)
  BY <1>5, ErrIfIs
<1>7. q \in Steps(V, p0, ok)
  BY <1>1, ErrSteps
<1> HIDE DEF q
<1>8. q \in Steps(V, q, ok)
  <2>1. Reads(q, q)
    BY <1>6, ReadsItself
  <2> QED BY <1>7, <2>1 DEF Steps, Reads
<1>9. "style" \in Slots /\ "secondary" \in Slots /\ KindOf("style") = "style" /\ KindOf("secondary") = "style"
  BY DEF Slots, KindOf
<1>10. ~q.wrong => InTable("style", i) /\ InTable("style", j)
  BY <1>2, <1>4, <1>6
<1>11. r \in Steps(V, q, ok)
  BY <1>2, <1>6, <1>8, <1>9, <1>10, SetIndexIs
<1> HIDE DEF r
<1>12. ~r.wrong => ~q.wrong
  BY <1>11 DEF Steps, Moves
<1>13. t \in Steps(V, q, ok)
  BY <1>2, <1>6, <1>9, <1>10, <1>11, <1>12, SetIndexIs
<1> HIDE DEF t
<1>14. t \in Steps(V, p0, ok)
  BY <1>1, <1>7, <1>13, StepsBoth
<1>15. Err(q) \in Steps(V, p0, ok)
  BY <1>1, <1>7, ErrSteps
<1> QED BY <1>3, <1>14, <1>15

LEMMA WordsAre ==
  ASSUME NEW U, NEW p0 \in Parsers(U), NEW ok \in BOOLEAN, NEW p \in Steps(KaraokeVal, p0, ok),
         NEW s, s.text \in Seq(STRING), s.time \in Int, NEW morph
  PROVE  Words(p, s, morph) \in Steps(KaraokeVal, p0, ok)
<1> DEFINE all == p.event.text \o s.text
           back == Backslashed(all)
           text == Expanded(back)
           w == [p.event EXCEPT !.text = text, !.hasText = TRUE]
           q == [p EXCEPT !.event = w]
           v == [p.event EXCEPT !.text = back, !.hasText = TRUE]
           glyph == GlyphCount(text) - 1
<1>1. p \in Parsers(KaraokeVal) /\ p.event \in EventOf
  BY ParserHas DEF Steps
<1>2. all \in Seq(Word)
  <2>1. s.text \in Seq(Word) /\ p.event.text \in Seq(Word)
    BY <1>1, SpeltIs DEF EventOf
  <2> QED BY <2>1
<1>3. \/ Words(p, s, morph) = Transition([p EXCEPT !.event.text = text, !.event.hasText = TRUE], glyph, s, morph)
      \/ Words(p, s, morph) = [Err(p) EXCEPT !.event.text = back, !.event.hasText = TRUE]
  BY DEF Words
<1> HIDE DEF all
<1>4. back \in Seq(Word)
  BY <1>2, BackslashedIs
<1>10. Err(p) \in Steps(KaraokeVal, p0, ok) /\ Err(p) \in Parsers(KaraokeVal) /\ Err(p).event = p.event
  <2>1. Err(p) \in Steps(KaraokeVal, p0, ok)
    BY ErrSteps
  <2> QED BY <1>1, <2>1 DEF Steps, Err, Parsers
<1> HIDE DEF back
<1>11. v \in EventOf
  BY <1>1, <1>4 DEF EventOf
<1>12. [Err(p) EXCEPT !.event.text = back, !.event.hasText = TRUE] = [Err(p) EXCEPT !.event = v]
  <2> DEFINE r == Err(p)
  <2>1. r \in Parsers(KaraokeVal) /\ r.event = p.event
    BY <1>10
  <2> HIDE DEF r
  <2>2. [r EXCEPT !.event.text = back, !.event.hasText = TRUE] = [r EXCEPT !.event = v]
    BY <1>1, <2>1 DEF Parsers, EventOf
  <2> QED BY <2>2 DEF r
<1> HIDE DEF v
<1>13. [Err(p) EXCEPT !.event.text = back, !.event.hasText = TRUE] \in Steps(KaraokeVal, p0, ok)
  BY <1>10, <1>11, <1>12, EventSteps
<1>5. text \in Seq(Word)
  BY <1>4, ExpandedIs
<1> HIDE DEF text
<1>6. glyph \in Int
  BY <1>5, GlyphCountIs
<1> HIDE DEF glyph
<1>7. [p EXCEPT !.event.text = text, !.event.hasText = TRUE] = q
  BY <1>1 DEF Parsers, EventOf
<1>8. w \in EventOf
  BY <1>1, <1>5 DEF EventOf
<1> HIDE DEF w
<1>9. q \in Steps(KaraokeVal, p0, ok)
  BY <1>8, EventSteps
<1> HIDE DEF q
<1> QED BY <1>3, <1>6, <1>7, <1>9, <1>13, TransitionIs

LEMMA HeightsSteps ==
  ASSUME NEW U, NEW V, NEW p0 \in Parsers(U), NEW ok \in BOOLEAN, NEW p \in Steps(V, p0, ok),
         NEW w \in Int \X Int
  PROVE  [p EXCEPT !.heights = w] \in Steps(V, p0, ok)
<1> DEFINE q == [p EXCEPT !.heights = w]
<1>1. p \in Parsers(V) /\ Fine(p, ok) /\ Moves(p0, p)
  BY DEF Steps
<1>2. /\ q \in Parsers(V) /\ q.phase = p.phase /\ q.wrong = p.wrong /\ q.pending = p.pending
      /\ q.kregion = p.kregion /\ q.metas = p.metas
  BY <1>1 DEF Parsers
<1> HIDE DEF q
<1>3. Fine(q, ok)
  BY <1>1, <1>2 DEF Fine
<1>4. Moves(p0, q)
  BY <1>1, <1>2 DEF Moves
<1>5. q \in Steps(V, p0, ok)
  BY <1>2, <1>3, <1>4 DEF Steps
<1> QED BY <1>5 DEF q

LEMMA KaraokeFormsAre ==
  ASSUME NEW s \in MarkerForm \cup MorphForm
  PROVE  /\ s.set \in {"pointer", "heights", "pause", "styles", "glyph", "words"}
         /\ s.set = "pointer" => s.name \in Word
         /\ s.set = "heights" => s.list \in Int \X Int
         /\ s.set \in {"pause", "glyph", "words"} => s.time \in Int
         /\ s.set = "glyph" => s.glyph \in Int
         /\ s.set = "styles" => s.ref \in Reference /\ s.ref2 \in Reference
         /\ s.set = "words" => s.text \in Seq(STRING)
<1>1. CASE s \in [set : {"pointer"}, name : STRING]
  BY <1>1, Strings
<1>2. CASE s \in [set : {"pause"}, time : Nat]
  BY <1>2
<1>3. CASE s \in [set : {"glyph"}, glyph : Nat, time : Nat, absolute : BOOLEAN]
  BY <1>3
<1>4. CASE s \in [set : {"heights"}, list : Int \X Int]
  BY <1>4
<1>5. CASE s \in [set : {"styles"}, ref : Reference, ref2 : Reference]
  BY <1>5
<1>6. CASE s \in [set : {"words"}, text : Seq(STRING), time : Nat, absolute : BOOLEAN]
  BY <1>6
<1> QED BY <1>1, <1>2, <1>3, <1>4, <1>5, <1>6 DEF MarkerForm, MorphForm, GlyphForm

LEMMA KaraokeSetIs ==
  ASSUME NEW p0, NEW ok \in BOOLEAN, Starts(p0, ok), NEW p \in Steps(KaraokeVal, p0, ok),
         NEW s \in MarkerForm \cup MorphForm, NEW morph
  PROVE  KaraokeSet(p, s, morph) \in Steps(KaraokeVal, p0, ok)
<1> DEFINE KS == Steps(KaraokeVal, p0, ok)
<1>1. p0 \in Parsers({<<>>}) /\ p \in Parsers(KaraokeVal) /\ p.v \in KaraokeVal
  BY ParserHas DEF Starts, Steps
<1>2. CASE s.set = "pointer"
  <2> DEFINE w == [p.v EXCEPT !.semantics = s.name]
  <2>1. w \in KaraokeVal
    BY <1>1, <1>2, KaraokeFormsAre DEF KaraokeVal, MotionOf
  <2>2. KaraokeSet(p, s, morph) = [p EXCEPT !.v = w]
    BY <1>2 DEF KaraokeSet
  <2> HIDE DEF w
  <2> QED BY <1>1, <2>1, <2>2, ValueSteps
<1>3. CASE s.set = "heights"
  <2>1. KaraokeSet(p, s, morph) = [p EXCEPT !.heights = s.list]
    BY <1>3 DEF KaraokeSet
  <2> QED BY <1>1, <1>3, <2>1, KaraokeFormsAre, HeightsSteps
<1>4. CASE s.set = "pause"
  <2>1. KaraokeSet(p, s, morph) = Pause(p, s.time, FALSE)
    BY <1>4 DEF KaraokeSet
  <2> QED BY <1>1, <1>4, <2>1, KaraokeFormsAre, PauseIs
<1>5. CASE s.set = "styles"
  <2>1. KaraokeSet(p, s, morph) = MorphStyles(p, s)
    BY <1>5 DEF KaraokeSet
  <2> QED BY <1>5, <2>1, KaraokeFormsAre, MorphStylesIs
<1>6. CASE s.set = "glyph"
  <2>1. KaraokeSet(p, s, morph) = Transition(p, s.glyph, s, morph)
    BY <1>6 DEF KaraokeSet
  <2> QED BY <1>1, <1>6, <2>1, KaraokeFormsAre, TransitionIs
<1>7. CASE s.set = "words"
  <2>1. KaraokeSet(p, s, morph) = Words(p, s, morph)
    BY <1>7 DEF KaraokeSet
  <2> QED BY <1>1, <1>7, <2>1, KaraokeFormsAre, WordsAre
<1> QED BY <1>2, <1>3, <1>4, <1>5, <1>6, <1>7, KaraokeFormsAre

LEMMA TimesAre ==
  ASSUME NEW ev \in EventOf PROVE Start(ev) \in Int /\ End(ev) \in Int
BY DEF EventOf, Start, End

LEMMA FinalizedIs ==
  ASSUME NEW U, NEW p0 \in Parsers(U), NEW ok \in BOOLEAN, NEW p \in Steps(KaraokeVal, p0, ok)
  PROVE  Finalized(p) \in Steps(KaraokeVal, p0, ok)
<1> DEFINE rest == End(p.event) - Start(p.event) - SumSeq(p.v.durations)
<1>1. p \in Parsers(KaraokeVal) /\ p.v \in KaraokeVal /\ p.event \in EventOf
  BY ParserHas DEF Steps
<1>2. rest \in Int
  <2>1. SumSeq(p.v.durations) \in Int
    BY <1>1, KaraokeValHas, SumIs
  <2>2. Start(p.event) \in Int /\ End(p.event) \in Int
    BY <1>1, TimesAre
  <2> HIDE DEF Start, End
  <2> QED BY <2>1, <2>2
<1>3. Finalized(p) \in {Err(p), Ended(p, "exited"), Pause(p, rest, TRUE)}
  BY <1>2 DEF Finalized
<1> HIDE DEF rest
<1>4. Pause(p, rest, TRUE) \in Steps(KaraokeVal, p0, ok)
  BY <1>2, PauseIs
<1> QED BY <1>3, <1>4, ErrSteps

LEMMA KaraokeDoneIs ==
  ASSUME NEW U, NEW p0 \in Parsers(U), NEW ok \in BOOLEAN, NEW p \in Steps(KaraokeVal, p0, ok)
  PROVE  KaraokeDone(p) \in Steps(KaraokeVal, p0, ok)
<1> DEFINE c == p.v.curves = <<>>
           q == ErrIf(c, p)
           slot == Own(q.v)
<1>1. KaraokeDone(p) \in {p, q, AddMotion(q, slot)}
  BY DEF KaraokeDone, OwnMotion
<1> HIDE DEF c
<1>2. q \in Steps(KaraokeVal, p0, ok)
  BY ErrSteps
<1> HIDE DEF q
<1>3. q.v \in KaraokeVal
  BY <1>2, ParserHas DEF Steps
<1>4. q.v \in MotionVal /\ Within("motion", q.v) /\ Full("motion", q.v)
  BY <1>3, KaraokeValIs
<1>5. slot \in OwnSlot(MotionVal) /\ SlotFits("motion", slot, ok)
  BY <1>4 DEF Own, OwnSlot, SlotFits
<1> HIDE DEF slot
<1>6. AddMotion(q, slot) \in Steps(KaraokeVal, p0, ok)
  BY <1>2, <1>5, AddMotionIs
<1> QED BY <1>1, <1>2, <1>6

LEMMA DrawnMotion ==
  [Motion0 EXCEPT !.semantics = "glyph_pointer_1"] \in KaraokeVal
<1>1. Motion0 \in KaraokeVal
  <2>1. <<>> \in Seq(OwnSlot(GlyphCurve)) /\ <<>> \in Seq(Int)
    OBVIOUS
  <2> QED BY <2>1, Words0 DEF Motion0, KaraokeVal, MotionOf
<1>2. "glyph_pointer_1" \in Word
  BY Words0
<1> QED BY <1>1, <1>2 DEF KaraokeVal, MotionOf

LEMMA KaraokeReadIs ==
  ASSUME NEW p0, NEW ok \in BOOLEAN, Starts(p0, ok), NEW x,
         x.body \in Seq(MarkerForm \cup MorphForm)
  PROVE  Leaves1(p0, KaraokeRead(p0, x), ok)
<1> DEFINE S == Steps(KaraokeVal, p0, ok)
           morph == x.morph
           body == x.body
           w == [Motion0 EXCEPT !.semantics = "glyph_pointer_1"]
           flat == <<0, 0>>
           z == [p0 EXCEPT !.heights = flat]
           start == [z EXCEPT !.v = w]
           q == KaraokeBody(start, body, morph)
           f == IF Going(q) THEN Finalized(q) ELSE q
<1>1. p0 \in Parsers({<<>>}) /\ p0 \in Steps({<<>>}, p0, ok)
  BY StartsItself DEF Starts
<1>2. w \in KaraokeVal
  BY DrawnMotion
<1>3. KaraokeRead(p0, x) = KaraokeDone(f)
  BY DEF KaraokeRead
<1> HIDE DEF w
<1>12. flat \in Int \X Int
  OBVIOUS
<1> HIDE DEF flat
<1>4. z \in Steps({<<>>}, p0, ok)
  BY <1>1, <1>12, HeightsSteps
<1> HIDE DEF z
<1>5. start \in S
  BY <1>1, <1>2, <1>4, ValueSteps
<1> HIDE DEF start
<1>6. ASSUME NEW r \in S, NEW k \in 1 .. Len(body) PROVE KaraokeStep(r, body[k], morph) \in S
  <2>1. body[k] \in MarkerForm \cup MorphForm
    OBVIOUS
  <2>2. KaraokeSet(r, body[k], morph) \in S
    BY <2>1, KaraokeSetIs
  <2> QED BY <2>2 DEF KaraokeStep
<1> HIDE DEF S
<1>7. KaraokeBodyStays(S, MarkerForm \cup MorphForm, start, morph, body)
  BY <1>5, <1>6 DEF KaraokeBodyStays
<1> HIDE DEF morph
<1>8. PICK at \in [0 .. Len(body) -> S] : KaraokeBody(start, body, morph) = at[Len(body)]
  BY <1>7, KaraokeBodyGoes
<1>9. q \in S
  <2>1. Len(body) \in 0 .. Len(body)
    OBVIOUS
  <2> QED BY <1>8, <2>1
<1> HIDE DEF q
<1>10. f \in S
  BY <1>1, <1>9, FinalizedIs DEF S
<1> HIDE DEF f
<1>11. KaraokeDone(f) \in S
  BY <1>1, <1>10, KaraokeDoneIs DEF S
<1> QED BY <1>3, <1>11 DEF S, Leaves1

-----------------------------------------------------------------------------
(* The statements of the grammar: what each has, and what can be read.       *)

Refers(x) == x.ref # NoRef => x.ref \in Reference
Plain == {"comment", "timebase", "headers", "event", "finish", "from", "to", "for", "from_for",
          "from_to", "id", "language", "directionality", "text", "meta", "karaoke", "end"}
Typed(x) ==
  /\ x.do \in Plain \cup Slots \cup {"define", "local", "motion", "mapping"}
  /\ x.do \in {"comment", "language", "directionality"} => x.name \in Word
  /\ x.do = "timebase" => x.time \in Int
  /\ x.do = "define" => x.kind \in AllKinds /\ x.name \in Word /\ x.body \in Seq(Form(x.kind))
  /\ x.do \in {"from", "from_for", "from_to"} => x.t0 \in Int
  /\ x.do \in {"to", "from_to"} => x.t1 \in Int
  /\ x.do \in {"for", "from_for"} => x.for \in Int
  /\ x.do = "text" => x.text \in Seq(STRING) /\ x.pre \in BOOLEAN /\ x.markup \in BOOLEAN
  /\ x.do = "meta" => x.leaf \in [tag : STRING, value : STRING]
  /\ x.do = "karaoke" => x.body \in Seq(MarkerForm \cup MorphForm)
  /\ x.do \in Slots => Refers(x) /\ x.body \in Seq(Form(KindOf(x.do)))
  /\ x.do = "local" => Refers(x) /\ x.body \in Seq(BitmapForm)
  /\ x.do = "motion" => Refers(x) /\ x.body \in Seq(MotionForm)
  /\ x.do = "mapping" => x.ref \in Reference \ {NoRef}

LEMMA PlainTyped ==
  ASSUME NEW x,
         \/ x \in [do : {"comment"}, name : STRING] \/ x \in [do : {"timebase"}, time : Nat]
         \/ x \in [do : {"headers"}] \/ x \in [do : {"event", "finish"}] \/ x \in [do : {"end"}]
         \/ x \in [do : {"from"}, t0 : Nat] \/ x \in [do : {"to"}, t1 : Nat]
         \/ x \in [do : {"for"}, for : Nat] \/ x \in [do : {"from_for"}, t0 : Nat, for : Nat]
         \/ x \in [do : {"from_to"}, t0 : Nat, t1 : Nat] \/ x \in [do : {"id"}, n : Nat]
         \/ x \in [do : {"language", "directionality"}, name : STRING]
         \/ x \in [do : {"text"}, text : Seq(STRING), pre : BOOLEAN, markup : BOOLEAN]
         \/ x \in [do : {"meta"}, leaf : [tag : STRING, value : STRING]]
         \/ x \in [do : {"karaoke"}, morph : {FALSE}, body : Seq(MarkerForm)]
         \/ x \in [do : {"karaoke"}, morph : {TRUE}, body : Seq(MorphForm)]
  PROVE  Typed(x)
<1>1. CASE x \in [do : {"comment"}, name : STRING] \/ x \in [do : {"language", "directionality"}, name : STRING]
  BY <1>1, Strings DEF Typed, Plain, Slots
<1>2. CASE \/ x \in [do : {"timebase"}, time : Nat] \/ x \in [do : {"headers"}]
           \/ x \in [do : {"event", "finish"}] \/ x \in [do : {"end"}] \/ x \in [do : {"id"}, n : Nat]
  BY <1>2 DEF Typed, Plain, Slots
<1>3. CASE \/ x \in [do : {"from"}, t0 : Nat] \/ x \in [do : {"to"}, t1 : Nat]
           \/ x \in [do : {"for"}, for : Nat] \/ x \in [do : {"from_for"}, t0 : Nat, for : Nat]
           \/ x \in [do : {"from_to"}, t0 : Nat, t1 : Nat]
  BY <1>3 DEF Typed, Plain, Slots
<1>4. CASE \/ x \in [do : {"text"}, text : Seq(STRING), pre : BOOLEAN, markup : BOOLEAN]
           \/ x \in [do : {"meta"}, leaf : [tag : STRING, value : STRING]]
  BY <1>4 DEF Typed, Plain, Slots
<1>5. CASE \/ x \in [do : {"karaoke"}, morph : {FALSE}, body : Seq(MarkerForm)]
           \/ x \in [do : {"karaoke"}, morph : {TRUE}, body : Seq(MorphForm)]
  <2>1. MarkerForm \subseteq MarkerForm \cup MorphForm /\ MorphForm \subseteq MarkerForm \cup MorphForm
    OBVIOUS
  <2>2. x.do = "karaoke" /\ (x.body \in Seq(MarkerForm) \/ x.body \in Seq(MorphForm))
    BY <1>5
  <2>3. x.body \in Seq(MarkerForm \cup MorphForm)
    BY <2>1, <2>2, WiderIs
  <2> QED BY <2>2, <2>3 DEF Typed, Plain, Slots
<1> QED BY <1>1, <1>2, <1>3, <1>4, <1>5

LEMMA SlotTyped ==
  ASSUME NEW slot \in Slots, NEW x,
         \/ x \in ByReference(slot) \/ x \in OfItsOwn(slot, Form(KindOf(slot)))
         \/ x \in Derived(slot, Form(KindOf(slot)))
  PROVE  Typed(x)
<1>1. x.do = slot /\ Refers(x)
  BY DEF ByReference, OfItsOwn, Derived, Refers
<1>2. x.body \in Seq(Form(KindOf(slot)))
  <2>1. CASE x \in ByReference(slot)
    <3>1. x.body = <<>>
      BY <2>1 DEF ByReference
    <3> QED BY <3>1, FormlessIs
  <2>2. CASE x \in OfItsOwn(slot, Form(KindOf(slot)))
    BY <2>2 DEF OfItsOwn
  <2>3. CASE x \in Derived(slot, Form(KindOf(slot)))
    BY <2>3 DEF Derived
  <2> QED BY <2>1, <2>2, <2>3
<1> QED BY <1>1, <1>2 DEF Typed, Slots

LEMMA OtherTyped ==
  ASSUME NEW x,
         \/ x \in ByReference("local") \/ x \in OfItsOwn("local", BitmapForm)
         \/ x \in ByReference("motion") \/ x \in OfItsOwn("motion", MotionForm)
         \/ x \in ByReference("mapping")
  PROVE  Typed(x)
<1>1. CASE x \in ByReference("local") \/ x \in OfItsOwn("local", BitmapForm)
  <2>1. x.do = "local" /\ Refers(x) /\ (x.body = <<>> \/ x.body \in Seq(BitmapForm))
    BY <1>1 DEF ByReference, OfItsOwn, Refers
  <2>2. x.body \in Seq(BitmapForm)
    BY <2>1, FormlessIs
  <2> QED BY <2>1, <2>2 DEF Typed, Slots
<1>2. CASE x \in ByReference("motion") \/ x \in OfItsOwn("motion", MotionForm)
  <2>1. x.do = "motion" /\ Refers(x) /\ (x.body = <<>> \/ x.body \in Seq(MotionForm))
    BY <1>2 DEF ByReference, OfItsOwn, Refers
  <2>2. x.body \in Seq(MotionForm)
    BY <2>1, FormlessIs
  <2> QED BY <2>1, <2>2 DEF Typed, Slots
<1>3. CASE x \in ByReference("mapping")
  <2>1. x.do = "mapping" /\ x.ref \in Reference \ {NoRef}
    BY <1>3 DEF ByReference
  <2> QED BY <2>1 DEF Typed, Slots
<1> QED BY <1>1, <1>2, <1>3

LEMMA DefinitionTyped ==
  ASSUME NEW kind \in AllKinds, NEW x, x \in Definition(kind, Form(kind)) PROVE Typed(x)
<1>1. x.do = "define" /\ x.kind = kind /\ x.name \in STRING /\ x.body \in Seq(Form(kind))
  BY DEF Definition
<1> QED BY <1>1, Strings DEF Typed, Slots

LEMMA GrammarTyped == ASSUME NEW x \in Grammar PROVE Typed(x)
<1>1. CASE x \in DefGrammar
  <2>1. CASE \/ x \in [do : {"comment"}, name : STRING] \/ x \in [do : {"timebase"}, time : Nat]
             \/ x \in [do : {"headers"}]
    BY <2>1, PlainTyped
  <2>2. CASE \E kind \in AllKinds : x \in Definition(kind, Form(kind))
    BY <2>2, DefinitionTyped
  <2> QED BY <1>1, <2>1, <2>2, FormsAre, KindsAre DEF DefGrammar
<1>2. CASE x \in EventGrammar
  <2> DEFINE Dated == [do : {"from"}, t0 : Nat] \cup [do : {"to"}, t1 : Nat] \cup [do : {"for"}, for : Nat]
                   \cup [do : {"from_for"}, t0 : Nat, for : Nat] \cup [do : {"from_to"}, t0 : Nat, t1 : Nat]
             Of == [do : {"id"}, n : Nat] \cup [do : {"language", "directionality"}, name : STRING]
                   \cup [do : {"text"}, text : Seq(STRING), pre : BOOLEAN, markup : BOOLEAN]
                   \cup [do : {"meta"}, leaf : [tag : STRING, value : STRING]] \cup [do : {"end"}]
             Sung == [do : {"karaoke"}, morph : {FALSE}, body : Seq(MarkerForm)]
                     \cup [do : {"karaoke"}, morph : {TRUE}, body : Seq(MorphForm)]
             SlotSet(s, F) == ByReference(s) \cup OfItsOwn(s, F) \cup Derived(s, F)
             Slotted2 == SlotSet("region", RegionForm) \cup SlotSet("style", StyleForm)
                         \cup SlotSet("secondary", StyleForm) \cup SlotSet("palette", PaletteForm)
                         \cup SlotSet("bitmap", BitmapForm)
             Others == ByReference("local") \cup OfItsOwn("local", BitmapForm) \cup ByReference("motion")
                       \cup OfItsOwn("motion", MotionForm) \cup ByReference("mapping")
  <2>1. x \in Dated \cup Of \cup Sung \cup Slotted2 \cup Others
    BY <1>2, Zenon DEF EventGrammar
  <2>2. ASSUME x \in Dated PROVE Typed(x)
    BY <2>2, PlainTyped
  <2>3. ASSUME x \in Of PROVE Typed(x)
    BY <2>3, PlainTyped
  <2>4. ASSUME x \in Sung PROVE Typed(x)
    BY <2>4, PlainTyped
  <2>5. ASSUME x \in Others PROVE Typed(x)
    BY <2>5, OtherTyped
  <2>6. ASSUME NEW s \in Slots, x \in SlotSet(s, Form(KindOf(s))) PROVE Typed(x)
    BY <2>6, SlotTyped
  <2>7. ASSUME x \in Slotted2 PROVE Typed(x)
    <3>1. /\ Form(KindOf("region")) = RegionForm /\ Form(KindOf("style")) = StyleForm
          /\ Form(KindOf("secondary")) = StyleForm /\ Form(KindOf("palette")) = PaletteForm
          /\ Form(KindOf("bitmap")) = BitmapForm
      BY FormsAre DEF KindOf
    <3> HIDE DEF SlotSet
    <3>2. \E s \in Slots : x \in SlotSet(s, Form(KindOf(s)))
      BY <2>7, <3>1 DEF Slots
    <3> QED BY <2>6, <3>2
  <2> HIDE DEF Dated, Of, Sung, Slotted2, Others
  <2> QED BY <2>1, <2>2, <2>3, <2>4, <2>5, <2>7
<1>3. CASE x \in [do : {"event", "finish"}]
  BY <1>3, PlainTyped
<1> QED BY <1>1, <1>2, <1>3 DEF Grammar

(* What is found where a string was is a string: a statement is one of the   *)
(* grammar as it was written and as it is heard.                             *)

Stable(F) == \A s \in F : \A how \in Spoils : s.set \in {"meta", "words"} => Garbled(s, how) \in F

LEMMA SpoilsAre ==
  ASSUME NEW how \in Spoils
  PROVE  how.name \in STRING /\ how.name \in Word /\ how.name # "quoted" /\ how.words \in Seq(STRING)
<1>1. how \in [name : STRING \ {"quoted"}, words : Seq(STRING)]
  BY DescriptionsAssumption
<1>2. how.name \in STRING /\ how.name # "quoted" /\ how.words \in Seq(STRING)
  BY <1>1
<1> QED BY <1>2, Strings

LEMMA NamesReadAre == ASSUME NEW name \in Word PROVE NamesRead(name) \subseteq Word
BY SpoilsAre DEF NamesRead

LEMMA GarbledMeta ==
  ASSUME NEW s \in MetaForm, NEW how \in Spoils PROVE Garbled(s, how) \in MetaForm
<1>1. how.name \in STRING
  BY SpoilsAre
<1>2. s.set = "meta" /\ s \in [set : {"meta"}, leaf : [tag : STRING, value : STRING]]
  BY DEF MetaForm
<1>3. [s EXCEPT !.leaf.tag = how.name] \in [set : {"meta"}, leaf : [tag : STRING, value : STRING]]
  BY <1>1, <1>2
<1> QED BY <1>2, <1>3 DEF Garbled, MetaForm

LEMMA StableForms ==
  /\ \A kind \in AllKinds : Stable(Form(kind))
  /\ Stable(MarkerForm) /\ Stable(MorphForm) /\ Stable({})
<1>1. ASSUME NEW F, NEW G, F = G \cup MetaForm, \A s \in G : s.set \notin {"meta", "words"} PROVE Stable(F)
  BY <1>1, GarbledMeta DEF Stable, MetaForm
<1>2. ASSUME NEW F, \A s \in F : s.set \notin {"meta", "words"} PROVE Stable(F)
  BY <1>2 DEF Stable
<1>3. Stable(StyleForm)
  <2> DEFINE G == [set : {"font"}, name : STRING] \cup [set : {"bold"}]
                  \cup [set : {"width", "height", "size", "left", "top"}, n : Int, metric : STRING]
                  \cup [set : {"margins"}, list : Int \X Int, metric : STRING, metric2 : STRING]
  <2>1. \A s \in G : s.set \notin {"meta", "words"}
    OBVIOUS
  <2>2. StyleForm = G \cup MetaForm
    BY DEF StyleForm
  <2> HIDE DEF G
  <2> QED BY <1>1, <2>1, <2>2
<1>4. Stable(RegionForm)
  <2> DEFINE G == [set : {"area"}, list : Int \X Int, metric : STRING] \cup [set : {"clip"}]
                  \cup [set : {"style"}, ref : Reference]
  <2>1. \A s \in G : s.set \notin {"meta", "words"}
    OBVIOUS
  <2>2. RegionForm = G \cup MetaForm
    BY DEF RegionForm
  <2> HIDE DEF G
  <2> QED BY <1>1, <2>1, <2>2
<1>5. Stable(MotionForm)
  <2> DEFINE G == [set : {"semantics"}, name : STRING] \cup [set : {"periodic"}]
                  \cup [set : {"mapping"}, name : STRING, name2 : STRING]
                  \cup [set : {"curve"}, for : Nat, ref : Reference, braces : BOOLEAN, body : Seq(CurveForm)]
  <2>1. \A s \in G : s.set \notin {"meta", "words"}
    OBVIOUS
  <2>2. MotionForm = G \cup MetaForm
    BY DEF MotionForm
  <2> HIDE DEF G
  <2> QED BY <1>1, <2>1, <2>2
<1>6. Stable(PaletteForm)
  <2>1. \A s \in [set : {"colors"}, n : Nat, list : Seq(Int)] : s.set \notin {"meta", "words"}
    OBVIOUS
  <2> QED BY <1>1, <2>1 DEF PaletteForm
<1>7. Stable(BitmapForm)
  <2> DEFINE G == [set : {"pixels", "png"}, n : Nat, size : Nat \X Nat, list : Seq(Nat)]
                  \cup [set : {"source"}, size : Nat \X Nat, list : Seq(Nat)]
                  \cup [set : {"palette"}, ref : Reference] \cup [set : {"offset", "percent"}, n : Int]
  <2>1. \A s \in G : s.set \notin {"meta", "words"}
    OBVIOUS
  <2>2. BitmapForm = G \cup MetaForm
    BY DEF BitmapForm
  <2> HIDE DEF G
  <2> QED BY <1>1, <2>1, <2>2
<1>8. Stable(CurveForm) /\ Stable(RangeForm) /\ Stable(MappingForm) /\ Stable(MarkerForm) /\ Stable({})
  <2>1. /\ \A s \in CurveForm : s.set \notin {"meta", "words"}
        /\ \A s \in RangeForm : s.set \notin {"meta", "words"}
        /\ \A s \in MappingForm : s.set \notin {"meta", "words"}
        /\ \A s \in MarkerForm : s.set \notin {"meta", "words"}
    BY DEF CurveForm, RangeForm, MappingForm, MarkerForm, GlyphForm
  <2> QED BY <1>2, <2>1
<1>9. Stable(MorphForm)
  <2> DEFINE W == [set : {"words"}, text : Seq(STRING), time : Nat, absolute : BOOLEAN]
             G == GlyphForm \cup [set : {"styles"}, ref : Reference, ref2 : Reference]
  <2>1. \A s \in G : s.set \notin {"meta", "words"}
    BY DEF GlyphForm
  <2>2. ASSUME NEW s \in W, NEW how \in Spoils PROVE Garbled(s, how) \in W
    <3>1. how.words \in Seq(STRING)
      BY SpoilsAre
    <3>2. [s EXCEPT !.text = how.words] \in W
      BY <3>1
    <3> QED BY <3>2 DEF Garbled
  <2>3. MorphForm = G \cup W
    BY DEF MorphForm
  <2> HIDE DEF G, W
  <2> QED BY <2>1, <2>2, <2>3 DEF Stable
<1> QED BY <1>3, <1>4, <1>5, <1>6, <1>7, <1>8, <1>9, FormsAre, KindsAre

LEMMA BodyHeardIs ==
  ASSUME NEW F, Stable(F), NEW body \in Seq(F), NEW those \in SUBSET Fragile(body), NEW hows \in [those -> Spoils]
  PROVE  /\ BodyHeard(body, hows) \in Seq(F) /\ Len(BodyHeard(body, hows)) = Len(body)
         /\ \A i \in DOMAIN body : BodyHeard(body, hows)[i].set = body[i].set
<1> DEFINE S(i) == IF i \in DOMAIN hows THEN Garbled(body[i], hows[i]) ELSE body[i]
           b == [i \in DOMAIN body |-> S(i)]
<1>1. ASSUME NEW i \in DOMAIN body PROVE S(i) \in F
  BY <1>1 DEF Stable, Fragile
<1>2. ASSUME NEW i \in DOMAIN body PROVE S(i).set = body[i].set
  BY <1>2 DEF Garbled
<1>3. BodyHeard(body, hows) = b
  BY DEF BodyHeard
<1>4. \A i \in DOMAIN body : b[i] = S(i)
  OBVIOUS
<1>5. \A i \in DOMAIN body : b[i].set = body[i].set
  BY <1>2, <1>4
<1> HIDE DEF S
<1>6. b \in Seq(F) /\ Len(b) = Len(body)
  BY <1>1
<1> QED BY <1>3, <1>5, <1>6

LEMMA FoundOf ==
  ASSUME NEW x, "body" \in DOMAIN x, NEW F, Stable(F), x.body \in Seq(F), NEW y \in Readings(x)
  PROVE  \E b \in Seq(F) : y = [x EXCEPT !.body = b]
<1> DEFINE H == UNION {[those -> Spoils] : those \in SUBSET Fragile(x.body)}
           R(hows) == [x EXCEPT !.body = BodyHeard(x.body, hows)]
<1>1. PICK those \in SUBSET Fragile(x.body) : \E hows \in [those -> Spoils] :
        y = [x EXCEPT !.body = BodyHeard(x.body, hows)]
  <2>1. y \in {R(hows) : hows \in H}
    BY Zenon DEF Readings
  <2> HIDE DEF R
  <2>2. PICK hows \in H : y = R(hows)
    BY <2>1
  <2>3. PICK those \in SUBSET Fragile(x.body) : hows \in [those -> Spoils]
    BY <2>2
  <2> QED BY <2>2, <2>3 DEF R
<1>2. PICK hows \in [those -> Spoils] : y = [x EXCEPT !.body = BodyHeard(x.body, hows)]
  BY <1>1
<1>3. BodyHeard(x.body, hows) \in Seq(F)
  BY BodyHeardIs
<1> QED BY <1>2, <1>3

LEMMA HeardPlain ==
  ASSUME NEW x, "body" \notin DOMAIN x, x.do # "meta", NEW y \in Readings(x) PROVE y = x
BY DEF Readings

LEMMA NoneIs == ASSUME NEW s \in Seq({}) PROVE s = <<>>
<1>1. Len(s) = 0
  OBVIOUS
<1> QED BY <1>1

LEMMA SlotHeard ==
  ASSUME NEW do, NEW F, Stable(F), NEW x \in ByReference(do) \cup OfItsOwn(do, F) \cup Derived(do, F),
         NEW y \in Readings(x)
  PROVE  y \in ByReference(do) \cup OfItsOwn(do, F) \cup Derived(do, F)
<1>1. "body" \in DOMAIN x
  BY DEF ByReference, OfItsOwn, Derived
<1>2. CASE x \in ByReference(do)
  <2>1. x.body = <<>>
    BY <1>2 DEF ByReference
  <2>4. x.body \in Seq({})
    BY <2>1, FormlessIs
  <2>2. PICK b \in Seq({}) : y = [x EXCEPT !.body = b]
    BY <1>1, <2>4, FoundOf, StableForms
  <2>3. b = <<>>
    BY NoneIs
  <2> QED BY <1>2, <2>2, <2>3 DEF ByReference
<1>3. CASE x \in OfItsOwn(do, F)
  <2>1. PICK b \in Seq(F) : y = [x EXCEPT !.body = b]
    BY <1>1, <1>3, FoundOf DEF OfItsOwn
  <2> QED BY <1>3, <2>1 DEF OfItsOwn
<1>4. CASE x \in Derived(do, F)
  <2>1. PICK b \in Seq(F) : y = [x EXCEPT !.body = b]
    BY <1>1, <1>4, FoundOf DEF Derived
  <2> QED BY <1>4, <2>1 DEF Derived
<1> QED BY <1>2, <1>3, <1>4

LEMMA DefinitionHeard ==
  ASSUME NEW kind \in AllKinds, NEW x \in Definition(kind, Form(kind)), NEW y \in Readings(x)
  PROVE  y \in Definition(kind, Form(kind))
<1>1. "body" \in DOMAIN x /\ x.body \in Seq(Form(kind))
  BY DEF Definition
<1>2. PICK b \in Seq(Form(kind)) : y = [x EXCEPT !.body = b]
  BY <1>1, FoundOf, StableForms
<1> QED BY <1>2 DEF Definition

LEMMA KaraokeAgain ==
  ASSUME NEW morph, NEW F, Stable(F), NEW x \in [do : {"karaoke"}, morph : {morph}, body : Seq(F)],
         NEW y \in Readings(x)
  PROVE  y \in [do : {"karaoke"}, morph : {morph}, body : Seq(F)]
<1>1. PICK b \in Seq(F) : y = [x EXCEPT !.body = b]
  BY FoundOf
<1> QED BY <1>1

LEMMA TagHeard ==
  ASSUME NEW x \in [do : {"meta"}, leaf : [tag : STRING, value : STRING]], NEW y \in Readings(x)
  PROVE  y \in [do : {"meta"}, leaf : [tag : STRING, value : STRING]]
<1>1. "body" \notin DOMAIN x /\ x.do = "meta"
  OBVIOUS
<1>2. y = x \/ \E how \in Spoils : y = [x EXCEPT !.leaf.tag = how.name]
  BY <1>1 DEF Readings
<1>3. ASSUME NEW how \in Spoils
      PROVE  [x EXCEPT !.leaf.tag = how.name] \in [do : {"meta"}, leaf : [tag : STRING, value : STRING]]
  <2>1. how.name \in STRING
    BY SpoilsAre
  <2> QED BY <2>1
<1> QED BY <1>2, <1>3

LEMMA GrammarHeard == ASSUME NEW x \in Grammar, NEW y \in Readings(x) PROVE y \in Grammar
<1>1. CASE x \in DefGrammar
  <2>1. CASE \/ x \in [do : {"comment"}, name : STRING] \/ x \in [do : {"timebase"}, time : Nat]
             \/ x \in [do : {"headers"}]
    <3>1. "body" \notin DOMAIN x /\ x.do # "meta"
      BY <2>1
    <3> QED BY <3>1, HeardPlain
  <2>2. CASE \E kind \in AllKinds : x \in Definition(kind, Form(kind))
    <3>1. PICK kind \in AllKinds : x \in Definition(kind, Form(kind))
      BY <2>2
    <3>2. y \in Definition(kind, Form(kind))
      BY <3>1, DefinitionHeard
    <3>3. y \in DefGrammar
      BY <3>2, FormsAre, KindsAre DEF DefGrammar
    <3> QED BY <3>3 DEF Grammar
  <2> QED BY <1>1, <2>1, <2>2, FormsAre, KindsAre DEF DefGrammar
<1>2. CASE x \in EventGrammar
  <2> DEFINE Dated == [do : {"from"}, t0 : Nat] \cup [do : {"to"}, t1 : Nat] \cup [do : {"for"}, for : Nat]
                   \cup [do : {"from_for"}, t0 : Nat, for : Nat] \cup [do : {"from_to"}, t0 : Nat, t1 : Nat]
             Of == [do : {"id"}, n : Nat] \cup [do : {"language", "directionality"}, name : STRING]
                   \cup [do : {"text"}, text : Seq(STRING), pre : BOOLEAN, markup : BOOLEAN]
                   \cup [do : {"end"}]
             Tagged == [do : {"meta"}, leaf : [tag : STRING, value : STRING]]
             Marking == [do : {"karaoke"}, morph : {FALSE}, body : Seq(MarkerForm)]
             Morphing == [do : {"karaoke"}, morph : {TRUE}, body : Seq(MorphForm)]
             SlotSet(s, F) == ByReference(s) \cup OfItsOwn(s, F) \cup Derived(s, F)
             Owned(s, F) == ByReference(s) \cup OfItsOwn(s, F)
             Others == Owned("palette", PaletteForm) \cup Owned("bitmap", BitmapForm)
                       \cup Owned("local", BitmapForm) \cup Owned("motion", MotionForm) \cup ByReference("mapping")
             Slotted3 == SlotSet("region", RegionForm) \cup SlotSet("style", StyleForm)
                         \cup SlotSet("secondary", StyleForm)
  <2>1. \A z : z \in EventGrammar <=> z \in Dated \cup Of \cup Tagged \cup Marking \cup Morphing \cup Slotted3 \cup Others
    BY Zenon DEF EventGrammar
  <2>2. /\ Stable(RegionForm) /\ Stable(StyleForm) /\ Stable(PaletteForm) /\ Stable(BitmapForm)
        /\ Stable(MotionForm) /\ Stable(MarkerForm) /\ Stable(MorphForm)
    BY StableForms, FormsAre, KindsAre
  <2>3. ASSUME x \in Dated \cup Of PROVE y \in Dated \cup Of
    <3>1. "body" \notin DOMAIN x /\ x.do # "meta"
      BY <2>3
    <3>2. y = x
      BY <3>1, HeardPlain
    <3> QED BY <2>3, <3>2
  <2>4. ASSUME x \in Tagged PROVE y \in Tagged
    BY <2>4, TagHeard
  <2>5. ASSUME x \in Marking PROVE y \in Marking
    BY <2>2, <2>5, KaraokeAgain
  <2>6. ASSUME x \in Morphing PROVE y \in Morphing
    BY <2>2, <2>6, KaraokeAgain
  <2>7. ASSUME x \in Slotted3 PROVE y \in Slotted3
    <3>1. ASSUME NEW do, NEW F, Stable(F), x \in SlotSet(do, F) PROVE y \in SlotSet(do, F)
      BY <3>1, SlotHeard
    <3> HIDE DEF SlotSet
    <3> QED BY <2>2, <2>7, <3>1
  <2>8. ASSUME x \in Others PROVE y \in Others
    <3>1. ASSUME NEW do, x \in ByReference(do) PROVE y \in ByReference(do)
      <4>1. /\ x \in ByReference(do) \cup OfItsOwn(do, {}) \cup Derived(do, {})
            /\ y \in ByReference(do) \cup OfItsOwn(do, {}) \cup Derived(do, {})
        BY <3>1, SlotHeard, StableForms
      <4>2. x.ref # NoRef
        BY <3>1 DEF ByReference
      <4>3. y.ref = x.ref /\ y.braces = x.braces
        <5>1. "body" \in DOMAIN x /\ x.body \in Seq({})
          BY <3>1, FormlessIs DEF ByReference
        <5>2. PICK b \in Seq({}) : y = [x EXCEPT !.body = b]
          BY <5>1, FoundOf, StableForms
        <5> QED BY <3>1, <5>2 DEF ByReference
      <4>4. x.braces = FALSE
        BY <3>1 DEF ByReference
      <4> QED BY <4>1, <4>3, <4>4 DEF OfItsOwn, Derived
    <3>2. ASSUME NEW do, NEW F, Stable(F), x \in OfItsOwn(do, F) PROVE y \in OfItsOwn(do, F)
      <4>1. "body" \in DOMAIN x /\ x.body \in Seq(F)
        BY <3>2 DEF OfItsOwn
      <4>2. PICK b \in Seq(F) : y = [x EXCEPT !.body = b]
        BY <3>2, <4>1, FoundOf
      <4> QED BY <3>2, <4>2 DEF OfItsOwn
    <3>3. ASSUME NEW do, NEW F, Stable(F), x \in Owned(do, F) PROVE y \in Owned(do, F)
      BY <3>1, <3>2, <3>3
    <3> HIDE DEF Owned
    <3> QED BY <2>2, <2>8, <3>1, <3>3
  <2> HIDE DEF Dated, Of, Tagged, Marking, Morphing, Slotted3, Others
  <2>9. y \in EventGrammar
    BY <1>2, <2>1, <2>3, <2>4, <2>5, <2>6, <2>7, <2>8
  <2> QED BY <2>9 DEF Grammar
<1>3. CASE x \in [do : {"event", "finish"}]
  <2>1. "body" \notin DOMAIN x /\ x.do # "meta"
    BY <1>3
  <2> QED BY <2>1, HeardPlain
<1> QED BY <1>1, <1>2, <1>3 DEF Grammar

(* What can be read has the settings that an item may have.                  *)
LEMMA ReadableSays ==
  ASSUME NEW kind \in AllKinds, NEW ok \in BOOLEAN, NEW body \in Seq(Form(kind)), ~BodyUnreadable(kind, body),
         kind = "curve" /\ ok => ~Loose(body),
         kind = "motion" /\ ok => ~ \E i \in DOMAIN body : body[i].set = "curve" /\ Loose(body[i].body)
  PROVE  Says(kind, ok, body)
BY DEF Says, Said1, BodyUnreadable

-----------------------------------------------------------------------------
(* The inductive invariant.                                                  *)

(* What is left to read, and the time that was reached.                      *)
Reading ==
  /\ topic \in Topics \cup {"printed"} /\ todo \in Seq(Grammar) /\ budget \in Nat
  /\ last \in Nat /\ shared \in BOOLEAN /\ loose \in BOOLEAN
  /\ lost \in BOOLEAN /\ (lost => spoilt # {})
(* The tables of items, of their names as kept, and as written.              *)
Books ==
  /\ Tables
  /\ info = [k \in AllKinds |-> info[k]] /\ names = [k \in AllKinds |-> names[k]]
  /\ declared = [k \in AllKinds |-> declared[k]]
  /\ \A k \in AllKinds : declared[k] \in Seq(Word) /\ Len(declared[k]) = Len(info[k])
Parsing == parser \in Parsers({<<>>}) /\ Fine(parser, ~loose) /\ ItemsHold(parser, ~loose)
(* An item as it was sent refers to what it refers to in its table.          *)
Alike(kind, v, w) ==
  /\ kind = "region" => v.style = w.style
  /\ kind = "bitmap" => v.palette = w.palette /\ v.pixels = w.pixels
  /\ kind = "palette" => v.colors = w.colors
  /\ kind = "motion" => v.curves = w.curves
  /\ kind \in {"curve", "range", "mapping"} => v = w
Headed ==
  /\ parser.phase = "defs" => header = <<>>
  /\ DOMAIN header \subseteq {"comments", "items"}
  /\ header # <<>> =>
       /\ HeadersFit
       /\ \A k \in AllKinds :
            /\ Len(header.items[k]) = Len(info[k]) /\ DOMAIN header.items[k] = DOMAIN info[k]
            /\ \A i \in DOMAIN info[k] : Alike(k, header.items[k][i], info[k][i])
EventFits(ev, wrong, ok) ==
  /\ ~wrong => \A ref \in EventRefs(ev) : ref[1] \in AllKinds /\ InTable(ref[1], ref[2])
  /\ ~wrong /\ ok => Garbage \notin EventValues(ev)
Logged ==
  /\ sent \in Seq(Range(sent)) /\ saidlog \in Seq(Range(saidlog)) /\ Len(saidlog) <= Len(sent)
  /\ \A n \in DOMAIN sent : EventFits(sent[n], parser.wrong, ~loose)
IInv == Reading /\ Books /\ Parsing /\ Headed /\ Logged

-----------------------------------------------------------------------------
(* A step of the parser, and what it leaves as it was.                       *)

After(p, q, ok) ==
  /\ q \in Parsers({<<>>}) /\ Fine(q, ok)
  /\ p.wrong => q.wrong
  /\ Len(p.metas) <= Len(q.metas)
  /\ q.phase = "defs" => p.phase = "defs"

LEMMA StepsAfter ==
  ASSUME NEW p, NEW ok \in BOOLEAN, NEW q \in Steps({<<>>}, p, ok) PROVE After(p, q, ok)
BY DEF Steps, Moves, After

LEMMA FineStill ==
  ASSUME NEW p, NEW ok \in BOOLEAN, NEW ok2 \in BOOLEAN, ok2 => ok, Fine(p, ok) PROVE Fine(p, ok2)
BY DEF Fine, PendingFits, SlotFits

LEMMA ItemsStill ==
  ASSUME NEW p \in Parsers({<<>>}), NEW q, NEW ok \in BOOLEAN, NEW ok2 \in BOOLEAN, ok2 => ok,
         ItemsHold(p, ok), After(p, q, ok2)
  PROVE  ItemsHold(q, ok2)
<1> DEFINE m == [q EXCEPT !.phase = p.phase]
<1>1. q \in Parsers({<<>>}) /\ p.phase \in Phases
  BY ParserHas DEF After
<1>2. m \in Parsers({<<>>}) /\ m.wrong = q.wrong /\ m.metas = q.metas /\ m.phase = p.phase
  BY <1>1 DEF Parsers
<1> HIDE DEF m
<1>3. Moves(p, m)
  BY <1>2 DEF Moves, After
<1>4. ItemsHold(m, ok2)
  BY <1>2, <1>3, ItemsStay
<1> QED BY <1>2, <1>4 DEF ItemsHold

LEMMA ReadyIs ==
  ASSUME Parsing, loose \in BOOLEAN, Going(parser), NEW ok \in BOOLEAN, ok => ~loose
  PROVE  Starts(parser, ok)
<1> DEFINE held == ~loose
<1>1. parser \in Parsers({<<>>}) /\ Fine(parser, held) /\ ItemsHold(parser, held) /\ held \in BOOLEAN /\ (ok => held)
  BY DEF Parsing
<1> HIDE DEF held
<1>2. Fine(parser, ok)
  BY <1>1, FineStill
<1>3. Reads(parser, parser)
  BY <1>1, ReadsItself
<1>4. ItemsHold(parser, ok)
  BY <1>1, <1>3, ItemsStay DEF Reads
<1> QED BY <1>1, <1>2, <1>4 DEF Starts

LEMMA OnlyIs ==
  ASSUME NEW ok \in BOOLEAN, Starts(parser, ok), NEW r, Leaves1(parser, r, ok), Only(r)
  PROVE  After(parser, parser', ok) /\ Defs /\ Events
<1>1. [r EXCEPT !.v = <<>>] \in Steps({<<>>}, parser, ok)
  BY LeavesRead
<1>2. parser' = [r EXCEPT !.v = <<>>] /\ Defs /\ Events
  BY DEF Only, Read
<1>3. parser' \in Steps({<<>>}, parser, ok)
  BY <1>1, <1>2
<1> QED BY <1>2, <1>3, StepsAfter

LEMMA AtOnce ==
  ASSUME NEW p, NEW ok, NEW V, NEW r \in Steps(V, p, ok) PROVE Leaves1(p, r, ok)
BY DEF Leaves1

(* What the parser may be set to between events.                             *)
Turned(p, phase, event, pending) ==
  [p EXCEPT !.phase = phase, !.event = event, !.pending = pending, !.v = <<>>]
LEMMA TurnedIs ==
  ASSUME NEW p \in Parsers({<<>>}), NEW ok \in BOOLEAN, Fine(p, ok),
         NEW phase \in {"events", "event", "done"}, NEW event \in EventOf, NEW pending \in PendingOf,
         ~p.wrong => PendingFits(pending, ok)
  PROVE  After(p, Turned(p, phase, event, pending), ok)
<1> DEFINE q == [p EXCEPT !.phase = phase, !.event = event]
           r == [q EXCEPT !.pending = pending, !.v = <<>>]
<1>1. phase \in Phases
  BY DEF Phases
<1>2. /\ q \in Parsers({<<>>}) /\ q.phase = phase /\ q.wrong = p.wrong /\ q.metas = p.metas
      /\ q.kregion = p.kregion
  BY <1>1 DEF Parsers
<1>3. Turned(p, phase, event, pending) = r
  BY DEF Turned
<1> HIDE DEF q
<1>4. /\ r \in Parsers({<<>>}) /\ r.phase = phase /\ r.wrong = p.wrong /\ r.metas = p.metas
      /\ r.kregion = p.kregion /\ r.pending = pending
  BY <1>2 DEF Parsers
<1> HIDE DEF r
<1>5. Fine(r, ok)
  BY <1>4 DEF Fine
<1>6. Len(p.metas) \in Nat
  BY ParserHas
<1> QED BY <1>3, <1>4, <1>5, <1>6 DEF After

LEMMA Event0Is == Event0 \in EventOf
<1>1. <<>> \in Seq(Word)
  BY FormlessIs
<1> QED BY <1>1 DEF Event0, EventOf

LEMMA Pending0Is == Pending0 \in PendingOf /\ \A ok : PendingFits(Pending0, ok)
<1>1. /\ <<>> \in Seq(InfoSlot \cup LocalSlot) /\ <<>> \in Seq(InfoSlot \cup OwnSlot(MotionVal))
      /\ <<>> \in Seq(Leaf)
  BY FormlessIs
<1>2. NoSlot \in InfoSlot /\ NoSlot.at = "none"
  BY DEF NoSlot, InfoSlot
<1>3. Pending0 \in PendingOf
  BY <1>1, <1>2, Words0 DEF Pending0, PendingOf
<1>4. /\ \A s \in Slots : Pending0[s] = NoSlot
      /\ Pending0.mapping = NoSlot /\ Pending0.bitmaps = <<>> /\ Pending0.motions = <<>>
  BY DEF Pending0, Slots
<1>5. \A ok : PendingFits(Pending0, ok)
  BY <1>2, <1>4 DEF PendingFits, SlotFits
<1> QED BY <1>3, <1>5

Ready(x, ok) ==
  /\ Parsing /\ loose \in BOOLEAN /\ Going(parser)
  /\ x \in Grammar /\ ok \in BOOLEAN /\ (ok => ~loose /\ ~LooseIn(x))
(* The statements that change the parser, and nothing else.                  *)
Statement(x) ==
  \/ Comment(x) \/ Timebase(x) \/ HeadersFail(x) \/ OpenEvent(x) \/ SetTimes(x) \/ SetText(x)
  \/ SetSlot(x) \/ AddLocalBitmap(x) \/ AddEventMotion(x) \/ SetMapping(x) \/ AddEventMeta(x)
  \/ SetId(x) \/ SetLanguage(x) \/ SetDirectionality(x) \/ Karaoke(x) \/ Finish(x)

LEMMA SyntaxErrorIs ==
  ASSUME NEW x, NEW ok, Ready(x, ok), SyntaxError(x)
  PROVE  After(parser, parser', ok) /\ Defs /\ Events
<1>1. Starts(parser, ok) /\ ok \in BOOLEAN
  BY ReadyIs DEF Ready
<1>2. parser \in Steps({<<>>}, parser, ok) /\ parser \in Parsers({<<>>})
  BY <1>1, StartsItself DEF Starts
<1>3. Ended(parser, "stopped") \in Steps({<<>>}, parser, ok)
  BY <1>1, <1>2, ErrSteps
<1>4. Leaves1(parser, Ended(parser, "stopped"), ok)
  BY <1>3, AtOnce
<1> QED BY <1>1, <1>4, OnlyIs DEF SyntaxError

LEMMA ChangedIs ==
  ASSUME NEW V, NEW p0 \in Parsers({<<>>}), NEW ok \in BOOLEAN, NEW p \in Steps({<<>>}, p0, ok),
         NEW comments \in Seq(Word), NEW time \in Int
  PROVE  /\ [p EXCEPT !.comments = comments] \in Steps({<<>>}, p0, ok)
         /\ [p EXCEPT !.timebase = time] \in Steps({<<>>}, p0, ok)
<1> DEFINE q == [p EXCEPT !.comments = comments]
           r == [p EXCEPT !.timebase = time]
<1>1. p \in Parsers({<<>>}) /\ Fine(p, ok) /\ Moves(p0, p)
  BY DEF Steps
<1>2. /\ q \in Parsers({<<>>}) /\ q.phase = p.phase /\ q.wrong = p.wrong /\ q.pending = p.pending
      /\ q.kregion = p.kregion /\ q.metas = p.metas
  BY <1>1 DEF Parsers
<1>3. /\ r \in Parsers({<<>>}) /\ r.phase = p.phase /\ r.wrong = p.wrong /\ r.pending = p.pending
      /\ r.kregion = p.kregion /\ r.metas = p.metas
  BY <1>1 DEF Parsers
<1> HIDE DEF q, r
<1>4. q \in Steps({<<>>}, p0, ok)
  BY <1>1, <1>2 DEF Fine, Moves, Steps
<1>5. r \in Steps({<<>>}, p0, ok)
  BY <1>1, <1>3 DEF Fine, Moves, Steps
<1> QED BY <1>4, <1>5 DEF q, r

LEMMA BodySays ==
  ASSUME NEW x, NEW ok, Ready(x, ok), ~Unreadable(x)
  PROVE  /\ x.do \in Slots => Says(KindOf(x.do), ok, x.body)
         /\ x.do = "local" => Says("bitmap", ok, x.body)
         /\ x.do = "motion" => Says("motion", ok, x.body)
         /\ x.do = "define" => Says(x.kind, ok, x.body)
<1>1. Typed(x) /\ ok \in BOOLEAN /\ (ok => ~LooseIn(x))
  BY GrammarTyped DEF Ready
<1>2. ASSUME x.do \in Slots PROVE Says(KindOf(x.do), ok, x.body)
  <2>1. KindOf(x.do) \in AllKinds \ {"curve", "motion"}
    BY <1>2, KindsAre DEF Slots, KindOf
  <2>2. x.body \in Seq(Form(KindOf(x.do)))
    BY <1>1, <1>2 DEF Typed
  <2>3. ~BodyUnreadable(KindOf(x.do), x.body)
    BY <1>2 DEF Unreadable, Slots
  <2> HIDE DEF KindOf
  <2> QED BY <1>1, <2>1, <2>2, <2>3, ReadableSays
<1>3. ASSUME x.do = "local" PROVE Says("bitmap", ok, x.body)
  <2>1. x.body \in Seq(Form("bitmap"))
    BY <1>1, <1>3, FormsAre DEF Typed
  <2>2. ~BodyUnreadable("bitmap", x.body)
    BY <1>3 DEF Unreadable, Slots
  <2> QED BY <1>1, <2>1, <2>2, ReadableSays, KindsAre
<1>4. ASSUME x.do = "motion" PROVE Says("motion", ok, x.body)
  <2>1. x.body \in Seq(Form("motion"))
    BY <1>1, <1>4, FormsAre DEF Typed
  <2>2. ~BodyUnreadable("motion", x.body)
    BY <1>4 DEF Unreadable, Slots
  <2>3. ok => ~ \E i \in DOMAIN x.body : x.body[i].set = "curve" /\ Loose(x.body[i].body)
    BY <1>1, <1>4 DEF LooseIn
  <2> QED BY <1>1, <2>1, <2>2, <2>3, ReadableSays, KindsAre
<1>5. ASSUME x.do = "define" PROVE Says(x.kind, ok, x.body)
  <2>1. x.kind \in AllKinds /\ x.body \in Seq(Form(x.kind))
    BY <1>1, <1>5 DEF Typed
  <2>2. ~BodyUnreadable(x.kind, x.body)
    BY <1>5 DEF Unreadable, Slots
  <2>3. /\ x.kind = "curve" /\ ok => ~Loose(x.body)
        /\ x.kind = "motion" /\ ok => ~ \E i \in DOMAIN x.body : x.body[i].set = "curve" /\ Loose(x.body[i].body)
    BY <1>1, <1>5 DEF LooseIn
  <2> QED BY <1>1, <2>1, <2>2, <2>3, ReadableSays
<1> QED BY <1>2, <1>3, <1>4, <1>5

LEMMA StatementIs ==
  ASSUME NEW x, NEW ok, Ready(x, ok), ~Unreadable(x), Statement(x)
  PROVE  After(parser, parser', ok) /\ Defs /\ Events
<1>1. Starts(parser, ok) /\ ok \in BOOLEAN /\ Typed(x)
  BY ReadyIs, GrammarTyped DEF Ready
<1>2. /\ parser \in Steps({<<>>}, parser, ok) /\ parser \in Parsers({<<>>}) /\ Fine(parser, ok)
      /\ parser.comments \in Seq(Word) /\ parser.timebase \in Int /\ parser.event \in EventOf
      /\ parser.pending \in PendingOf
  BY <1>1, StartsItself, ParserHas DEF Starts
<1>3. ASSUME NEW r \in Steps({<<>>}, parser, ok), Only(r) PROVE After(parser, parser', ok) /\ Defs /\ Events
  BY <1>1, <1>3, AtOnce, OnlyIs
<1>4. ASSUME NEW r, Leaves1(parser, r, ok), Only(r) PROVE After(parser, parser', ok) /\ Defs /\ Events
  BY <1>1, <1>4, OnlyIs
<1>5. CASE Comment(x)
  <2> DEFINE list == Append(parser.comments, x.name)
  <2>1. x.name \in Word
    BY <1>1, <1>5 DEF Comment, Typed
  <2>2. list \in Seq(Word)
    BY <1>2, <2>1, AppendIs
  <2>3. Only(parser) \/ Only([parser EXCEPT !.comments = list])
    BY <1>5, Zenon DEF Comment
  <2> HIDE DEF list
  <2>4. [parser EXCEPT !.comments = list] \in Steps({<<>>}, parser, ok)
    BY <1>1, <1>2, <2>2, ChangedIs
  <2> QED BY <1>2, <1>3, <2>3, <2>4
<1>6. CASE Timebase(x)
  <2>1. x.time \in Int /\ Only([parser EXCEPT !.timebase = x.time])
    BY <1>1, <1>6 DEF Timebase, Typed
  <2>2. [parser EXCEPT !.timebase = x.time] \in Steps({<<>>}, parser, ok)
    BY <1>1, <1>2, <2>1, ChangedIs
  <2> QED BY <1>3, <2>1, <2>2
<1>7. CASE HeadersFail(x)
  <2>1. Ended(parser, "exited") \in Steps({<<>>}, parser, ok)
    BY <1>1, <1>2, ErrSteps
  <2> QED BY <1>3, <1>7, <2>1 DEF HeadersFail
<1>8. CASE OpenEvent(x)
  <2>1. parser' = Turned(parser, "event", Event0, parser.pending) /\ Defs /\ Events
    BY <1>2, <1>8 DEF OpenEvent, Only, Read, Turned, Parsers
  <2>2. ~parser.wrong => PendingFits(parser.pending, ok)
    BY <1>2 DEF Fine
  <2> QED BY <1>1, <1>2, <2>1, <2>2, TurnedIs, Event0Is
<1>9. CASE Finish(x)
  <2>1. parser' = Turned(parser, "done", parser.event, parser.pending) /\ Defs /\ Events
    BY <1>2, <1>9 DEF Finish, Only, Read, Turned, Parsers
  <2>2. ~parser.wrong => PendingFits(parser.pending, ok)
    BY <1>2 DEF Fine
  <2> QED BY <1>1, <1>2, <2>1, <2>2, TurnedIs
<1>10. CASE SetTimes(x)
  <2>1. TimesRead(parser, x) \in Steps({<<>>}, parser, ok)
    BY <1>1, <1>10, TimesReadIs DEF SetTimes, Typed
  <2> QED BY <1>3, <1>10, <2>1 DEF SetTimes
<1>11. CASE SetText(x)
  <2>1. TextRead(parser, x) \in Steps({<<>>}, parser, ok)
    BY <1>1, <1>11, TextReadIs DEF SetText, Typed
  <2> QED BY <1>3, <1>11, <2>1 DEF SetText
<1>12. CASE SetSlot(x)
  <2>1. x.do \in Slots /\ (x.ref # NoRef => x.ref \in Reference) /\ Only(SlotRead(parser, x))
    BY <1>1, <1>12 DEF SetSlot, Typed, Refers
  <2>2. Leaves1(parser, SlotRead(parser, x), ok)
    BY <1>1, <2>1, BodySays, SlotReadIs
  <2> QED BY <1>4, <2>1, <2>2
<1>13. CASE AddLocalBitmap(x)
  <2>1. x.do = "local" /\ (x.ref # NoRef => x.ref \in Reference) /\ Only(LocalRead(parser, x))
    BY <1>1, <1>13 DEF AddLocalBitmap, Typed, Refers
  <2>2. Leaves1(parser, LocalRead(parser, x), ok)
    BY <1>1, <2>1, BodySays, LocalReadIs
  <2> QED BY <1>4, <2>1, <2>2
<1>14. CASE AddEventMotion(x)
  <2>1. x.do = "motion" /\ (x.ref # NoRef => x.ref \in Reference) /\ Only(MotionRead(parser, x))
    BY <1>1, <1>14 DEF AddEventMotion, Typed, Refers
  <2>2. Leaves1(parser, MotionRead(parser, x), ok)
    BY <1>1, <2>1, BodySays, MotionReadIs
  <2> QED BY <1>4, <2>1, <2>2
<1>15. CASE SetMapping(x)
  <2>1. MappingRead(parser, x) \in Steps({<<>>}, parser, ok)
    BY <1>1, <1>15, MappingReadIs DEF SetMapping, Typed
  <2> QED BY <1>3, <1>15, <2>1 DEF SetMapping
<1>16. CASE AddEventMeta(x)
  <2>1. MetaRead(parser, x) \in Steps({<<>>}, parser, ok)
    BY <1>1, <1>16, MetaReadIs DEF AddEventMeta, Typed
  <2> QED BY <1>3, <1>16, <2>1 DEF AddEventMeta
<1>17. CASE SetId(x)
  BY <1>2, <1>3, <1>17 DEF SetId
<1>18. CASE SetLanguage(x)
  <2>1. x.name \in Word /\ Only([parser EXCEPT !.pending.language = x.name])
    BY <1>1, <1>18 DEF SetLanguage, Typed
  <2>2. [parser EXCEPT !.pending.language = x.name] \in Steps({<<>>}, parser, ok)
    BY <1>1, <2>1, SpokenIs
  <2> QED BY <1>3, <2>1, <2>2
<1>19. CASE SetDirectionality(x)
  <2>1. x.name \in Word /\ Only([parser EXCEPT !.pending.direction = x.name])
    BY <1>1, <1>19 DEF SetDirectionality, Typed
  <2>2. [parser EXCEPT !.pending.direction = x.name] \in Steps({<<>>}, parser, ok)
    BY <1>1, <2>1, SpokenIs
  <2> QED BY <1>3, <2>1, <2>2
<1>20. CASE Karaoke(x)
  <2>1. x.body \in Seq(MarkerForm \cup MorphForm) /\ Only(KaraokeRead(parser, x))
    BY <1>1, <1>20 DEF Karaoke, Typed
  <2>2. Leaves1(parser, KaraokeRead(parser, x), ok)
    BY <1>1, <2>1, KaraokeReadIs
  <2> QED BY <1>4, <2>1, <2>2
<1> QED BY <1>5, <1>6, <1>7, <1>8, <1>9, <1>10, <1>11, <1>12, <1>13, <1>14, <1>15, <1>16, <1>17,
           <1>18, <1>19, <1>20 DEF Statement

-----------------------------------------------------------------------------
(* What a step keeps of the invariant.                                       *)

(* The tables only grow.                                                     *)
Grown ==
  \A k \in AllKinds : Len(info[k]) \in Nat /\ Len(info'[k]) \in Nat /\ Len(info[k]) <= Len(info'[k])

LEMMA FineGrown ==
  ASSUME Grown, Fine(parser', ~loose') PROVE Fine(parser, ~loose)'
<1>1. \A k \in AllKinds : \A i : InTable(k, i) => i \in 0 .. Len(info'[k]) - 1
  BY DEF Grown, InTable
<1>2. (parser.phase = "crashed" => parser.wrong)'
  BY DEF Fine
<1>3. ASSUME ~parser'.wrong
      PROVE  Within("region", parser.kregion)' /\ PendingFits(parser.pending, ~loose)'
  <2>1. Within("region", parser'.kregion) /\ PendingFits(parser'.pending, ~loose')
    BY <1>3 DEF Fine
  <2>2. Within("region", parser.kregion)'
    BY <1>1, <2>1, KindsAre DEF Within, InTable
  <2>3. ASSUME NEW kind \in AllKinds, NEW slot, SlotFits(kind, slot, ~loose')
        PROVE  /\ slot.at = "info" => slot.index \in 0 .. Len(info'[kind]) - 1
               /\ slot.at \in {"own", "local"} => Within(kind, slot.own)' /\ (~loose' => Full(kind, slot.own))
               /\ slot.at = "local" => ~slot.freed
    <3>1. ASSUME slot.at \in {"own", "local"} PROVE Within(kind, slot.own)'
      <4>1. Within(kind, slot.own)
        BY <2>3, <3>1 DEF SlotFits
      <4> QED BY <1>1, <4>1, KindsAre DEF Within, InTable
    <3> QED BY <1>1, <2>3, <3>1 DEF SlotFits
  <2>4. PendingFits(parser.pending, ~loose)'
    <3>1. \A s \in Slots : SlotFits(KindOf(s), parser.pending[s], ~loose)'
      BY <2>1, <2>3, KindOfIs DEF PendingFits, SlotFits, InTable, Full
    <3>2. SlotFits("mapping", parser.pending.mapping, ~loose)'
      BY <2>1, <2>3, KindsAre DEF PendingFits, SlotFits, InTable, Full
    <3>3. \A i \in DOMAIN parser'.pending.bitmaps : SlotFits("bitmap", parser.pending.bitmaps[i], ~loose)'
      BY <2>1, <2>3, KindsAre DEF PendingFits, SlotFits, InTable, Full
    <3>4. \A i \in DOMAIN parser'.pending.motions : SlotFits("motion", parser.pending.motions[i], ~loose)'
      BY <2>1, <2>3, KindsAre DEF PendingFits, SlotFits, InTable, Full
    <3> QED BY <3>1, <3>2, <3>3, <3>4 DEF PendingFits
  <2> QED BY <2>2, <2>4
<1> QED BY <1>2, <1>3 DEF Fine

LEMMA SameParsing ==
  ASSUME Books, Parsing, loose \in BOOLEAN, loose' \in BOOLEAN, loose => loose',
         After(parser, parser', ~loose'), Defs
  PROVE  Books' /\ Parsing'
<1>1. info' = info /\ names' = names /\ declared' = declared
  BY DEF Defs
<1>2. Books'
  BY <1>1 DEF Books, Tables
<1>3. Grown
  <2>1. \A k \in AllKinds : info[k] \in Seq(Val(k))
    BY DEF Books, Tables
  <2>2. \A k \in AllKinds : Len(info[k]) \in Nat
    BY <2>1
  <2> QED BY <1>1, <2>2 DEF Grown
<1>4. Fine(parser, ~loose)'
  BY <1>3, FineGrown DEF After
<1>5. ItemsHold(parser', ~loose')
  <2> DEFINE a == ~loose
             b == ~loose'
  <2>1. a \in BOOLEAN /\ b \in BOOLEAN /\ (b => a) /\ parser \in Parsers({<<>>}) /\ ItemsHold(parser, a)
        /\ After(parser, parser', b)
    BY DEF Parsing
  <2> HIDE DEF a, b
  <2>2. ItemsHold(parser', b)
    BY <2>1, ItemsStill
  <2> QED BY <2>2 DEF b
<1>6. ItemsHold(parser, ~loose)'
  BY <1>1, <1>5 DEF ItemsHold, Tables, Within, InTable, Full
<1>7. (parser \in Parsers({<<>>}))'
  BY DEF After
<1> QED BY <1>2, <1>4, <1>6, <1>7 DEF Parsing

LEMMA SameHeaded ==
  ASSUME Headed, After(parser, parser', ~loose'), Defs, UNCHANGED header
  PROVE  Headed'
<1>1. info' = info /\ header' = header
  BY DEF Defs
<1>2. HeadersFit => HeadersFit'
  BY <1>1 DEF HeadersFit, RangeFits
<1> QED BY <1>1, <1>2 DEF Headed, After, Alike

LEMMA SameLogged ==
  ASSUME Logged, Grown, parser.wrong => parser'.wrong, loose => loose', UNCHANGED <<sent, saidlog>>
  PROVE  Logged'
<1>1. \A k \in AllKinds : \A i : InTable(k, i) => i \in 0 .. Len(info'[k]) - 1
  BY DEF Grown, InTable
<1>2. ASSUME NEW n \in DOMAIN sent' PROVE EventFits(sent[n], parser.wrong, ~loose)'
  <2>1. EventFits(sent[n], parser.wrong, ~loose)
    BY <1>2 DEF Logged
  <2> QED BY <1>1, <2>1 DEF EventFits, InTable
<1> QED BY <1>2 DEF Logged, Range

LEMMA PlaceIs == ASSUME NEW x, ~Unreadable(x) PROVE Place(x) = parser.phase
BY DEF Unreadable

LEMMA AppendHas ==
  ASSUME NEW S, NEW s \in Seq(S), NEW e \in S
  PROVE  \A i \in DOMAIN Append(s, e) : (i \in DOMAIN s /\ Append(s, e)[i] = s[i]) \/ Append(s, e)[i] = e
OBVIOUS

LEMMA DefineIs ==
  ASSUME Books, Headed, Logged, loose' \in BOOLEAN, loose => loose', NEW x, Ready(x, ~loose'),
         ~Unreadable(x), Define(x)
  PROVE  Books' /\ Parsing' /\ Headed' /\ Logged' /\ last' = last
<1> DEFINE ok == ~loose'
           kind == x.kind
           r == ItemFrom(kind, parser, Initial(kind), x.body)
<1>1. x.do = "define" /\ AddItem(x, r)
  BY DEF Define
<1>2. Typed(x) /\ ok \in BOOLEAN /\ (ok => ~loose) /\ loose \in BOOLEAN /\ Parsing
  BY GrammarTyped DEF Ready
<1>3. kind \in AllKinds /\ x.name \in Word /\ Says(kind, ok, x.body)
  BY <1>1, <1>2, BodySays DEF Typed
<1> HIDE DEF ok
<1>4. Starts(parser, ok)
  BY <1>2, ReadyIs DEF Ready, ok
<1>5. parser \in Parsers({<<>>}) /\ Going(parser) /\ Fine(parser, ok) /\ ItemsHold(parser, ok)
  BY <1>4 DEF Starts
<1>6. [parser EXCEPT !.v = Initial(kind)] \in ReadingOf(kind, parser, ok)
  BY <1>2, <1>3, <1>5, ReadsItself, InitialIs
<1>7. r \in ItemOf(kind, parser, ok)
  BY <1>2, <1>3, <1>5, <1>6, ItemFromIs
<1>8. /\ Read(r) /\ Events
      /\ IF Going(r)
         THEN /\ info' = [info EXCEPT ![kind] = Append(@, r.v)]
              /\ declared' = [declared EXCEPT ![kind] = Append(@, x.name)]
              /\ \E name \in NamesRead(x.name) : names' = [names EXCEPT ![kind] = Append(@, name)]
         ELSE Defs
  BY <1>1 DEF AddItem
<1> HIDE DEF r
<1>9. After(parser, parser', ok)
  <2>1. r \in Steps(Val(kind), parser, ok)
    BY <1>2, <1>5, <1>7, ItemSteps
  <2>2. [r EXCEPT !.v = <<>>] \in Steps({<<>>}, parser, ok)
    BY <1>2, <1>4, <2>1, AtOnce, LeavesRead
  <2>3. parser' = [r EXCEPT !.v = <<>>]
    BY <1>8 DEF Read
  <2>4. parser' \in Steps({<<>>}, parser, ok)
    BY <2>2, <2>3
  <2> QED BY <1>2, <2>4, StepsAfter
<1>10. header = <<>> /\ header' = header
  <2>1. Place(x) = "defs"
    BY <1>1 DEF Place
  <2>2. parser.phase = "defs"
    BY <2>1, PlaceIs
  <2> QED BY <1>8, <2>2 DEF Headed, Events
<1>11. Headed'
  BY <1>10 DEF Headed
<1>12. last' = last /\ UNCHANGED <<sent, saidlog>>
  BY <1>8 DEF Events
<1>13. CASE ~Going(r)
  <2>1. Books' /\ Parsing'
    BY <1>2, <1>8, <1>9, <1>13, SameParsing DEF ok
  <2>2. Grown
    <3>1. \A k \in AllKinds : info[k] \in Seq(Val(k))
      BY DEF Books, Tables
    <3>2. \A k \in AllKinds : Len(info[k]) \in Nat
      BY <3>1
    <3> QED BY <1>8, <1>13, <3>2 DEF Grown, Defs
  <2>3. Logged'
    BY <1>2, <1>9, <1>12, <2>2, SameLogged DEF After, ok
  <2> QED BY <1>11, <1>12, <2>1, <2>3
<1>14. CASE Going(r)
  <2>1. PICK name \in Word :
          /\ info' = [info EXCEPT ![kind] = Append(@, r.v)]
          /\ declared' = [declared EXCEPT ![kind] = Append(@, x.name)]
          /\ names' = [names EXCEPT ![kind] = Append(@, name)]
    BY <1>3, <1>8, <1>14, NamesReadAre
  <2>2. /\ r \in Parsers(Val(kind)) /\ r.v \in Val(kind)
        /\ (HasMeta(kind) => r.v.meta <= Len(r.metas))
        /\ (~r.wrong => Within(kind, r.v)) /\ (~r.wrong /\ ok => Full(kind, r.v))
    BY <1>7, ParserHas DEF ItemOf
  <2>3. parser'.wrong = r.wrong /\ parser'.metas = r.metas
    BY <1>8, <2>2 DEF Read, Parsers
  <2>4. \A k \in AllKinds : /\ info[k] \in Seq(Val(k)) /\ names[k] \in Seq(Word) /\ declared[k] \in Seq(Word)
                            /\ Len(names[k]) = Len(info[k]) /\ Len(declared[k]) = Len(info[k])
    BY DEF Books, Tables
  <2>5. /\ \A k \in AllKinds : info'[k] = IF k = kind THEN Append(info[k], r.v) ELSE info[k]
        /\ \A k \in AllKinds : names'[k] = IF k = kind THEN Append(names[k], name) ELSE names[k]
        /\ \A k \in AllKinds : declared'[k] = IF k = kind THEN Append(declared[k], x.name) ELSE declared[k]
        /\ info' = [k \in AllKinds |-> info'[k]] /\ names' = [k \in AllKinds |-> names'[k]]
        /\ declared' = [k \in AllKinds |-> declared'[k]]
    BY <2>1 DEF Books
  <2>6. ASSUME NEW k \in AllKinds
        PROVE  /\ info'[k] \in Seq(Val(k)) /\ names'[k] \in Seq(Word) /\ declared'[k] \in Seq(Word)
               /\ (Len(info'[k]) = Len(info[k]) \/ Len(info'[k]) = Len(info[k]) + 1)
               /\ Len(names'[k]) = Len(info'[k]) /\ Len(declared'[k]) = Len(info'[k])
               /\ \A i \in DOMAIN info'[k] :
                    (i \in DOMAIN info[k] /\ info'[k][i] = info[k][i]) \/ (k = kind /\ info'[k][i] = r.v)
    <3>1. CASE k # kind
      <4>1. info'[k] = info[k] /\ names'[k] = names[k] /\ declared'[k] = declared[k]
        BY <2>5, <3>1
      <4> QED BY <2>4, <3>1, <4>1
    <3>2. CASE k = kind
      <4>1. /\ info'[k] = Append(info[k], r.v) /\ names'[k] = Append(names[k], name)
            /\ declared'[k] = Append(declared[k], x.name)
        BY <2>5, <3>2
      <4>2. /\ info[k] \in Seq(Val(k)) /\ names[k] \in Seq(Word) /\ declared[k] \in Seq(Word)
            /\ r.v \in Val(k)
        BY <2>2, <2>4, <3>2
      <4>3. info'[k] \in Seq(Val(k)) /\ Len(info'[k]) = Len(info[k]) + 1
        BY <4>1, <4>2, AppendIs
      <4>4. names'[k] \in Seq(Word) /\ Len(names'[k]) = Len(names[k]) + 1
        BY <4>1, <4>2, AppendIs
      <4>5. declared'[k] \in Seq(Word) /\ Len(declared'[k]) = Len(declared[k]) + 1
        BY <1>3, <4>1, <4>2, AppendIs
      <4>6. \A i \in DOMAIN info'[k] :
              (i \in DOMAIN info[k] /\ info'[k][i] = info[k][i]) \/ info'[k][i] = r.v
        BY <4>1, <4>2, AppendHas
      <4> QED BY <2>4, <3>2, <4>3, <4>4, <4>5, <4>6
    <3> QED BY <3>1, <3>2
  <2>7. Books'
    BY <2>5, <2>6 DEF Books, Tables
  <2>8. Grown
    <3>1. ASSUME NEW k \in AllKinds
          PROVE  Len(info[k]) \in Nat /\ Len(info'[k]) \in Nat /\ Len(info[k]) <= Len(info'[k])
      <4>1. info[k] \in Seq(Val(k)) /\ Len(info[k]) \in Nat
        BY <2>4
      <4>2. Len(info'[k]) = Len(info[k]) \/ Len(info'[k]) = Len(info[k]) + 1
        BY <2>6
      <4> QED BY <4>1, <4>2
    <3> QED BY <3>1 DEF Grown
  <2>9. Logged'
    BY <1>2, <1>9, <1>12, <2>8, SameLogged DEF After, ok
  <2>10. Fine(parser, ~loose)'
    BY <1>9, <2>8, FineGrown DEF After, ok
  <2>11. ItemsHold(parser', ok)
    BY <1>2, <1>5, <1>9, ItemsStill
  <2>12. \A k \in AllKinds : \A i : InTable(k, i) => i \in 0 .. Len(info'[k]) - 1
    BY <2>8 DEF Grown, InTable
  <2>13. ASSUME NEW k \in AllKinds, NEW i \in DOMAIN info'[k]
         PROVE  /\ HasMeta(k) => info'[k][i].meta <= Len(parser'.metas)
                /\ ~parser'.wrong => Within(k, info[k][i])'
                /\ ~parser'.wrong /\ ~loose' => Full(k, info'[k][i])
    <3> DEFINE w == info'[k][i]
    <3>1. /\ HasMeta(k) => w.meta <= Len(parser'.metas)
          /\ ~parser'.wrong => Within(k, w)
          /\ ~parser'.wrong /\ ok => Full(k, w)
      <4>1. CASE i \in DOMAIN info[k] /\ w = info[k][i]
        BY <2>11, <4>1 DEF ItemsHold
      <4>2. CASE k = kind /\ w = r.v
        BY <2>2, <2>3, <4>2
      <4> QED BY <2>6, <4>1, <4>2
    <3>2. Within(k, w) => Within(k, info[k][i])'
      BY <2>12, KindsAre DEF Within, InTable
    <3> QED BY <3>1, <3>2 DEF ok
  <2>14. ItemsHold(parser, ~loose)'
    BY <2>7, <2>13 DEF ItemsHold, Full, Books
  <2>15. Parsing'
    BY <1>9, <2>10, <2>14 DEF Parsing, After
  <2> QED BY <1>11, <1>12, <2>7, <2>9, <2>15
<1> QED BY <1>13, <1>14

-----------------------------------------------------------------------------
(* The headers are sent.                                                     *)

(* A value with its metadata refers to what it did, and holds what it did.   *)
LEMMA SealedAlike ==
  ASSUME NEW kind \in AllKinds, NEW v \in Val(kind), NEW metas PROVE Alike(kind, Sealed(kind, v, metas), v)
<1> DEFINE m == IF v.meta = 0 THEN <<>> ELSE metas[v.meta]
<1>1. Sealed(kind, v, metas) = IF HasMeta(kind) THEN [v EXCEPT !.meta = m] ELSE v
  BY DEF Sealed
<1> HIDE DEF m
<1>2. CASE kind = "style"
  BY <1>2 DEF Alike
<1>3. CASE kind = "region"
  BY <1>1, <1>3 DEF Alike, HasMeta, Val, RegionVal
<1>4. CASE kind = "curve"
  BY <1>1, <1>4 DEF Alike, HasMeta
<1>5. CASE kind = "motion"
  BY <1>1, <1>5 DEF Alike, HasMeta, Val, MotionVal, MotionOf
<1>6. CASE kind = "palette"
  BY <1>1, <1>6 DEF Alike, HasMeta, Val, PaletteVal
<1>7. CASE kind = "bitmap"
  BY <1>1, <1>7 DEF Alike, HasMeta, Val, BitmapVal
<1>8. CASE kind = "range"
  BY <1>1, <1>8 DEF Alike, HasMeta
<1>9. CASE kind = "mapping"
  BY <1>1, <1>9 DEF Alike, HasMeta
<1> QED BY <1>2, <1>3, <1>4, <1>5, <1>6, <1>7, <1>8, <1>9, KindsAre

LEMMA EachLong ==
  ASSUME NEW S, NEW s \in Seq(S), NEW t, DOMAIN t = DOMAIN s, t = [i \in DOMAIN t |-> t[i]]
  PROVE  Len(t) = Len(s) /\ t \in Seq(Range(t))
<1>1. Len(s) \in Nat /\ DOMAIN t = 1 .. Len(s)
  OBVIOUS
<1>2. \A i \in DOMAIN t : t[i] \in Range(t)
  BY DEF Range
<1>3. t \in [1 .. Len(s) -> Range(t)]
  BY <1>1, <1>2
<1> HIDE DEF Range
<1>4. t \in Seq(Range(t))
  BY <1>1, <1>3
<1> QED BY <1>1, <1>4

LEMMA HeadersIs ==
  ASSUME Books, Headed, Logged, loose' \in BOOLEAN, loose => loose', NEW x, Ready(x, ~loose'),
         ~Unreadable(x), Headers(x)
  PROVE  Books' /\ Parsing' /\ Headed' /\ Logged' /\ last' = last
<1> DEFINE ok == ~loose'
           Items(k) == [i \in DOMAIN info[k] |-> Sealed(k, info[k][i], parser.metas)]
<1>1. /\ HeadersFit /\ Defs /\ UNCHANGED <<last, sent, saidlog>>
      /\ header' = [comments |-> parser.comments, items |-> [k \in AllKinds |-> Items(k)]]
      /\ parser' = Turned(parser, "events", parser.event, parser.pending)
  <2>1. parser \in Parsers({<<>>})
    BY DEF Ready, Parsing
  <2>2. parser' = [[parser EXCEPT !.phase = "events"] EXCEPT !.v = <<>>]
    BY DEF Headers, Read
  <2>3. parser' = Turned(parser, "events", parser.event, parser.pending)
    BY <2>1, <2>2 DEF Turned, Parsers
  <2> QED BY <2>3 DEF Headers
<1>2. Parsing /\ ok \in BOOLEAN /\ (ok => ~loose) /\ loose \in BOOLEAN
  BY DEF Ready
<1>3. Starts(parser, ok)
  BY <1>2, ReadyIs DEF Ready
<1> HIDE DEF ok
<1>4. parser \in Parsers({<<>>}) /\ Fine(parser, ok) /\ parser.event \in EventOf /\ parser.pending \in PendingOf
  BY <1>3, ParserHas DEF Starts
<1>5. ~parser.wrong => PendingFits(parser.pending, ok)
  BY <1>4 DEF Fine
<1>6. After(parser, parser', ok)
  BY <1>1, <1>2, <1>4, <1>5, TurnedIs
<1>7. Books' /\ Parsing'
  BY <1>1, <1>2, <1>6, SameParsing DEF ok
<1>8. Grown
  <2>1. \A k \in AllKinds : info[k] \in Seq(Val(k))
    BY DEF Books, Tables
  <2>2. \A k \in AllKinds : Len(info[k]) \in Nat
    BY <2>1
  <2> QED BY <1>1, <2>2 DEF Grown, Defs
<1>9. Logged'
  BY <1>1, <1>2, <1>6, <1>8, SameLogged DEF After, ok
<1>10. parser'.phase = "events"
  BY <1>1, <1>4 DEF Turned, Parsers
<1>11. HeadersFit' /\ info' = info
  BY <1>1 DEF HeadersFit, RangeFits, Defs
<1>12. DOMAIN header' = {"comments", "items"} /\ header'.items = [k \in AllKinds |-> Items(k)]
  BY <1>1
<1>13. ASSUME NEW k \in AllKinds
       PROVE  /\ Len(header'.items[k]) = Len(info[k]) /\ DOMAIN header'.items[k] = DOMAIN info[k]
              /\ \A i \in DOMAIN info[k] : Alike(k, header'.items[k][i], info[k][i])
  <2>1. header'.items[k] = Items(k)
    BY <1>12
  <2>2. info[k] \in Seq(Val(k))
    BY DEF Books, Tables
  <2>3. DOMAIN Items(k) = DOMAIN info[k] /\ Items(k) = [i \in DOMAIN Items(k) |-> Items(k)[i]]
    OBVIOUS
  <2>4. \A i \in DOMAIN info[k] : info[k][i] \in Val(k)
    BY <2>2
  <2>5. \A i \in DOMAIN info[k] : Items(k)[i] = Sealed(k, info[k][i], parser.metas)
    OBVIOUS
  <2>6. \A i \in DOMAIN info[k] : Alike(k, Items(k)[i], info[k][i])
    BY <2>4, <2>5, SealedAlike
  <2> HIDE DEF Items
  <2>7. Len(Items(k)) = Len(info[k])
    BY <2>2, <2>3, EachLong
  <2> QED BY <2>1, <2>3, <2>6, <2>7
<1> HIDE DEF Items
<1>14. Headed'
  <2>1. \A k \in AllKinds :
          /\ Len(header'.items[k]) = Len(info'[k]) /\ DOMAIN header'.items[k] = DOMAIN info'[k]
          /\ \A i \in DOMAIN info'[k] : Alike(k, header'.items[k][i], info'[k][i])
    <3> SUFFICES ASSUME NEW k \in AllKinds
                 PROVE  /\ Len(header'.items[k]) = Len(info'[k]) /\ DOMAIN header'.items[k] = DOMAIN info'[k]
                        /\ \A i \in DOMAIN info'[k] : Alike(k, header'.items[k][i], info'[k][i])
      OBVIOUS
    <3>1. /\ Len(header'.items[k]) = Len(info[k]) /\ DOMAIN header'.items[k] = DOMAIN info[k]
          /\ \A i \in DOMAIN info[k] : Alike(k, header'.items[k][i], info[k][i])
      BY <1>13
    <3> QED BY <1>11, <3>1
  <2>2. DOMAIN header' \subseteq {"comments", "items"} /\ parser'.phase # "defs"
    BY <1>10, <1>12
  <2> QED BY <1>11, <2>1, <2>2 DEF Headed, Alike
<1> QED BY <1>1, <1>7, <1>9, <1>14

-----------------------------------------------------------------------------
(* An event is encoded, as its overrides are when it ends.                   *)

LEMMA AlikeFits ==
  ASSUME NEW kind \in AllKinds, NEW v, NEW w, Alike(kind, v, w)
  PROVE  (Within(kind, w) => Within(kind, v)) /\ (Full(kind, w) => Full(kind, v))
<1>1. Within(kind, w) => Within(kind, v)
  BY KindsAre DEF Alike, Within
<1>2. CASE kind \in {"style", "region", "range", "mapping"}
  BY <1>1, <1>2 DEF Full, Values
<1>3. CASE kind \in {"curve", "palette", "bitmap", "motion"}
  BY <1>1, <1>3 DEF Full, Values, Alike
<1> QED BY <1>2, <1>3, KindsAre

LEMMA EncodedIs ==
  ASSUME NEW p \in Parsers({<<>>}), Within("region", p.kregion), NEW ok \in BOOLEAN,
         NEW kind \in AllKinds, NEW slot, SlotFits(kind, slot, ok),
         slot.at \in {"own", "local"} => slot.own \in Val(kind),
         slot.at = "static" => kind \in {"style", "region"}
  PROVE  SlotFits(kind, Encoded(p, slot, kind), ok)
<1>1. CASE slot.at = "static"
  <2> DEFINE w == IF kind = "style" THEN p.kstyle ELSE p.kregion
             v == Sealed(kind, w, p.metas)
  <2>1. Encoded(p, slot, kind) = Own(v)
    BY <1>1 DEF Encoded
  <2>2. w \in Val(kind) /\ Within(kind, w) /\ Full(kind, w)
    <3>1. p.kstyle \in StyleVal /\ p.kregion \in RegionVal
      BY ParserHas
    <3>2. CASE kind = "style"
      BY <3>1, <3>2 DEF Val, Within, Full, Values
    <3>3. CASE kind = "region"
      BY <3>1, <3>3 DEF Val, Full, Values
    <3> QED BY <1>1, <3>2, <3>3
  <2> HIDE DEF w
  <2>3. Within(kind, v) /\ Full(kind, v)
    BY <2>2, SealedAlike, AlikeFits
  <2> HIDE DEF v
  <2>4. Own(v).at = "own" /\ Own(v).own = v
    BY DEF Own
  <2> QED BY <2>1, <2>3, <2>4 DEF SlotFits
<1>2. CASE slot.at \in {"own", "local"}
  <2> DEFINE v == Sealed(kind, slot.own, p.metas)
  <2>1. Encoded(p, slot, kind) = Own(v)
    BY <1>2 DEF Encoded
  <2>2. Within(kind, v) /\ (ok => Full(kind, v))
    <3>1. Alike(kind, v, slot.own)
      BY <1>2, SealedAlike
    <3> QED BY <1>2, <3>1, AlikeFits DEF SlotFits
  <2> HIDE DEF v
  <2>3. Own(v).at = "own" /\ Own(v).own = v
    BY DEF Own
  <2> QED BY <2>1, <2>2, <2>3 DEF SlotFits
<1>3. CASE slot.at \notin {"static", "own", "local"}
  <2>1. Encoded(p, slot, kind) = slot
    BY <1>3 DEF Encoded
  <2> QED BY <2>1
<1> QED BY <1>1, <1>2, <1>3

Over(pending, region, style, secondary, palette, bitmap, bitmaps, motions) ==
  [pending EXCEPT !.region = region, !.style = style, !.secondary = secondary, !.palette = palette,
                  !.bitmap = bitmap, !.bitmaps = bitmaps, !.motions = motions]
LEMMA OverIs ==
  ASSUME NEW pending \in PendingOf, NEW region, NEW style, NEW secondary, NEW palette, NEW bitmap,
         NEW bitmaps, NEW motions
  PROVE  LET over == Over(pending, region, style, secondary, palette, bitmap, bitmaps, motions)
         IN /\ {"region", "style", "secondary", "palette", "bitmap", "mapping", "bitmaps", "motions"}
                 \subseteq DOMAIN over
            /\ over.region = region /\ over.style = style /\ over.secondary = secondary
            /\ over.palette = palette /\ over.bitmap = bitmap /\ over.bitmaps = bitmaps
            /\ over.motions = motions /\ over.mapping = pending.mapping
<1> DEFINE D == {"region", "style", "secondary", "palette", "bitmap", "mapping", "bitmaps", "motions"}
           a == [pending EXCEPT !.region = region, !.style = style, !.secondary = secondary]
           b == [a EXCEPT !.palette = palette, !.bitmap = bitmap]
           c == [b EXCEPT !.bitmaps = bitmaps, !.motions = motions]
<1>1. D \subseteq DOMAIN pending
  BY DEF PendingOf
<1>2. Over(pending, region, style, secondary, palette, bitmap, bitmaps, motions) = c
  BY DEF Over
<1>3. /\ DOMAIN a = DOMAIN pending
      /\ a.region = region /\ a.style = style /\ a.secondary = secondary /\ a.mapping = pending.mapping
  BY <1>1
<1> HIDE DEF a
<1>4. /\ DOMAIN b = DOMAIN a /\ b.palette = palette /\ b.bitmap = bitmap
      /\ b.region = a.region /\ b.style = a.style /\ b.secondary = a.secondary /\ b.mapping = a.mapping
  BY <1>1, <1>3
<1> HIDE DEF b
<1>5. /\ DOMAIN c = DOMAIN b /\ c.bitmaps = bitmaps /\ c.motions = motions
      /\ c.region = b.region /\ c.style = b.style /\ c.secondary = b.secondary /\ c.mapping = b.mapping
      /\ c.palette = b.palette /\ c.bitmap = b.bitmap
  BY <1>1, <1>3, <1>4
<1> QED BY <1>1, <1>2, <1>3, <1>4, <1>5

LEMMA BesideIs ==
  ASSUME NEW f, NEW g, NEW k \in DOMAIN f PROVE Beside(f, g)[k] = f[k]
BY DEF Beside

(* What is encoded of overrides that are right is right.                     *)
LEMMA EncodedFits ==
  ASSUME NEW p \in Parsers({<<>>}), Within("region", p.kregion), NEW ok \in BOOLEAN,
         NEW pending \in PendingOf, PendingFits(pending, ok), NEW start, NEW end
  PROVE  PendingFits(EncodedEvent(p, pending, start, end), ok)
<1> DEFINE bitmaps == [i \in DOMAIN pending.bitmaps |-> Encoded(p, pending.bitmaps[i], "bitmap")]
           motions == [i \in DOMAIN pending.motions |-> Encoded(p, pending.motions[i], "motion")]
           over == Over(pending, Encoded(p, pending.region, "region"), Encoded(p, pending.style, "style"),
                        Encoded(p, pending.secondary, "style"), Encoded(p, pending.palette, "palette"),
                        Encoded(p, pending.bitmap, "bitmap"), bitmaps, motions)
           times == [t0 |-> start, t1 |-> end, text |-> p.event.text]
           ev == Beside(over, times)
<1>1. EncodedEvent(p, pending, start, end) = ev
  BY DEF EncodedEvent, EncodedOver, Over, Each
<1>2. /\ {"region", "style", "secondary", "palette", "bitmap", "mapping", "bitmaps", "motions"} \subseteq DOMAIN over
      /\ over.region = Encoded(p, pending.region, "region")
      /\ over.style = Encoded(p, pending.style, "style")
      /\ over.secondary = Encoded(p, pending.secondary, "style")
      /\ over.palette = Encoded(p, pending.palette, "palette")
      /\ over.bitmap = Encoded(p, pending.bitmap, "bitmap")
      /\ over.bitmaps = bitmaps /\ over.motions = motions /\ over.mapping = pending.mapping
  <2> HIDE DEF bitmaps, motions
  <2> QED BY OverIs
<1> HIDE DEF over, times
<1>3. /\ ev.region = over.region /\ ev.style = over.style /\ ev.secondary = over.secondary
      /\ ev.palette = over.palette /\ ev.bitmap = over.bitmap /\ ev.bitmaps = over.bitmaps
      /\ ev.motions = over.motions /\ ev.mapping = over.mapping
  BY <1>2, BesideIs
<1> HIDE DEF ev
<1>4. /\ pending.region \in InfoSlot \cup StaticSlot /\ pending.style \in InfoSlot \cup StaticSlot
      /\ pending.secondary \in InfoSlot \cup StaticSlot
      /\ pending.palette \in InfoSlot \cup OwnSlot(PaletteVal)
      /\ pending.bitmap \in InfoSlot \cup OwnSlot(BitmapVal)
      /\ pending.bitmaps \in Seq(InfoSlot \cup LocalSlot)
      /\ pending.motions \in Seq(InfoSlot \cup OwnSlot(MotionVal))
  BY DEF PendingOf
<1>5. /\ \A slot \in InfoSlot : slot.at \in {"none", "info"}
      /\ \A slot \in StaticSlot : slot.at = "static"
      /\ \A V : \A slot \in OwnSlot(V) : slot.at = "own" /\ slot.own \in V
      /\ \A slot \in LocalSlot : slot.at = "local" /\ slot.own \in BitmapVal
  BY DEF InfoSlot, StaticSlot, OwnSlot, LocalSlot
<1>6. /\ SlotFits("region", pending.region, ok) /\ SlotFits("style", pending.style, ok)
      /\ SlotFits("style", pending.secondary, ok) /\ SlotFits("palette", pending.palette, ok)
      /\ SlotFits("bitmap", pending.bitmap, ok) /\ SlotFits("mapping", pending.mapping, ok)
  BY DEF PendingFits, Slots, KindOf
<1>7. /\ Val("palette") = PaletteVal /\ Val("bitmap") = BitmapVal /\ Val("motion") = MotionVal
  BY DEF Val
<1>8. /\ SlotFits("region", ev.region, ok) /\ SlotFits("style", ev.style, ok)
      /\ SlotFits("style", ev.secondary, ok)
  <2>1. \A slot \in InfoSlot \cup StaticSlot : slot.at \in {"none", "info", "static"}
    BY <1>5
  <2>2. ASSUME NEW slot \in InfoSlot \cup StaticSlot, NEW kind \in {"region", "style"}, SlotFits(kind, slot, ok)
        PROVE  SlotFits(kind, Encoded(p, slot, kind), ok)
    <3>1. kind \in AllKinds /\ slot.at \notin {"own", "local"}
      BY <2>1, KindsAre
    <3> QED BY <2>2, <3>1, EncodedIs
  <2> QED BY <1>2, <1>3, <1>4, <1>6, <2>2
<1>9. SlotFits("palette", ev.palette, ok) /\ SlotFits("bitmap", ev.bitmap, ok) /\ SlotFits("mapping", ev.mapping, ok)
  <2>1. ASSUME NEW kind \in {"palette", "bitmap"}, NEW slot \in InfoSlot \cup OwnSlot(Val(kind)), SlotFits(kind, slot, ok)
        PROVE  SlotFits(kind, Encoded(p, slot, kind), ok)
    <3>1. kind \in AllKinds /\ slot.at # "static" /\ (slot.at \in {"own", "local"} => slot.own \in Val(kind))
      BY <1>5, KindsAre
    <3> QED BY <2>1, <3>1, EncodedIs
  <2> QED BY <1>2, <1>3, <1>4, <1>6, <1>7, <2>1
<1>10. \A i \in DOMAIN ev.bitmaps : SlotFits("bitmap", ev.bitmaps[i], ok)
  <2>1. ASSUME NEW i \in DOMAIN pending.bitmaps PROVE SlotFits("bitmap", Encoded(p, pending.bitmaps[i], "bitmap"), ok)
    <3>1. pending.bitmaps[i] \in InfoSlot \cup LocalSlot
      BY <1>4
    <3>2. SlotFits("bitmap", pending.bitmaps[i], ok)
      BY DEF PendingFits
    <3> QED BY <1>5, <1>7, <3>1, <3>2, EncodedIs, KindsAre
  <2> QED BY <1>2, <1>3, <2>1
<1>11. \A i \in DOMAIN ev.motions : SlotFits("motion", ev.motions[i], ok)
  <2>1. ASSUME NEW i \in DOMAIN pending.motions PROVE SlotFits("motion", Encoded(p, pending.motions[i], "motion"), ok)
    <3>1. pending.motions[i] \in InfoSlot \cup OwnSlot(MotionVal)
      BY <1>4
    <3>2. SlotFits("motion", pending.motions[i], ok)
      BY DEF PendingFits
    <3> QED BY <1>5, <1>7, <3>1, <3>2, EncodedIs, KindsAre
  <2> QED BY <1>2, <1>3, <2>1
<1>12. PendingFits(ev, ok)
  BY <1>8, <1>9, <1>10, <1>11 DEF PendingFits, Slots, KindOf
<1> QED BY <1>1, <1>12

(* The references of what is right are in their tables, and its values set.  *)
RefIn(ref) == ref[1] \in AllKinds /\ InTable(ref[1], ref[2])

LEMMA AtIn ==
  ASSUME NEW kind \in AllKinds, NEW slot, slot.at = "info" => InTable(kind, slot.index)
  PROVE  \A ref \in At(slot, kind) : RefIn(ref)
BY DEF At, RefIn

LEMMA OwnIn ==
  ASSUME NEW v
  PROVE  /\ Within("region", v) => \A ref \in RegionRefs(v) : RefIn(ref)
         /\ Within("bitmap", v) => \A ref \in BitmapRefs(v) : RefIn(ref)
         /\ Within("motion", v) => \A ref \in MotionRefs(v) : RefIn(ref)
<1>1. Within("region", v) => \A ref \in RegionRefs(v) : RefIn(ref)
  BY KindsAre DEF Within, RegionRefs, RefIn
<1>2. Within("bitmap", v) => \A ref \in BitmapRefs(v) : RefIn(ref)
  BY KindsAre DEF Within, BitmapRefs, RefIn
<1>3. ASSUME Within("motion", v), NEW ref \in MotionRefs(v) PROVE RefIn(ref)
  <2>1. PICK i \in DOMAIN v.curves : ref \in At(v.curves[i], "curve")
    BY <1>3, Zenon DEF MotionRefs
  <2>2. v.curves[i].at = "info" => InTable("curve", v.curves[i].index)
    BY <1>3 DEF Within
  <2> QED BY <2>1, <2>2, AtIn, KindsAre
<1> QED BY <1>1, <1>2, <1>3

LEMMA UnionHas ==
  ASSUME NEW A, NEW B, NEW C, NEW D, NEW E, NEW F, NEW x \in UNION (A \cup B \cup C \cup D \cup E \cup F)
  PROVE  \E X : x \in X /\ (X \in A \/ X \in B \/ X \in C \/ X \in D \/ X \in E \/ X \in F)
OBVIOUS

LEMMA EventSound ==
  ASSUME NEW ev, NEW wrong \in BOOLEAN, NEW ok \in BOOLEAN, ~wrong => PendingFits(ev, ok)
  PROVE  EventFits(ev, wrong, ok)
<1>1. ASSUME NEW kind \in AllKinds, NEW slot, SlotFits(kind, slot, ok), NEW v \in OwnOf(slot)
      PROVE  Within(kind, v) /\ (ok => Full(kind, v))
  BY <1>1 DEF SlotFits, OwnOf
<1>2. ASSUME NEW kind \in AllKinds, NEW slot, SlotFits(kind, slot, ok), NEW ref \in At(slot, kind)
      PROVE  RefIn(ref)
  BY <1>2, AtIn DEF SlotFits
<1>3. PendingFits(ev, ok) =>
        /\ SlotFits("region", ev.region, ok) /\ SlotFits("palette", ev.palette, ok)
        /\ SlotFits("bitmap", ev.bitmap, ok) /\ SlotFits("mapping", ev.mapping, ok)
        /\ \A s \in Slots : KindOf(s) \in AllKinds /\ SlotFits(KindOf(s), ev[s], ok)
        /\ \A i \in DOMAIN ev.bitmaps : SlotFits("bitmap", ev.bitmaps[i], ok)
        /\ \A i \in DOMAIN ev.motions : SlotFits("motion", ev.motions[i], ok)
  <2>1. /\ "region" \in Slots /\ "palette" \in Slots /\ "bitmap" \in Slots /\ KindOf("region") = "region"
        /\ KindOf("palette") = "palette" /\ KindOf("bitmap") = "bitmap"
        /\ \A s \in Slots : KindOf(s) \in AllKinds
    BY KindsAre DEF Slots, KindOf
  <2> QED BY <2>1 DEF PendingFits
<1>4. ASSUME ~wrong, NEW ref \in EventRefs(ev) PROVE RefIn(ref)
  <2>1. \/ \E s \in Slots : ref \in At(ev[s], KindOf(s))
        \/ ref \in At(ev.mapping, "mapping")
        \/ \E v \in OwnOf(ev.region) : ref \in RegionRefs(v)
        \/ \E v \in OwnOf(ev.bitmap) : ref \in BitmapRefs(v)
        \/ \E i \in DOMAIN ev.bitmaps : ref \in At(ev.bitmaps[i], "bitmap")
        \/ \E i \in DOMAIN ev.bitmaps : \E v \in OwnOf(ev.bitmaps[i]) : ref \in BitmapRefs(v)
        \/ \E i \in DOMAIN ev.motions : ref \in At(ev.motions[i], "motion")
        \/ \E i \in DOMAIN ev.motions : \E v \in OwnOf(ev.motions[i]) : ref \in MotionRefs(v)
    <3> DEFINE A == {At(ev[s], KindOf(s)) : s \in Slots}
               B == {At(ev.mapping, "mapping")}
               C == {RegionRefs(v) : v \in OwnOf(ev.region)}
               D == {BitmapRefs(v) : v \in OwnOf(ev.bitmap)}
               Ofb(i) == {BitmapRefs(v) : v \in OwnOf(ev.bitmaps[i])}
               Ofm(i) == {MotionRefs(v) : v \in OwnOf(ev.motions[i])}
               E == {At(ev.bitmaps[i], "bitmap") \cup UNION Ofb(i) : i \in DOMAIN ev.bitmaps}
               F == {At(ev.motions[i], "motion") \cup UNION Ofm(i) : i \in DOMAIN ev.motions}
    <3>1. ref \in UNION (A \cup B \cup C \cup D \cup E \cup F)
      BY <1>4 DEF EventRefs
    <3>2. PICK X : ref \in X /\ (X \in A \/ X \in B \/ X \in C \/ X \in D \/ X \in E \/ X \in F)
      <4> HIDE DEF A, B, C, D, E, F
      <4> QED BY <3>1, UnionHas, Zenon
    <3>3. \A i : ref \in UNION Ofb(i) => \E v \in OwnOf(ev.bitmaps[i]) : ref \in BitmapRefs(v)
      OBVIOUS
    <3>4. \A i : ref \in UNION Ofm(i) => \E v \in OwnOf(ev.motions[i]) : ref \in MotionRefs(v)
      OBVIOUS
    <3> HIDE DEF Ofb, Ofm
    <3> QED BY <3>2, <3>3, <3>4
  <2> QED BY <1>1, <1>2, <1>3, <1>4, <2>1, OwnIn, KindsAre
<1>5. ASSUME ~wrong, ok PROVE Garbage \notin EventValues(ev)
  <2> SUFFICES ASSUME Garbage \in EventValues(ev) PROVE FALSE
    OBVIOUS
  <2>1. \/ \E v \in OwnOf(ev.palette) : Garbage \in Values("palette", v)
        \/ \E v \in OwnOf(ev.bitmap) : Garbage \in Values("bitmap", v)
        \/ \E i \in DOMAIN ev.bitmaps : \E v \in OwnOf(ev.bitmaps[i]) : Garbage \in Values("bitmap", v)
        \/ \E i \in DOMAIN ev.motions : \E v \in OwnOf(ev.motions[i]) : Garbage \in Values("motion", v)
    <3> DEFINE A == {Values("palette", v) : v \in OwnOf(ev.palette)}
               B == {Values("bitmap", v) : v \in OwnOf(ev.bitmap)}
               Ofb(i) == {Values("bitmap", v) : v \in OwnOf(ev.bitmaps[i])}
               Ofm(i) == {Values("motion", v) : v \in OwnOf(ev.motions[i])}
               C == {UNION Ofb(i) : i \in DOMAIN ev.bitmaps}
               D == {UNION Ofm(i) : i \in DOMAIN ev.motions}
    <3>1. Garbage \in UNION (A \cup B \cup C \cup D)
      BY DEF EventValues
    <3>2. PICK X : Garbage \in X /\ (X \in A \/ X \in B \/ X \in C \/ X \in D)
      <4> HIDE DEF A, B, C, D
      <4> QED BY <3>1
    <3>3. \A i : Garbage \in UNION Ofb(i) => \E v \in OwnOf(ev.bitmaps[i]) : Garbage \in Values("bitmap", v)
      OBVIOUS
    <3>4. \A i : Garbage \in UNION Ofm(i) => \E v \in OwnOf(ev.motions[i]) : Garbage \in Values("motion", v)
      OBVIOUS
    <3> HIDE DEF Ofb, Ofm
    <3> QED BY <3>2, <3>3, <3>4
  <2> QED BY <1>1, <1>3, <1>5, <2>1, KindsAre DEF Full
<1> QED BY <1>4, <1>5 DEF EventFits, RefIn

-----------------------------------------------------------------------------
(* The end of an event.                                                      *)

LEMMA LogIs ==
  ASSUME NEW s, s \in Seq(Range(s)), NEW e
  PROVE  /\ Append(s, e) \in Seq(Range(Append(s, e))) /\ Len(s) \in Nat /\ Len(Append(s, e)) = Len(s) + 1
         /\ \A i \in DOMAIN Append(s, e) : (i \in DOMAIN s /\ Append(s, e)[i] = s[i]) \/ Append(s, e)[i] = e
<1> DEFINE S == Range(s) \cup {e}
           t == Append(s, e)
<1> HIDE DEF S
<1>1. Range(s) \subseteq S /\ e \in S
  BY DEF S
<1>2. s \in Seq(S)
  <2> DEFINE R == Range(s)
  <2>1. R \subseteq S /\ s \in Seq(R)
    BY <1>1
  <2> HIDE DEF R
  <2> QED BY <2>1
<1>3. /\ t \in Seq(S) /\ Len(s) \in Nat /\ Len(t) = Len(s) + 1
      /\ \A i \in DOMAIN t : (i \in DOMAIN s /\ t[i] = s[i]) \/ t[i] = e
  BY <1>1, <1>2, AppendIs, AppendHas
<1> HIDE DEF t
<1>4. t = [i \in DOMAIN t |-> t[i]]
  BY <1>3
<1>5. t \in Seq(Range(t))
  BY <1>3, <1>4, EachLong
<1> QED BY <1>3, <1>5 DEF t

LEMMA LocalsFreedIs == ASSUME NEW pending \in PendingOf PROVE LocalsFreed(pending) \in PendingOf
<1> DEFINE Freed(b) == IF b.at = "local" THEN [b EXCEPT !.freed = TRUE] ELSE b
           bitmaps == [i \in DOMAIN pending.bitmaps |-> Freed(pending.bitmaps[i])]
<1>1. LocalsFreed(pending) = [pending EXCEPT !.bitmaps = bitmaps]
  BY DEF LocalsFreed, Each
<1>2. pending.bitmaps \in Seq(InfoSlot \cup LocalSlot)
  BY DEF PendingOf
<1>3. ASSUME NEW b \in InfoSlot \cup LocalSlot PROVE Freed(b) \in InfoSlot \cup LocalSlot
  BY DEF InfoSlot, LocalSlot
<1> HIDE DEF Freed
<1>4. bitmaps \in Seq(InfoSlot \cup LocalSlot)
  BY <1>2, <1>3
<1> HIDE DEF bitmaps
<1> QED BY <1>1, <1>4 DEF PendingOf

LEMMA LastKeepaliveIs == ASSUME last \in Nat, NEW start \in Int PROVE LastKeepalive(start) \in Nat
<1>1. KeepaliveTime \in Nat
  BY DescriptionsAssumption
<1>2. CASE Due(start)
  <2> DEFINE n == (start - last - 1) \div KeepaliveTime
  <2>1. KeepaliveTime > 0 /\ start - last - 1 \in Nat
    BY <1>1, <1>2 DEF Due, Tried
  <2>2. n \in Nat
    BY <1>1, <2>1
  <2> HIDE DEF n
  <2>3. KeepaliveTime * n \in Nat
    BY <1>1, <2>2
  <2>4. LastKeepalive(start) = last + KeepaliveTime * n
    BY <1>2 DEF LastKeepalive, n
  <2> QED BY <2>3, <2>4
<1>3. CASE ~Due(start)
  BY <1>3 DEF LastKeepalive
<1> QED BY <1>2, <1>3

LEMMA EndEventIs ==
  ASSUME Books, Headed, Logged, last \in Nat, loose' \in BOOLEAN, loose => loose', NEW x, Ready(x, ~loose'),
         EndEvent(x)
  PROVE  Books' /\ Parsing' /\ Headed' /\ Logged' /\ last' \in Nat
<1> DEFINE ok == ~loose'
           ev == parser.event
           c == TimesGiven(ev) # 2
           p == ErrIf(c, parser)
           start == p.timebase + Start(ev)
           end == p.timebase + End(ev)
           set == [p.pending EXCEPT !.markup = ev.markup]
           kept == IF Due(start) THEN Pending0 ELSE set
           entry == [said |-> said, times |-> SaidTimes, keepalive |-> Due(start)]
<1>0. Parsing /\ ok \in BOOLEAN /\ (ok => ~loose) /\ loose \in BOOLEAN
  BY DEF Ready
<1>1. Starts(parser, ok)
  BY <1>0, ReadyIs DEF Ready
<1> HIDE DEF ok, c
<1>2. p \in Steps({<<>>}, parser, ok)
  BY <1>0, <1>1, StartsItself, ErrSteps DEF Starts
<1>3. /\ p \in Parsers({<<>>}) /\ Fine(p, ok) /\ p.event \in EventOf /\ p.pending \in PendingOf
      /\ p.timebase \in Int /\ (parser.wrong => p.wrong) /\ p.event = ev
  <2>1. p \in Parsers({<<>>}) /\ Fine(p, ok) /\ (parser.wrong => p.wrong)
    BY <1>2 DEF Steps, Moves
  <2>2. Reads(parser, p)
    BY <1>1, ErrIfIs DEF Starts
  <2> QED BY <2>1, <2>2, ParserHas DEF Reads
<1>4. Start(ev) \in Int /\ End(ev) \in Int /\ ev.markup \in BOOLEAN
  BY <1>3, TimesAre DEF EventOf
<1>5. start \in Int /\ end \in Int
  BY <1>3, <1>4
<1>6. Defs /\ UNCHANGED header
  BY DEF EndEvent
<1>7. \/ /\ UsesFreed(kept) /\ Read(Crashed(p)) /\ UNCHANGED <<last, sent, saidlog>>
      \/ /\ start >= 0
         /\ Read([[p EXCEPT !.phase = "events", !.event = Event0] EXCEPT !.pending = Pending0])
         /\ sent' = Append(sent, EncodedEvent(p, kept, start, end))
         /\ last' = Max({LastKeepalive(start), start})
         /\ saidlog' = IF p.wrong THEN saidlog ELSE Append(saidlog, entry)
      \/ /\ Read([Err([p EXCEPT !.phase = "events", !.event = Event0]) EXCEPT !.pending = LocalsFreed(kept)])
         /\ last' = LastKeepalive(start) /\ UNCHANGED <<sent, saidlog>>
  BY DEF EndEvent, c
<1>8. set \in PendingOf /\ (~p.wrong => PendingFits(set, ok))
  <2> DEFINE pending == p.pending
  <2>1. pending \in PendingOf /\ (~p.wrong => PendingFits(pending, ok)) /\ ev.markup \in BOOLEAN
    BY <1>3, <1>4 DEF Fine
  <2> HIDE DEF pending
  <2>2. [pending EXCEPT !.markup = ev.markup] \in PendingOf
    BY <2>1 DEF PendingOf
  <2>3. PendingFits(pending, ok) => PendingFits([pending EXCEPT !.markup = ev.markup], ok)
    <3> DEFINE q == [pending EXCEPT !.markup = ev.markup]
    <3>1. /\ q.region = pending.region /\ q.style = pending.style /\ q.secondary = pending.secondary
          /\ q.palette = pending.palette /\ q.bitmap = pending.bitmap /\ q.mapping = pending.mapping
          /\ q.bitmaps = pending.bitmaps /\ q.motions = pending.motions
      BY <2>1 DEF PendingOf
    <3> HIDE DEF q
    <3>2. \A s \in Slots : q[s] = pending[s]
      BY <3>1 DEF Slots
    <3>3. PendingFits(pending, ok) => PendingFits(q, ok)
      BY <3>1, <3>2 DEF PendingFits
    <3> QED BY <3>3 DEF q
  <2> QED BY <2>1, <2>2, <2>3 DEF pending
<1>9. kept \in PendingOf /\ (~p.wrong => PendingFits(kept, ok))
  BY <1>8, Pending0Is
<1> HIDE DEF p, set, kept, start, end, entry
<1>10. Grown
  <2>1. \A k \in AllKinds : info[k] \in Seq(Val(k))
    BY DEF Books, Tables
  <2>2. \A k \in AllKinds : Len(info[k]) \in Nat
    BY <2>1
  <2> QED BY <1>6, <2>2 DEF Grown, Defs
<1>11. ASSUME After(parser, parser', ok) PROVE Books' /\ Parsing' /\ Headed'
  BY <1>0, <1>6, <1>11, SameParsing, SameHeaded DEF ok
<1>12. ASSUME NEW q \in Steps({<<>>}, parser, ok), NEW pending \in PendingOf, ~q.wrong => PendingFits(pending, ok)
       PROVE  After(parser, Turned(q, "events", Event0, pending), ok)
  <2>1. q \in Parsers({<<>>}) /\ Fine(q, ok) /\ After(parser, q, ok) /\ Len(parser.metas) \in Nat /\ Len(q.metas) \in Nat
    BY <1>0, <1>1, <1>12, StepsAfter, ParserHas DEF Steps, Starts
  <2>2. After(q, Turned(q, "events", Event0, pending), ok)
    BY <1>0, <1>12, <2>1, TurnedIs, Event0Is
  <2> DEFINE r == Turned(q, "events", Event0, pending)
  <2>3. r.phase = "events" /\ r \in Parsers({<<>>})
    BY <2>1, <2>2 DEF Turned, After, Parsers
  <2> HIDE DEF r
  <2>4. Len(r.metas) \in Nat
    BY <2>3, ParserHas
  <2> QED BY <2>1, <2>2, <2>3, <2>4 DEF After, r
<1>13. CASE UsesFreed(kept) /\ Read(Crashed(p)) /\ UNCHANGED <<last, sent, saidlog>>
  <2>1. p.wrong
    BY <1>9, <1>13 DEF UsesFreed, PendingFits, SlotFits
  <2>2. Crashed(p) \in Steps({<<>>}, parser, ok)
    BY <1>0, <1>1, <1>2, <2>1, ErrSteps DEF Starts
  <2>3. parser' = [Crashed(p) EXCEPT !.v = <<>>] /\ <<>> \in {<<>>}
    BY <1>13 DEF Read
  <2>4. parser' \in Steps({<<>>}, parser, ok)
    BY <1>0, <1>1, <2>2, <2>3, ValueSteps DEF Starts
  <2>5. After(parser, parser', ok)
    BY <1>0, <2>4, StepsAfter
  <2>6. Logged'
    BY <1>0, <1>10, <1>13, <2>5, SameLogged DEF After, ok
  <2> QED BY <1>11, <1>13, <2>5, <2>6
<1>14. CASE /\ start >= 0
            /\ Read([[p EXCEPT !.phase = "events", !.event = Event0] EXCEPT !.pending = Pending0])
            /\ sent' = Append(sent, EncodedEvent(p, kept, start, end))
            /\ last' = Max({LastKeepalive(start), start})
            /\ saidlog' = IF p.wrong THEN saidlog ELSE Append(saidlog, entry)
  <2> DEFINE e == EncodedEvent(p, kept, start, end)
  <2>1. parser' = Turned(p, "events", Event0, Pending0)
    BY <1>14 DEF Read, Turned
  <2>2. After(parser, parser', ok)
    BY <1>2, <1>12, <2>1, Pending0Is
  <2>3. parser'.wrong = p.wrong
    BY <1>3, <2>1 DEF Turned, Parsers
  <2>4. last' \in Nat
    <3>1. LastKeepalive(start) \in Int /\ LastKeepalive(start) \in Nat /\ start \in Nat
      BY <1>5, <1>14, LastKeepaliveIs DEF start
    <3>2. Max({LastKeepalive(start), start}) \in {LastKeepalive(start), start}
      BY <3>1, TwoMax
    <3> QED BY <1>14, <3>1, <3>2
  <2>5. EventFits(e, p.wrong, ok)
    <3>1. ~p.wrong => Within("region", p.kregion)
      BY <1>3 DEF Fine
    <3>2. ~p.wrong => PendingFits(e, ok)
      BY <1>0, <1>3, <1>9, <3>1, EncodedFits
    <3>3. p.wrong \in BOOLEAN
      BY <1>3, ParserHas
    <3> HIDE DEF e
    <3> QED BY <1>0, <3>2, <3>3, EventSound
  <2> HIDE DEF e
  <2>6. /\ sent' \in Seq(Range(sent')) /\ Len(sent) \in Nat /\ Len(sent') = Len(sent) + 1
        /\ \A n \in DOMAIN sent' : (n \in DOMAIN sent /\ sent'[n] = sent[n]) \/ sent'[n] = e
    BY <1>14, LogIs DEF Logged, e
  <2>7. /\ saidlog' \in Seq(Range(saidlog')) /\ Len(saidlog) \in Nat
        /\ (Len(saidlog') = Len(saidlog) \/ Len(saidlog') = Len(saidlog) + 1)
    BY <1>14, LogIs DEF Logged
  <2>8. Len(saidlog') <= Len(sent')
    BY <2>6, <2>7 DEF Logged
  <2>9. ASSUME NEW n \in DOMAIN sent' PROVE EventFits(sent'[n], p.wrong, ok)
    <3>1. ASSUME n \in DOMAIN sent, sent'[n] = sent[n] PROVE EventFits(sent[n], p.wrong, ok)
      <4>1. EventFits(sent[n], parser.wrong, ~loose)
        BY <3>1 DEF Logged
      <4> QED BY <1>0, <1>3, <4>1 DEF EventFits
    <3> QED BY <2>5, <2>6, <3>1
  <2>10. ASSUME NEW n \in DOMAIN sent' PROVE EventFits(sent[n], parser.wrong, ~loose)'
    <3>1. info' = info
      BY <1>6 DEF Defs
    <3> QED BY <2>3, <2>9, <3>1 DEF EventFits, InTable, ok
  <2>11. Logged'
    BY <2>6, <2>7, <2>8, <2>10 DEF Logged, Range
  <2> QED BY <1>11, <2>2, <2>4, <2>11
<1>15. CASE /\ Read([Err([p EXCEPT !.phase = "events", !.event = Event0]) EXCEPT !.pending = LocalsFreed(kept)])
            /\ last' = LastKeepalive(start) /\ UNCHANGED <<sent, saidlog>>
  <2> DEFINE freed == LocalsFreed(kept)
             q == Err(p)
  <2>1. freed \in PendingOf
    BY <1>9, LocalsFreedIs
  <2>2. parser' = Turned(q, "events", Event0, freed)
    BY <1>3, <1>15 DEF Read, Turned, Err, Parsers
  <2>3. q \in Steps({<<>>}, parser, ok) /\ q.wrong
    BY <1>0, <1>1, <1>2, <1>3, ErrSteps, ErrIs DEF Starts
  <2> HIDE DEF q, freed
  <2>4. After(parser, parser', ok)
    BY <1>12, <2>1, <2>2, <2>3
  <2>5. Logged'
    BY <1>0, <1>10, <1>15, <2>4, SameLogged DEF After, ok
  <2>6. last' \in Nat
    BY <1>5, <1>15, LastKeepaliveIs
  <2> QED BY <1>11, <2>4, <2>5, <2>6
<1> QED BY <1>7, <1>13, <1>14, <1>15

-----------------------------------------------------------------------------
(* The invariant holds of every description.                                 *)

LEMMA Finished == [do |-> "finish"] \in Grammar /\ [do |-> "headers"] \in Grammar /\ [do |-> "end"] \in Grammar
<1>1. [do |-> "finish"] \in Grammar
  BY DEF Grammar
<1>2. [do |-> "headers"] \in DefGrammar
  BY DEF DefGrammar
<1>3. [do |-> "end"] \in EventGrammar
  BY DEF EventGrammar
<1> QED BY <1>1, <1>2, <1>3 DEF Grammar

LEMMA InitIs == Init => IInv
<1> SUFFICES ASSUME Init PROVE IInv
  OBVIOUS
<1>1. Reading
  <2>1. topic \in Topics \cup {"printed"} /\ last = 0 /\ shared = FALSE /\ loose = FALSE /\ lost = FALSE
    BY DEF Init
  <2>2. budget \in Nat
    BY <2>1, DescriptionsAssumption DEF Init
  <2>3. todo \in Seq(Grammar)
    <3>1. CASE topic = "printed"
      <4>1. source \in Sources
        BY <3>1 DEF Init
      <4> DEFINE w == Written(source.info, source.comments, source.event)
                 f == [do |-> "finish"]
      <4>2. w \in Seq(Grammar) /\ f \in Grammar
        BY <4>1, DescriptionsAssumption, Finished
      <4>3. todo = Append(w, f)
        BY <3>1 DEF Init
      <4> HIDE DEF w, f
      <4> QED BY <4>2, <4>3, AppendIs
    <3>2. CASE topic # "printed"
      <4>1. todo = <<>>
        BY <3>2 DEF Init
      <4> QED BY <4>1
    <3> QED BY <3>1, <3>2
  <2> QED BY <2>1, <2>2, <2>3 DEF Reading
<1>2. \A k \in AllKinds : info[k] = <<>> /\ names[k] = <<>> /\ declared[k] = <<>>
  BY DEF Init
<1>3. Books
  <2>1. Tables
    BY <1>2, FormlessIs DEF Tables
  <2>2. \A k \in AllKinds : declared[k] \in Seq(Word) /\ Len(declared[k]) = Len(info[k])
    BY <1>2, FormlessIs
  <2>3. /\ info = [k \in AllKinds |-> info[k]] /\ names = [k \in AllKinds |-> names[k]]
        /\ declared = [k \in AllKinds |-> declared[k]]
    BY DEF Init
  <2> QED BY <2>1, <2>2, <2>3 DEF Books
<1>4. Parsing
  <2>1. Style0 \in StyleVal /\ Region0 \in RegionVal /\ Within("region", Region0)
    BY Words0, SMT DEF Style0, Region0, StyleVal, RegionVal, Within
  <2>2. Event0 \in EventOf /\ Pending0 \in PendingOf /\ \A ok : PendingFits(Pending0, ok)
    BY Event0Is, Pending0Is
  <2>3. "defs" \in Phases /\ <<>> \in Seq(Seq(Leaf)) /\ <<>> \in Seq(Word) /\ <<0, 0>> \in Int \X Int
    BY FormlessIs DEF Phases
  <2>4. /\ parser \in Parsers({<<>>}) /\ parser.phase = "defs" /\ parser.kregion = Region0
        /\ parser.pending = Pending0
    BY <2>1, <2>2, <2>3 DEF Init, Parsers
  <2>5. Fine(parser, ~loose)
    BY <2>1, <2>2, <2>4 DEF Fine
  <2>6. ItemsHold(parser, ~loose)
    BY <1>2, <1>3 DEF ItemsHold, Books
  <2> QED BY <2>4, <2>5, <2>6 DEF Parsing
<1>5. Headed
  BY DEF Headed, Init
<1>6. Logged
  <2>1. sent = <<>> /\ saidlog = <<>>
    BY DEF Init
  <2> QED BY <2>1, FormlessIs DEF Logged
<1> QED BY <1>1, <1>3, <1>4, <1>5, <1>6 DEF IInv

LEMMA GivenIs ==
  ASSUME Reading, NEW block \in Given
  PROVE  /\ block \in Seq(Grammar) \ {<<>>}
         /\ todo = <<>> /\ Head(block).do \notin {"headers", "end", "finish"} => budget > 0
<1>1. CASE todo # <<>>
  BY <1>1 DEF Given, Reading
<1>2. CASE todo = <<>>
  <2>1. topic # "printed" /\ topic \in Topics
    BY <1>2 DEF Given, Reading
  <2>2. \/ budget > 0 /\ block \in Definitions(topic) \cup Openings(topic) \cup Directives(topic)
        \/ block = <<[do |-> "headers"]>>
        \/ block = <<[do |-> "finish"]>>
        \/ block = <<[do |-> "end"]>>
    BY <1>2, <2>1 DEF Given
  <2>3. ASSUME NEW x \in Grammar, block = <<x>> PROVE block \in Seq(Grammar) \ {<<>>} /\ Head(block) = x
    BY <2>3
  <2>4. budget > 0 /\ block \in Definitions(topic) \cup Openings(topic) \cup Directives(topic)
          => block \in Seq(Grammar) \ {<<>>}
    BY <2>1, DescriptionsAssumption
  <2> QED BY <2>2, <2>3, <2>4, Finished
<1> QED BY <1>1, <1>2

LEMMA HandledIs ==
  ASSUME IInv, Going(parser), NEW x \in Grammar, Handled(x), Listen(x)
  PROVE  Books' /\ Parsing' /\ Headed' /\ Logged' /\ last' \in Nat /\ shared' \in BOOLEAN /\ loose' \in BOOLEAN
<1>1. /\ shared \in BOOLEAN /\ loose \in BOOLEAN /\ last \in Nat /\ Books /\ Parsing /\ Headed /\ Logged
  BY DEF IInv, Reading
<1>2. shared' = (shared \/ Shares(x)) /\ loose' = (loose \/ LooseIn(x))
  BY DEF Listen
<1>3. shared' \in BOOLEAN /\ loose' \in BOOLEAN /\ (loose => loose')
  <2>1. (shared \/ Shares(x)) \in BOOLEAN /\ (loose \/ LooseIn(x)) \in BOOLEAN
    OBVIOUS
  <2> QED BY <1>2, <2>1
<1>4. Ready(x, ~loose')
  BY <1>1, <1>2, <1>3 DEF Ready
<1>5. ASSUME After(parser, parser', ~loose') /\ Defs /\ Events
      PROVE  Books' /\ Parsing' /\ Headed' /\ Logged' /\ last' \in Nat
  <2>1. Books' /\ Parsing'
    BY <1>1, <1>3, <1>5, SameParsing
  <2>2. Headed'
    BY <1>1, <1>5, SameHeaded DEF Events
  <2>3. Grown
    <3>1. \A k \in AllKinds : info[k] \in Seq(Val(k))
      BY <1>1 DEF Books, Tables
    <3>2. \A k \in AllKinds : Len(info[k]) \in Nat
      BY <3>1
    <3> QED BY <1>5, <3>2 DEF Grown, Defs
  <2>4. Logged'
    BY <1>1, <1>3, <1>5, <2>3, SameLogged DEF After, Events
  <2> QED BY <1>1, <1>5, <2>1, <2>2, <2>4 DEF Events
<1>6. CASE SyntaxError(x)
  BY <1>3, <1>4, <1>5, <1>6, SyntaxErrorIs
<1>7. CASE ~Unreadable(x) /\ Statement(x)
  BY <1>3, <1>4, <1>5, <1>7, StatementIs
<1>8. CASE ~Unreadable(x) /\ Define(x)
  BY <1>1, <1>3, <1>4, <1>8, DefineIs
<1>9. CASE ~Unreadable(x) /\ Headers(x)
  BY <1>1, <1>3, <1>4, <1>9, HeadersIs
<1>10. CASE ~Unreadable(x) /\ EndEvent(x)
  BY <1>1, <1>3, <1>4, <1>10, EndEventIs
<1>11. \/ SyntaxError(x)
       \/ ~Unreadable(x) /\ (Statement(x) \/ Define(x) \/ Headers(x) \/ EndEvent(x))
  BY Zenon DEF Handled, Statement
<1> QED BY <1>3, <1>6, <1>7, <1>8, <1>9, <1>10, <1>11

(* Where nothing changes, the invariant stays.                               *)
LEMMA StillIs ==
  ASSUME IInv, UNCHANGED <<info, names, declared, parser, header, sent, saidlog, loose>>
  PROVE  Books' /\ Parsing' /\ Headed' /\ Logged'
<1>1. Books' /\ Parsing'
  <2>1. parser' = parser /\ loose' = loose /\ Defs
    BY DEF Defs
  <2>2. parser \in Parsers({<<>>}) /\ Fine(parser, ~loose)
    BY DEF IInv, Parsing
  <2>3. Len(parser.metas) \in Nat
    BY <2>2, ParserHas
  <2>4. After(parser, parser', ~loose')
    BY <2>1, <2>2, <2>3 DEF After
  <2> QED BY <2>1, <2>4, SameParsing DEF IInv, Reading
<1>2. Headed'
  BY DEF IInv, Headed, HeadersFit, RangeFits
<1>3. Logged'
  BY DEF IInv, Logged, EventFits, InTable
<1> QED BY <1>1, <1>2, <1>3

LEMMA NextIs == IInv /\ [Next]_vars => IInv'
<1> SUFFICES ASSUME IInv, [Next]_vars PROVE IInv'
  OBVIOUS
<1>1. CASE UNCHANGED vars
  <2>1. /\ UNCHANGED <<topic, source, todo, budget, info, names>>
        /\ UNCHANGED <<declared, parser, last, header, sent, saidlog, shared, loose, spoilt, lost>>
    BY <1>1 DEF vars
  <2>2. Reading'
    BY <2>1 DEF IInv, Reading
  <2>3. Books' /\ Parsing' /\ Headed' /\ Logged'
    BY <2>1, StillIs
  <2> QED BY <2>2, <2>3 DEF IInv
<1>2. CASE Next
  <2>1. PICK block \in Given :
          /\ todo' = Tail(block)
          /\ budget' = IF todo = <<>> /\ Head(block).do \notin {"headers", "end", "finish"}
                       THEN budget - 1 ELSE budget
          /\ UNCHANGED <<topic, source>>
          /\ Going(parser) /\ (Understood(Head(block)) \/ Lose(Head(block)))
    BY <1>2 DEF Next
  <2>2. /\ block \in Seq(Grammar) \ {<<>>}
        /\ todo = <<>> /\ Head(block).do \notin {"headers", "end", "finish"} => budget > 0
    BY <2>1, GivenIs DEF IInv
  <2> DEFINE x == Head(block)
  <2>3. x \in Grammar /\ Tail(block) \in Seq(Grammar)
    BY <2>2
  <2> HIDE DEF x
  <2>4. /\ Books' /\ Parsing' /\ Headed' /\ Logged' /\ last' \in Nat /\ shared' \in BOOLEAN /\ loose' \in BOOLEAN
        /\ lost' \in BOOLEAN /\ (lost' => spoilt' # {})
    <3>1. CASE Understood(x)
      <4>1. PICK heard \in Readings(x) :
              /\ Handled(heard) /\ Listen(heard) /\ lost' = lost
              /\ spoilt' = IF heard = x THEN spoilt ELSE spoilt \cup {Spoiling}
        BY <3>1 DEF Understood
      <4>2. heard \in Grammar
        BY <2>3, GrammarHeard
      <4>3. Books' /\ Parsing' /\ Headed' /\ Logged' /\ last' \in Nat /\ shared' \in BOOLEAN /\ loose' \in BOOLEAN
        BY <2>1, <4>1, <4>2, HandledIs
      <4> QED BY <4>1, <4>3 DEF IInv, Reading
    <3>2. CASE Lose(x)
      <4>1. /\ UNCHANGED <<info, names, declared, parser, last, header, sent, saidlog, shared, loose>>
            /\ lost' = TRUE /\ spoilt' = spoilt \cup {Spoiling}
        BY <3>2 DEF Lose, Defs, Events
      <4>2. Books' /\ Parsing' /\ Headed' /\ Logged'
        BY <4>1, StillIs
      <4> QED BY <4>1, <4>2 DEF IInv, Reading
    <3> QED BY <2>1, <3>1, <3>2 DEF x
  <2>5. topic' \in Topics \cup {"printed"} /\ todo' \in Seq(Grammar) /\ budget' \in Nat
    BY <2>1, <2>2, <2>3 DEF IInv, Reading
  <2> QED BY <2>4, <2>5 DEF IInv, Reading
<1> QED BY <1>1, <1>2

-----------------------------------------------------------------------------
(* What is sent is sound.                                                    *)

LEMMA ItemsAre ==
  ASSUME Books, NEW k \in AllKinds
  PROVE  info[k] \in Seq(Val(k)) /\ Len(info[k]) \in Nat /\ \A i \in DOMAIN info[k] : info[k][i] \in Val(k)
<1>1. info[k] \in Seq(Val(k))
  BY DEF Books, Tables
<1> QED BY <1>1

LEMMA TypesAre == IInv => TypeOK
<1> SUFFICES ASSUME IInv PROVE TypeOK
  OBVIOUS
<1>1. Reading /\ Books /\ Parsing /\ Headed /\ Logged
  BY DEF IInv
<1>2. /\ parser \in Parsers({<<>>}) /\ parser.phase \in Phases /\ parser.wrong \in BOOLEAN
      /\ parser.pending \in PendingOf /\ Len(parser.metas) \in Nat
  BY <1>1, ParserHas DEF Parsing
<1>3. ASSUME NEW k \in AllKinds
      PROVE  /\ Len(names[k]) = Len(info[k]) /\ Len(declared[k]) = Len(info[k])
             /\ \A i \in DOMAIN info[k] : MetaIn(k, info[k][i]) \subseteq 0 .. Len(parser.metas)
  <2>1. Len(names[k]) = Len(info[k]) /\ Len(declared[k]) = Len(info[k])
    BY <1>1 DEF Books, Tables
  <2>2. ASSUME NEW i \in DOMAIN info[k] PROVE MetaIn(k, info[k][i]) \subseteq 0 .. Len(parser.metas)
    <3> DEFINE v == info[k][i]
    <3>1. v \in Val(k)
      BY <1>1, ItemsAre
    <3>2. HasMeta(k) => v.meta <= Len(parser.metas)
      BY <1>1 DEF Parsing, ItemsHold
    <3> HIDE DEF v
    <3>3. HasMeta(k) => v.meta \in Nat
      BY <3>1, KindsAre DEF HasMeta, Val, StyleVal, RegionVal, MotionVal, MotionOf, PaletteVal, BitmapVal
    <3>4. MetaIn(k, v) \subseteq 0 .. Len(parser.metas)
      BY <1>2, <3>2, <3>3 DEF MetaIn
    <3> QED BY <3>4 DEF v
  <2> QED BY <2>1, <2>2
<1>4. ASSUME NEW i \in DOMAIN parser.pending.motions, parser.pending.motions[i].at = "own"
      PROVE  Len(parser.pending.motions[i].own.curves) = Len(parser.pending.motions[i].own.durations)
  <2>1. parser.pending.motions \in Seq(InfoSlot \cup OwnSlot(MotionVal))
    BY <1>2 DEF PendingOf
  <2>2. parser.pending.motions[i] \in InfoSlot \cup OwnSlot(MotionVal)
    BY <2>1
  <2>3. parser.pending.motions[i].own \in MotionVal
    BY <1>4, <2>2 DEF InfoSlot, OwnSlot
  <2> QED BY <2>3 DEF MotionVal, MotionOf
<1> QED BY <1>1, <1>2, <1>3, <1>4 DEF TypeOK, Reading, Headed, Logged, Phases

(* Each item that was sent is like the one of its table.                     *)
LEMMA HeaderIs ==
  ASSUME IInv, header # <<>>, NEW k \in AllKinds
  PROVE  /\ Len(header.items[k]) = Len(info[k])
         /\ \A i \in DOMAIN header.items[k] :
              /\ i \in DOMAIN info[k] /\ info[k][i] \in Val(k)
              /\ Alike(k, header.items[k][i], info[k][i])
              /\ ~parser.wrong => Within(k, header.items[k][i])
              /\ ~parser.wrong /\ ~loose => Full(k, header.items[k][i])
<1>1. Books /\ Parsing /\ Headed
  BY DEF IInv
<1>2. /\ Len(header.items[k]) = Len(info[k]) /\ DOMAIN header.items[k] = DOMAIN info[k]
      /\ \A i \in DOMAIN info[k] : Alike(k, header.items[k][i], info[k][i])
  BY <1>1 DEF Headed
<1>3. ASSUME NEW i \in DOMAIN info[k]
      PROVE  /\ info[k][i] \in Val(k)
             /\ ~parser.wrong => Within(k, header.items[k][i])
             /\ ~parser.wrong /\ ~loose => Full(k, header.items[k][i])
  <2>1. info[k][i] \in Val(k)
    BY <1>1, ItemsAre
  <2>2. /\ ~parser.wrong => Within(k, info[k][i])
        /\ ~parser.wrong /\ ~loose => Full(k, info[k][i])
    BY <1>1 DEF Parsing, ItemsHold
  <2>3. Alike(k, header.items[k][i], info[k][i])
    BY <1>2
  <2> QED BY <2>1, <2>2, <2>3, AlikeFits
<1> QED BY <1>2, <1>3

(* A range that is sent names a bitmap of the headers for its first glyph.   *)
LEMMA RangeIn0 ==
  ASSUME Books, NEW r, r \in RangeVal, RangeFits(r), r.first <= r.last PROVE RefIn(<<"bitmap", r.bitmap>>)
<1>1. r.first \in Int /\ r.last \in Int /\ r.bitmap \in Int
  BY DEF RangeVal
<1>2. "bitmap" \in AllKinds
  BY KindsAre
<1>3. Len(info["bitmap"]) \in Nat
  BY <1>2, ItemsAre
<1>4. r.bitmap >= 0 /\ r.bitmap + (r.last - r.first) <= Len(info["bitmap"]) - 1
  BY <1>1, <1>3 DEF RangeFits
<1>5. r.bitmap \in 0 .. Len(info["bitmap"]) - 1
  BY <1>1, <1>3, <1>4
<1> QED BY <1>2, <1>5 DEF RefIn, InTable

LEMMA HeaderSound ==
  ASSUME IInv, ~parser.wrong, header # <<>>, NEW ref \in HeaderRefs(header.items)
  PROVE  RefIn(ref)
<1> DEFINE items == header.items
<1>1. \/ \E i \in DOMAIN items["region"] : ref \in RegionRefs(items["region"][i])
      \/ \E i \in DOMAIN items["bitmap"] : ref \in BitmapRefs(items["bitmap"][i])
      \/ \E i \in DOMAIN items["motion"] : ref \in MotionRefs(items["motion"][i])
      \/ \E i \in DOMAIN items["mapping"] : ref \in MappingRefs(items["mapping"][i])
      \/ \E i \in DOMAIN items["range"] : ref = <<"bitmap", items["range"][i].bitmap>>
  BY Zenon DEF HeaderRefs
<1>2. Books /\ HeadersFit
  BY DEF IInv, Headed
<1>3. ASSUME NEW i \in DOMAIN items["range"] PROVE RefIn(<<"bitmap", items["range"][i].bitmap>>)
  <2>1. "range" \in AllKinds
    BY KindsAre
  <2>2. /\ i \in DOMAIN info["range"] /\ info["range"][i] \in Val("range")
        /\ Alike("range", items["range"][i], info["range"][i]) /\ Within("range", items["range"][i])
    BY <2>1, HeaderIs
  <2>3. items["range"][i] = info["range"][i]
    BY <2>2 DEF Alike
  <2>4. items["range"][i] \in RangeVal /\ RangeFits(items["range"][i])
    BY <1>2, <2>2, <2>3 DEF HeadersFit, Val
  <2>5. items["range"][i].first <= items["range"][i].last
    BY <2>2 DEF Within
  <2> QED BY <1>2, <2>4, <2>5, RangeIn0
<1>4. ASSUME NEW i \in DOMAIN items["mapping"], NEW r \in MappingRefs(items["mapping"][i]) PROVE RefIn(r)
  <2> DEFINE kfm == items["mapping"][i]
  <2>1. "mapping" \in AllKinds /\ "range" \in AllKinds
    BY KindsAre
  <2>2. /\ i \in DOMAIN info["mapping"] /\ info["mapping"][i] \in MappingVal
        /\ Alike("mapping", kfm, info["mapping"][i]) /\ Within("mapping", kfm)
    BY <2>1, HeaderIs DEF Val
  <2>3. kfm = info["mapping"][i] /\ kfm \in MappingVal
    BY <2>2 DEF Alike
  <2>4. \A j \in DOMAIN kfm : kfm[j].at = "own" => RangeFits(kfm[j].own)
    BY <1>2, <2>2, <2>3 DEF HeadersFit
  <2>5. r \in MappingRefs(kfm)
    BY <1>4
  <2> HIDE DEF kfm
  <2>6. PICK j \in DOMAIN kfm : r \in At(kfm[j], "range") \/ \E v \in OwnOf(kfm[j]) : r = <<"bitmap", v.bitmap>>
    BY <2>5, Zenon DEF MappingRefs
  <2>7. kfm[j] \in InfoSlot \cup OwnSlot(RangeVal)
    BY <2>3 DEF MappingVal
  <2>8. CASE r \in At(kfm[j], "range")
    <3>1. kfm[j].at = "info" => InTable("range", kfm[j].index)
      BY <2>2 DEF Within
    <3> QED BY <2>1, <2>8, <3>1, AtIn
  <2>9. CASE \E v \in OwnOf(kfm[j]) : r = <<"bitmap", v.bitmap>>
    <3>1. kfm[j].at = "own" /\ r = <<"bitmap", kfm[j].own.bitmap>>
      BY <2>9 DEF OwnOf
    <3>2. kfm[j].own \in RangeVal
      BY <2>7, <3>1 DEF InfoSlot, OwnSlot
    <3>3. kfm[j].own.first <= kfm[j].own.last
      BY <2>2, <3>1 DEF Within
    <3> QED BY <1>2, <2>4, <3>1, <3>2, <3>3, RangeIn0
  <2> QED BY <2>6, <2>8, <2>9
<1>5. \A i \in DOMAIN items["region"] : Within("region", items["region"][i])
  BY HeaderIs, KindsAre
<1>6. \A i \in DOMAIN items["bitmap"] : Within("bitmap", items["bitmap"][i])
  BY HeaderIs, KindsAre
<1>7. \A i \in DOMAIN items["motion"] : Within("motion", items["motion"][i])
  BY HeaderIs, KindsAre
<1> HIDE DEF items
<1> QED BY <1>1, <1>3, <1>4, <1>5, <1>6, <1>7, OwnIn

LEMMA SoundIs == IInv => SentIsSound
<1> SUFFICES ASSUME IInv PROVE SentIsSound
  OBVIOUS
<1>1. Headed /\ Logged /\ Parsing /\ Books
  BY DEF IInv
<1>2. TypeOK
  BY TypesAre
<1>3. SentIsInTables
  <2> SUFFICES ASSUME ~parser.wrong, header # <<>>,
                      NEW ref \in HeaderRefs(header.items) \cup UNION {EventRefs(sent[n]) : n \in DOMAIN sent}
               PROVE  ref[2] \in 0 .. Len(header.items[ref[1]]) - 1
    BY DEF SentIsInTables
  <2>1. RefIn(ref)
    <3>1. CASE ref \in HeaderRefs(header.items)
      BY <3>1, HeaderSound
    <3>2. CASE ref \notin HeaderRefs(header.items)
      <4>1. PICK n \in DOMAIN sent : ref \in EventRefs(sent[n])
        BY <3>2, Zenon
      <4> QED BY <1>1, <4>1 DEF Logged, EventFits, RefIn
    <3> QED BY <3>1, <3>2
  <2>2. Len(header.items[ref[1]]) = Len(info[ref[1]])
    BY <2>1, HeaderIs DEF RefIn
  <2> QED BY <2>1, <2>2 DEF RefIn, InTable
<1>4. ValuesAreSaid
  <2> SUFFICES ASSUME ~parser.wrong, ~loose, header # <<>>
               PROVE  /\ \A k \in AllKinds : \A i \in DOMAIN header.items[k] :
                           Garbage \notin Values(k, header.items[k][i])
                      /\ \A n \in DOMAIN sent : Garbage \notin EventValues(sent[n])
    BY DEF ValuesAreSaid
  <2>1. \A k \in AllKinds : \A i \in DOMAIN header.items[k] : Garbage \notin Values(k, header.items[k][i])
    BY HeaderIs DEF Full
  <2>2. \A n \in DOMAIN sent : Garbage \notin EventValues(sent[n])
    BY <1>1 DEF Logged, EventFits
  <2> QED BY <2>1, <2>2
<1>5. CrashesOnlyAfterError
  BY <1>1 DEF IInv, Reading, Parsing, Fine, CrashesOnlyAfterError
<1> QED BY <1>2, <1>3, <1>4, <1>5 DEF SentIsSound

(* Whatever description kateenc reads, each index that it sends is in its    *)
(* table, each point, colour and pixel was set, and it reads or writes out   *)
(* of its memory only once it told an error: SentIsSound, for every topic,   *)
(* every statement of the grammar and any number of them.                    *)
THEOREM SentIsSoundAlways == Spec => []SentIsSound
<1>1. IInv /\ [Next]_vars => IInv'
  BY NextIs
<1> QED BY <1>1, InitIs, SoundIs, PTL DEF Spec

-----------------------------------------------------------------------------
(* Durations, and where a motion over glyphs is after each of its curves.    *)

LEMMA SubAppend ==
  ASSUME NEW S, NEW s \in Seq(S), NEW e \in S
  PROVE  /\ \A k \in 1 .. Len(s) : SubSeq(Append(s, e), 1, k) = SubSeq(s, 1, k)
         /\ SubSeq(Append(s, e), 1, Len(s) + 1) = Append(s, e)
<1> DEFINE n == Len(s)
           t == Append(s, e)
<1>1. n \in Nat /\ t \in Seq(S) /\ Len(t) = n + 1 /\ t[n + 1] = e /\ \A i \in 1 .. n : t[i] = s[i]
  OBVIOUS
<1> HIDE DEF t
<1>2. ASSUME NEW k \in 1 .. n PROVE SubSeq(t, 1, k) = SubSeq(s, 1, k)
  <2>1. SubSeq(t, 1, k) \in Seq(S) /\ Len(SubSeq(t, 1, k)) = k /\ \A i \in 1 .. k : SubSeq(t, 1, k)[i] = t[i]
    BY <1>1
  <2>2. SubSeq(s, 1, k) \in Seq(S) /\ Len(SubSeq(s, 1, k)) = k /\ \A i \in 1 .. k : SubSeq(s, 1, k)[i] = s[i]
    OBVIOUS
  <2> QED BY <1>1, <2>1, <2>2
<1>3. SubSeq(t, 1, n + 1) = t
  BY <1>1
<1> QED BY <1>2, <1>3 DEF t

LEMMA SumAppend ==
  ASSUME NEW s \in Seq(Int), NEW d \in Int
  PROVE  SumSeq(Append(s, d)) = SumSeq(s) + d
<1> DEFINE n == Len(s)
           t == Append(s, d)
<1>1. n \in Nat /\ t \in Seq(Int) /\ Len(t) = n + 1 /\ t[n + 1] = d /\ \A i \in 1 .. n : t[i] = s[i]
  OBVIOUS
<1> HIDE DEF t
<1>2. PICK a \in [0 .. Len(s) -> Int] :
        /\ a[0] = 0 /\ SumSeq(s) = a[Len(s)]
        /\ \A k \in 1 .. Len(s) : a[k] = a[k - 1] + s[k]
  BY SumGoes
<1>3. PICK b \in [0 .. Len(t) -> Int] :
        /\ b[0] = 0 /\ SumSeq(t) = b[Len(t)]
        /\ \A k \in 1 .. Len(t) : b[k] = b[k - 1] + t[k]
  BY <1>1, SumGoes
<1> DEFINE So == {k \in 0 .. n : b[k] = a[k]}
<1>4. 0 \in So
  BY <1>1, <1>2, <1>3
<1>5. ASSUME NEW k \in 1 .. n, k - 1 \in So PROVE k \in So
  <2>1. k \in 0 .. n /\ k \in 1 .. Len(t) /\ k \in 1 .. Len(s)
    BY <1>1
  <2> QED BY <1>1, <1>2, <1>3, <1>5, <2>1
<1> HIDE DEF So
<1>6. \A k \in 0 .. n : k \in So
  BY <1>1, <1>4, <1>5, UpTo
<1>7. b[n] = a[n]
  BY <1>1, <1>6 DEF So
<1>8. n + 1 \in 1 .. Len(t) /\ (n + 1) - 1 = n
  BY <1>1
<1> QED BY <1>1, <1>2, <1>3, <1>7, <1>8 DEF t

LEMMA SumNone == SumSeq(<<>>) = 0
<1>1. <<>> \in Seq(Int) /\ Len(<<>>) = 0
  OBVIOUS
<1>2. PICK a \in [0 .. Len(<<>>) -> Int] : a[0] = 0 /\ SumSeq(<<>>) = a[Len(<<>>)]
  BY <1>1, SumGoes
<1> QED BY <1>1, <1>2

(* The motion b is the motion a and one curve more.                          *)
EndX(kc) == kc.pts[Len(kc.pts) - 1]
Longer(a, b, kc, d) ==
  b.curves = Append(a.curves, Own(kc)) /\ b.durations = Append(a.durations, d)

LEMMA ReachedMore ==
  ASSUME NEW a \in KaraokeVal, NEW b, NEW kc \in GlyphCurve, NEW d \in Int, Longer(a, b, kc, d)
  PROVE  /\ SumSeq(b.durations) = SumSeq(a.durations) + d
         /\ \A g, t : ReachedAt(a, g, t) => ReachedAt(b, g, t)
         /\ \A g : EndX(kc) = 2 * g + 1 => ReachedAt(b, g, SumSeq(b.durations))
<1> DEFINE S == OwnSlot(GlyphCurve)
           slot == Own(kc)
           n == Len(a.curves)
           c == a.curves
           ds == a.durations
           c2 == b.curves
           ds2 == b.durations
<1>1. /\ c \in Seq(S) /\ ds \in Seq(Int) /\ n \in Nat /\ Len(ds) = n
  BY KaraokeValHas
<1>2. slot \in S /\ slot.own = kc
  BY DEF Own, OwnSlot
<1>3. c2 = Append(c, slot) /\ ds2 = Append(ds, d)
  BY DEF Longer
<1> HIDE DEF S, slot, c, ds, c2, ds2
<1>4. /\ DOMAIN c = 1 .. n /\ DOMAIN c2 = 1 .. n + 1 /\ c2[n + 1] = slot /\ \A k \in 1 .. n : c2[k] = c[k]
  <2>1. n = Len(c)
    BY DEF c
  <2> HIDE DEF n
  <2> QED BY <1>1, <1>2, <1>3, <2>1
<1>5. /\ \A k \in 1 .. n : SubSeq(ds2, 1, k) = SubSeq(ds, 1, k)
      /\ SubSeq(ds2, 1, n + 1) = ds2
  BY <1>1, <1>3, SubAppend
<1> HIDE DEF n
<1>6. ASSUME NEW g, NEW t, ReachedAt(a, g, t) PROVE ReachedAt(b, g, t)
  <2>1. PICK k \in DOMAIN c : /\ SumSeq(SubSeq(ds, 1, k)) = t
                              /\ c[k].own.pts[Len(c[k].own.pts) - 1] = 2 * g + 1
    BY <1>6 DEF ReachedAt, c, ds
  <2>2. k \in 1 .. n /\ k \in DOMAIN c2
    BY <1>1, <1>4, <2>1
  <2>3. /\ SumSeq(SubSeq(ds2, 1, k)) = t
        /\ c2[k].own.pts[Len(c2[k].own.pts) - 1] = 2 * g + 1
    BY <1>4, <1>5, <2>1, <2>2
  <2> QED BY <2>2, <2>3 DEF ReachedAt, c2, ds2
<1>7. ASSUME NEW g, EndX(kc) = 2 * g + 1 PROVE ReachedAt(b, g, SumSeq(ds2))
  <2>1. n + 1 \in DOMAIN c2
    BY <1>1, <1>4
  <2>2. /\ SumSeq(SubSeq(ds2, 1, n + 1)) = SumSeq(ds2)
        /\ c2[n + 1].own.pts[Len(c2[n + 1].own.pts) - 1] = 2 * g + 1
    BY <1>2, <1>4, <1>5, <1>7 DEF EndX
  <2> QED BY <2>1, <2>2 DEF ReachedAt, c2, ds2
<1>8. SumSeq(ds2) = SumSeq(ds) + d
  BY <1>1, <1>3, SumAppend
<1> QED BY <1>6, <1>7, <1>8 DEF ds, ds2

(* A parser that appended some curves to the motion it reads, and changed    *)
(* nothing else that a motion over glyphs is about.                          *)
Clocked == {"t0", "t1", "for", "text"}
SameEvent4(p, r) == \A f \in Clocked : r.event[f] = p.event[f]
SameTimes(p, r) == \A f \in {"t0", "t1", "for"} : r.event[f] = p.event[f]
Went(p, r, d) ==
  ~r.wrong =>
    /\ ~p.wrong /\ r.phase = p.phase /\ r.pending = p.pending /\ r.event = p.event
    /\ SumSeq(r.v.durations) = SumSeq(p.v.durations) + d
    /\ \A g, t : ReachedAt(p.v, g, t) => ReachedAt(r.v, g, t)
Arrives(r, g) == ~r.wrong => ReachedAt(r.v, g, SumSeq(r.v.durations))

LEMMA AppendWent ==
  ASSUME NEW p \in Parsers(KaraokeVal), NEW kc \in GlyphCurve, NEW d \in Int
  PROVE  LET r == AppendCurve(p, Own(kc), d)
         IN Went(p, r, d) /\ \A g : EndX(kc) = 2 * g + 1 => Arrives(r, g)
<1> DEFINE slot == Own(kc)
           c == slot.at = "own" /\ CurveWrong(slot.own)
           e == ErrIf(c, p)
           r == AppendCurve(p, slot, d)
           curves == Append(e.v.curves, slot)
           durations == Append(e.v.durations, d)
           w == [e.v EXCEPT !.curves = curves, !.durations = durations]
<1>1. r = [e EXCEPT !.v.curves = Append(@, slot), !.v.durations = Append(@, d)]
  BY DEF AppendCurve
<1> HIDE DEF c
<1>2. /\ e \in Parsers(KaraokeVal) /\ e.v = p.v /\ e.phase = p.phase /\ (~e.wrong => ~p.wrong)
      /\ e.pending = p.pending /\ e.event = p.event
  BY ErrIfIs DEF Reads
<1> HIDE DEF e
<1>3. e.v \in KaraokeVal
  BY <1>2, ParserHas
<1>4. r = [e EXCEPT !.v = w]
  BY <1>1, <1>2 DEF Parsers, KaraokeVal, MotionOf
<1> HIDE DEF r, slot
<1>5. w.curves = curves /\ w.durations = durations
  BY <1>3 DEF KaraokeVal, MotionOf
<1> HIDE DEF w
<1>6. /\ r.v = w /\ r.wrong = e.wrong /\ r.phase = e.phase /\ r.pending = e.pending /\ r.event = e.event
  BY <1>2, <1>4 DEF Parsers
<1>7. Longer(p.v, w, kc, d)
  BY <1>2, <1>5 DEF Longer, slot
<1>8. p.v \in KaraokeVal
  BY ParserHas
<1>9. /\ SumSeq(w.durations) = SumSeq(p.v.durations) + d
      /\ \A g, t : ReachedAt(p.v, g, t) => ReachedAt(w, g, t)
      /\ \A g : EndX(kc) = 2 * g + 1 => ReachedAt(w, g, SumSeq(w.durations))
  BY <1>7, <1>8, ReachedMore
<1>10. Went(p, r, d)
  BY <1>2, <1>6, <1>9 DEF Went
<1>11. \A g : EndX(kc) = 2 * g + 1 => Arrives(r, g)
  BY <1>6, <1>9 DEF Arrives
<1> QED BY <1>10, <1>11 DEF r, slot

LEMMA WentBoth ==
  ASSUME NEW p \in Parsers(KaraokeVal), NEW q, NEW r, NEW a \in Int, NEW b \in Int, Went(p, q, a), Went(q, r, b)
  PROVE  Went(p, r, a + b)
<1>1. SumSeq(p.v.durations) \in Int
  BY ParserHas, KaraokeValHas, SumIs
<1> QED BY <1>1 DEF Went

LEMMA PauseWent ==
  ASSUME NEW p \in Parsers(KaraokeVal), NEW top, NEW d \in Int
  PROVE  Went(p, Pause(p, d, top), d)
<1> DEFINE a == LastX(p.v)
           b == Height(p, top)
           pts == <<a, b>>
           kc == [type |-> "static", pts |-> pts]
<1>1. p.v \in KaraokeVal
  BY ParserHas
<1>2. a \in Int /\ b \in Int
  BY <1>1, KaraokeValIs, HeightIs
<1>3. Pause(p, d, top) = AppendCurve(p, Own(kc), d)
  BY DEF Pause
<1> HIDE DEF a, b
<1>4. kc \in GlyphCurve
  <2>1. pts \in Seq(Int) /\ Len(pts) = 2
    BY <1>2
  <2> HIDE DEF pts
  <2>2. Len(pts) >= 2
    BY <2>1
  <2> QED BY <2>1, <2>2, DrawnGlyph, Words0
<1> HIDE DEF kc
<1> QED BY <1>3, <1>4, AppendWent

LEMMA JumpWent ==
  ASSUME NEW p \in Parsers(KaraokeVal), NEW g \in Int, NEW d \in Int, NEW high \in Int
  PROVE  LET r == Jump(p, 2 * g + 1, d, high) IN Went(p, r, d) /\ Arrives(r, g)
<1> DEFINE x0 == LastX(p.v)
           x1 == 2 * g + 1
           low == Height(p, FALSE)
           mid == (x0 + x1) \div 2
           s1 == <<x1, low>>
           s2 == <<x0, low, x0, low, mid, high, x1, low, x1, low>>
           k1 == [type |-> "static", pts |-> s1]
           k2 == [type |-> "catmull_rom", pts |-> s2]
           r == Jump(p, x1, d, high)
<1>1. p.v \in KaraokeVal
  BY ParserHas
<1>2. x0 \in Int /\ low \in Int /\ x1 \in Int
  <2>1. x0 \in Int /\ low \in Int
    BY <1>1, KaraokeValIs, HeightIs
  <2>2. x1 \in Int
    OBVIOUS
  <2> QED BY <2>1, <2>2
<1>3. r = AppendCurve(p, Own(IF d = 0 THEN k1 ELSE k2), d)
  BY DEF Jump
<1> HIDE DEF x0, low, r
<1>4. mid \in Int
  BY <1>2
<1>7. x1 = 2 * g + 1
  OBVIOUS
<1> HIDE DEF mid, x1
<1>5. k1 \in GlyphCurve /\ k2 \in GlyphCurve /\ EndX(k1) = x1 /\ EndX(k2) = x1
  <2>1. s1 \in Seq(Int) /\ Len(s1) = 2 /\ s2 \in Seq(Int) /\ Len(s2) = 10 /\ s1[1] = x1 /\ s2[9] = x1
    BY <1>2, <1>4
  <2> HIDE DEF s1, s2
  <2>2. Len(s1) >= 2 /\ Len(s2) >= 2 /\ s1[Len(s1) - 1] = x1 /\ s2[Len(s2) - 1] = x1
    BY <2>1
  <2> QED BY <2>1, <2>2, DrawnGlyph, Words0 DEF EndX
<1> HIDE DEF k1, k2
<1> DEFINE kc == IF d = 0 THEN k1 ELSE k2
<1>6. kc \in GlyphCurve /\ EndX(kc) = x1
  BY <1>5
<1> HIDE DEF kc
<1>8. r = AppendCurve(p, Own(kc), d)
  BY <1>3 DEF kc
<1>9. Went(p, r, d) /\ \A h : EndX(kc) = 2 * h + 1 => Arrives(r, h)
  BY <1>6, <1>8, AppendWent
<1> QED BY <1>6, <1>7, <1>9 DEF r, x1

LEMMA TransitionWent ==
  ASSUME NEW U, NEW p0 \in Parsers(U), NEW ok \in BOOLEAN, NEW p \in Steps(KaraokeVal, p0, ok),
         NEW g \in Int, NEW s, s.time \in Int, NEW morph
  PROVE  LET r == Transition(p, g, s, morph)
         IN /\ Went(p, r, IF s.absolute THEN s.time - SumSeq(p.v.durations) ELSE s.time)
            /\ Arrives(r, g)
<1> DEFINE d == Wait(p.v, s)
           low == Height(p, FALSE)
           high == Height(p, TRUE)
           q == Pause(p, d, FALSE)
           r == Transition(p, g, s, morph)
           r1 == Jump(q, 2 * g + 1, 0, low)
           r2 == Jump(p, 2 * g + 1, d, high)
<1>1. p \in Parsers(KaraokeVal) /\ p.v \in KaraokeVal
  BY ParserHas DEF Steps
<1>2. d \in Int /\ low \in Int /\ high \in Int
  <2>1. SumSeq(p.v.durations) \in Int
    BY <1>1, KaraokeValHas, SumIs
  <2>2. d \in Int
    BY <2>1 DEF Wait
  <2>3. low \in Int /\ high \in Int
    BY <1>1, HeightIs
  <2> QED BY <2>2, <2>3
<1>3. r \in {Ended(p, "exited"), r1, r2}
  BY <1>2 DEF Transition
<1>7. d = IF s.absolute THEN s.time - SumSeq(p.v.durations) ELSE s.time
  BY DEF Wait
<1> HIDE DEF d, low, high, r
<1>4. q \in Parsers(KaraokeVal) /\ Went(p, q, d)
  BY <1>1, <1>2, PauseIs, PauseWent DEF Steps
<1> HIDE DEF q
<1>5. CASE r = r1
  <2>1. Went(q, r1, 0) /\ Arrives(r1, g)
    BY <1>2, <1>4, JumpWent
  <2> HIDE DEF r1
  <2>2. Went(p, r1, d + 0)
    BY <1>1, <1>2, <1>4, <2>1, WentBoth
  <2>3. d + 0 = d
    BY <1>2
  <2> QED BY <1>5, <1>7, <2>1, <2>2, <2>3 DEF r
<1>6. CASE r = r2
  <2>1. Went(p, r2, d) /\ Arrives(r2, g)
    BY <1>1, <1>2, JumpWent
  <2> HIDE DEF r2
  <2> QED BY <1>6, <1>7, <2>1 DEF r
<1>8. CASE r = Ended(p, "exited")
  <2>1. r.wrong
    BY <1>1, <1>8, EndedIs
  <2> QED BY <1>7, <2>1 DEF Went, Arrives, r
<1> QED BY <1>3, <1>5, <1>6, <1>8

-----------------------------------------------------------------------------
(* The expansion of a text that goes on, and of one that was expanded.       *)

Plainly1(c) == IF c = "backn" THEN "nl" ELSE c
RunBy(a, c) == ExpandedBy(a, Plainly1(c))
RunFrom(a, text) ==
  LET at[k \in 0 .. Len(text)] == IF k = 0 THEN a ELSE RunBy(at[k - 1], text[k])
  IN at[Len(text)]
RunOf(text) == RunFrom([state |-> "text", out |-> <<>>], text)
RunT == [state : {"text", "amp", "named"}, out : Seq(Word)]

RunFromStays(S, G, a, text) ==
  a \in S /\ text \in Seq(G) /\ \A q \in S : \A k \in 1 .. Len(text) : RunBy(q, text[k]) \in S
LEMMA RunFromGoes ==
  ASSUME NEW S, NEW G, NEW a, NEW text, RunFromStays(S, G, a, text)
  PROVE  \E at \in [0 .. Len(text) -> S] :
           /\ at[0] = a /\ RunFrom(a, text) = at[Len(text)]
           /\ \A k \in 1 .. Len(text) : at[k] = RunBy(at[k - 1], text[k])
<1>0. a \in S /\ text \in Seq(G) /\ \A q \in S : \A k \in 1 .. Len(text) : RunBy(q, text[k]) \in S
  BY DEF RunFromStays
<1> DEFINE n == Len(text)
           F == [j \in (1 .. n) \X S |-> RunBy(j[2], text[j[1]])]
           Runs(g) == g = [k \in 0 .. n |-> IF k = 0 THEN a ELSE RunBy(g[k - 1], text[k])]
           at == CHOOSE g : Runs(g)
<1>1. n \in Nat /\ F \in [(1 .. n) \X S -> S]
  BY <1>0
<1>2. \A k \in 1 .. n : \A q \in S : F[<<k, q>>] = RunBy(q, text[k])
  BY <1>0
<1>3. RunFrom(a, text) = at[n]
  BY DEF RunFrom
<1> HIDE DEF n, F
<1>4. PICK f \in [0 .. n -> S] : Goes(f, n, a, F)
  BY <1>0, <1>1, LoopGoes
<1>5. Runs(f)
  <2>1. ASSUME NEW k \in 1 .. n PROVE f[k] = RunBy(f[k - 1], text[k])
    <3>1. k - 1 \in 0 .. n /\ f[k - 1] \in S
      BY <1>1
    <3> QED BY <1>2, <1>4, <3>1 DEF Goes
  <2>2. \A k \in 0 .. n : f[k] = IF k = 0 THEN a ELSE RunBy(f[k - 1], text[k])
    BY <1>1, <1>4, <2>1 DEF Goes
  <2> QED BY <1>4, <2>2
<1>6. Runs(at)
  BY <1>5
<1> HIDE DEF at
<1>7. at[0] = a /\ \A k \in 1 .. n : at[k] = RunBy(at[k - 1], text[k])
  BY <1>1, <1>6
<1>8. \A k \in 0 .. n : at[k] \in S
  <2>1. \A k \in 1 .. n : at[k - 1] \in S => at[k] = F[<<k, at[k - 1]>>]
    BY <1>2, <1>7
  <2>2. at[0] = a
    BY <1>7
  <2> QED BY <1>0, <1>1, <2>1, <2>2, LoopStays
<1>9. at \in [0 .. n -> S]
  BY <1>6, <1>8
<1> QED BY <1>0, <1>3, <1>7, <1>9 DEF n

LEMMA RunByIs == ASSUME NEW q \in RunT, NEW c \in Word PROVE RunBy(q, c) \in RunT
<1> DEFINE d == Plainly1(c)
<1>1. d \in Word
  BY Letters DEF Plainly1
<1>2. RunBy(q, c) = ExpandedBy(q, d)
  BY DEF RunBy
<1> HIDE DEF d
<1>3. CASE d \in Numeric /\ q.state = "text"
  <2>1. q.out \o Escaped(CharOf[d]) \in Seq(Word)
    BY <1>3, EscapedIs DEF RunT
  <2> HIDE DEF Escaped
  <2> QED BY <1>2, <1>3, <2>1 DEF ExpandedBy, RunT
<1>4. CASE d \in Numeric /\ q.state # "text"
  BY <1>1, <1>2, <1>4 DEF ExpandedBy, RunT
<1>5. CASE d \notin Numeric
  BY <1>1, <1>2, <1>5 DEF ExpandedBy, RunT
<1> QED BY <1>3, <1>4, <1>5

LEMMA RunFromIs ==
  ASSUME NEW a \in RunT, NEW text \in Seq(Word)
  PROVE  \E at \in [0 .. Len(text) -> RunT] :
           /\ at[0] = a /\ RunFrom(a, text) = at[Len(text)]
           /\ \A k \in 1 .. Len(text) : at[k] = RunBy(at[k - 1], text[k])
<1>1. \A q \in RunT : \A k \in 1 .. Len(text) : RunBy(q, text[k]) \in RunT
  BY RunByIs
<1>2. RunFromStays(RunT, Word, a, text)
  BY <1>1 DEF RunFromStays
<1> QED BY <1>2, RunFromGoes

LEMMA RunNone == ASSUME NEW a \in RunT PROVE RunFrom(a, <<>>) = a
<1>1. <<>> \in Seq(Word) /\ Len(<<>>) = 0
  OBVIOUS
<1>2. PICK at \in [0 .. Len(<<>>) -> RunT] : at[0] = a /\ RunFrom(a, <<>>) = at[Len(<<>>)]
  BY <1>1, RunFromIs
<1> QED BY <1>1, <1>2

LEMMA RunMore ==
  ASSUME NEW a \in RunT, NEW s \in Seq(Word), NEW c \in Word
  PROVE  RunFrom(a, Append(s, c)) = RunBy(RunFrom(a, s), c)
<1> DEFINE n == Len(s)
           t == Append(s, c)
<1>1. n \in Nat /\ t \in Seq(Word) /\ Len(t) = n + 1 /\ t[n + 1] = c /\ \A i \in 1 .. n : t[i] = s[i]
  OBVIOUS
<1> HIDE DEF t
<1>2. PICK f \in [0 .. Len(s) -> RunT] :
        /\ f[0] = a /\ RunFrom(a, s) = f[Len(s)]
        /\ \A k \in 1 .. Len(s) : f[k] = RunBy(f[k - 1], s[k])
  BY RunFromIs
<1>3. PICK g \in [0 .. Len(t) -> RunT] :
        /\ g[0] = a /\ RunFrom(a, t) = g[Len(t)]
        /\ \A k \in 1 .. Len(t) : g[k] = RunBy(g[k - 1], t[k])
  BY <1>1, RunFromIs
<1> DEFINE So == {k \in 0 .. n : g[k] = f[k]}
<1>4. 0 \in So
  BY <1>1, <1>2, <1>3
<1>5. ASSUME NEW k \in 1 .. n, k - 1 \in So PROVE k \in So
  <2>1. k \in 0 .. n /\ k \in 1 .. Len(t) /\ k \in 1 .. Len(s)
    BY <1>1
  <2>2. g[k - 1] = f[k - 1] /\ t[k] = s[k]
    BY <1>1, <1>5
  <2>3. g[k] = RunBy(g[k - 1], t[k]) /\ f[k] = RunBy(f[k - 1], s[k])
    BY <1>2, <1>3, <2>1
  <2> QED BY <2>1, <2>2, <2>3
<1> HIDE DEF So
<1>6. \A k \in 0 .. n : k \in So
  BY <1>1, <1>4, <1>5, UpTo
<1>7. g[n] = f[n]
  BY <1>1, <1>6 DEF So
<1>8. n + 1 \in 1 .. Len(t) /\ (n + 1) - 1 = n
  BY <1>1
<1>9. g[n + 1] = RunBy(g[n], c)
  BY <1>1, <1>3, <1>8
<1> QED BY <1>1, <1>2, <1>3, <1>7, <1>9 DEF t

LEMMA RunIs ==
  ASSUME NEW a \in RunT, NEW s \in Seq(Word) PROVE RunFrom(a, s) \in RunT
<1>1. PICK f \in [0 .. Len(s) -> RunT] : f[0] = a /\ RunFrom(a, s) = f[Len(s)]
  BY RunFromIs
<1>2. Len(s) \in 0 .. Len(s)
  OBVIOUS
<1> QED BY <1>1, <1>2

(* The start of a text, and one character more.                              *)
LEMMA PrefixMore ==
  ASSUME NEW t \in Seq(Word), NEW k \in 1 .. Len(t)
  PROVE  /\ SubSeq(t, 1, k - 1) \in Seq(Word) /\ SubSeq(t, 1, k) \in Seq(Word) /\ t[k] \in Word
         /\ SubSeq(t, 1, k) = Append(SubSeq(t, 1, k - 1), t[k])
         /\ \A s \in Seq(Word) : s \o SubSeq(t, 1, k) = Append(s \o SubSeq(t, 1, k - 1), t[k])
<1> DEFINE a == SubSeq(t, 1, k - 1)
           b == SubSeq(t, 1, k)
<1>1. a \in Seq(Word) /\ Len(a) = k - 1 /\ \A i \in 1 .. k - 1 : a[i] = t[i]
  OBVIOUS
<1>2. b \in Seq(Word) /\ Len(b) = k /\ \A i \in 1 .. k : b[i] = t[i]
  OBVIOUS
<1>3. t[k] \in Word
  OBVIOUS
<1> HIDE DEF a, b
<1>4. b = Append(a, t[k])
  BY <1>1, <1>2, <1>3
<1>5. \A s \in Seq(Word) : s \o b = Append(s \o a, t[k])
  BY <1>1, <1>3, <1>4
<1> QED BY <1>1, <1>2, <1>3, <1>4, <1>5 DEF a, b

LEMMA RunJoined ==
  ASSUME NEW a \in RunT, NEW s \in Seq(Word), NEW t \in Seq(Word)
  PROVE  RunFrom(a, s \o t) = RunFrom(RunFrom(a, s), t)
<1> DEFINE n == Len(t)
           So == {k \in 0 .. n : RunFrom(a, s \o SubSeq(t, 1, k)) = RunFrom(RunFrom(a, s), SubSeq(t, 1, k))}
<1>1. n \in Nat /\ RunFrom(a, s) \in RunT
  BY RunIs
<1>2. 0 \in So
  <2>1. SubSeq(t, 1, 0) = <<>> /\ s \o <<>> = s /\ 0 \in 0 .. n
    OBVIOUS
  <2>2. RunFrom(RunFrom(a, s), <<>>) = RunFrom(a, s)
    BY <1>1, RunNone
  <2> HIDE DEF n
  <2> QED BY <2>1, <2>2
<1>3. ASSUME NEW k \in 1 .. n, k - 1 \in So PROVE k \in So
  <2> DEFINE u == SubSeq(t, 1, k - 1)
             v == SubSeq(t, 1, k)
  <2>1. k \in 0 .. n /\ RunFrom(a, s \o u) = RunFrom(RunFrom(a, s), u)
    BY <1>1, <1>3
  <2>2. /\ u \in Seq(Word) /\ t[k] \in Word /\ v = Append(u, t[k])
        /\ s \o v = Append(s \o u, t[k]) /\ s \o u \in Seq(Word)
    <3>1. /\ u \in Seq(Word) /\ t[k] \in Word /\ v = Append(u, t[k])
          /\ s \o v = Append(s \o u, t[k])
      BY PrefixMore
    <3> QED BY <3>1
  <2> HIDE DEF u, v
  <2>3. RunFrom(a, s \o v) = RunBy(RunFrom(a, s \o u), t[k])
    BY <2>2, RunMore
  <2>4. RunFrom(RunFrom(a, s), v) = RunBy(RunFrom(RunFrom(a, s), u), t[k])
    BY <1>1, <2>2, RunMore
  <2> QED BY <2>1, <2>3, <2>4 DEF v
<1> HIDE DEF So
<1>4. \A k \in 0 .. n : k \in So
  BY <1>1, <1>2, <1>3, UpTo
<1>5. SubSeq(t, 1, n) = t /\ n \in So
  BY <1>1, <1>4
<1> QED BY <1>5 DEF So

LEMMA ExpandedRun ==
  ASSUME NEW t \in Seq(Word) PROVE Expanded(Backslashed(t)) = RunOf(t).out
<1> DEFINE a == [state |-> "text", out |-> <<>>]
           b == Backslashed(t)
<1>1. a \in RunT
  BY DEF RunT
<1>2. b \in Seq(Word) /\ Len(b) = Len(t) /\ \A k \in 1 .. Len(t) : b[k] = Plainly1(t[k]) /\ b[k] \in Word
  <2>1. b \in Seq(Word)
    BY BackslashedIs
  <2>2. b = [i \in 1 .. Len(t) |-> Plainly1(t[i])]
    BY DEF Backslashed, Plainly1
  <2> HIDE DEF b
  <2>3. DOMAIN b = 1 .. Len(t) /\ Len(t) \in Nat
    BY <2>2
  <2>4. Len(b) = Len(t)
    BY <2>1, <2>3
  <2> QED BY <2>1, <2>2, <2>4
<1> HIDE DEF b
<1>3. PICK f \in [0 .. Len(b) -> RunT] :
        /\ f[0] = a /\ Expanded(b) = f[Len(b)].out
        /\ \A k \in 1 .. Len(b) : f[k] = ExpandedBy(f[k - 1], b[k])
  <2>1. \A q \in RunT : \A k \in 1 .. Len(b) : ExpandedBy(q, b[k]) \in RunT
    <3>1. \A q \in RunT : \A k \in 1 .. Len(t) : RunBy(q, t[k]) \in RunT
      BY RunByIs
    <3>2. \A q : \A k \in 1 .. Len(t) : RunBy(q, t[k]) = ExpandedBy(q, b[k])
      BY <1>2 DEF RunBy
    <3> QED BY <1>2, <3>1, <3>2
  <2>2. ExpandedStays(RunT, Word, b)
    BY <1>1, <1>2, <2>1 DEF ExpandedStays
  <2> QED BY <2>2, ExpandedGoes
<1>4. PICK g \in [0 .. Len(t) -> RunT] :
        /\ g[0] = a /\ RunFrom(a, t) = g[Len(t)]
        /\ \A k \in 1 .. Len(t) : g[k] = RunBy(g[k - 1], t[k])
  BY <1>1, RunFromIs
<1> DEFINE n == Len(t)
           So == {k \in 0 .. n : g[k] = f[k]}
<1>5. n \in Nat /\ 0 \in So
  BY <1>3, <1>4
<1>6. ASSUME NEW k \in 1 .. n, k - 1 \in So PROVE k \in So
  <2>1. g[k - 1] = f[k - 1] /\ k \in 1 .. Len(b) /\ k \in 0 .. n
    BY <1>2, <1>6
  <2>2. g[k] = ExpandedBy(g[k - 1], b[k])
    BY <1>2, <1>4 DEF RunBy
  <2>3. f[k] = ExpandedBy(f[k - 1], b[k])
    BY <1>3, <2>1
  <2> QED BY <2>1, <2>2, <2>3
<1> HIDE DEF So
<1>7. \A k \in 0 .. n : k \in So
  BY <1>5, <1>6, UpTo
<1>8. g[n] = f[n]
  BY <1>5, <1>7 DEF So
<1> QED BY <1>2, <1>3, <1>4, <1>8 DEF b, RunOf

(* What one character adds to an expanded text expands to itself.            *)
Extends(r, q, w) == w \in Seq(Word) /\ q.out = r.out \o w /\ RunFrom(r, w) = q

LEMMA RunOne == ASSUME NEW r \in RunT, NEW c \in Word PROVE RunFrom(r, <<c>>) = RunBy(r, c)
<1>1. <<>> \in Seq(Word) /\ Append(<<>>, c) = <<c>>
  OBVIOUS
<1>2. RunFrom(r, Append(<<>>, c)) = RunBy(RunFrom(r, <<>>), c)
  BY <1>1, RunMore
<1> QED BY <1>1, <1>2, RunNone

LEMMA RunThree ==
  ASSUME NEW r \in RunT, NEW a \in Word, NEW b \in Word, NEW c \in Word
  PROVE  RunFrom(r, <<a, b, c>>) = RunBy(RunBy(RunBy(r, a), b), c)
<1> DEFINE s == <<a>>
           t == <<a, b>>
<1>1. s \in Seq(Word) /\ t \in Seq(Word) /\ t = Append(s, b) /\ <<a, b, c>> = Append(t, c)
  OBVIOUS
<1>2. RunFrom(r, s) = RunBy(r, a)
  BY RunOne
<1> HIDE DEF s, t
<1>3. RunFrom(r, t) = RunBy(RunFrom(r, s), b) /\ RunFrom(r, Append(t, c)) = RunBy(RunFrom(r, t), c)
  BY <1>1, RunMore
<1> QED BY <1>1, <1>2, <1>3

LEMMA RunAdds == ASSUME NEW r \in RunT, NEW c \in Word PROVE \E w : Extends(r, RunBy(r, c), w)
<1> DEFINE d == Plainly1(c)
           q == RunBy(r, c)
<1>1. d \in Word /\ d # "backn" /\ q = ExpandedBy(r, d) /\ RunBy(r, d) = q /\ Plainly1(d) = d
  <2>1. d \in Word /\ d # "backn"
    BY Letters DEF Plainly1
  <2> HIDE DEF d
  <2>2. Plainly1(d) = d
    BY <2>1 DEF Plainly1
  <2>3. q = ExpandedBy(r, d) /\ RunBy(r, d) = ExpandedBy(r, d)
    BY <2>2 DEF RunBy, d
  <2> QED BY <2>1, <2>2, <2>3
<1> HIDE DEF d, q
<1>2. CASE d \notin Numeric \/ r.state # "text"
  <2>1. q.out = Append(r.out, d)
    BY <1>1, <1>2 DEF ExpandedBy, RunT
  <2>2. Append(r.out, d) = r.out \o <<d>> /\ <<d>> \in Seq(Word)
    BY <1>1 DEF RunT
  <2>3. RunFrom(r, <<d>>) = q
    BY <1>1, RunOne
  <2> QED BY <2>1, <2>2, <2>3 DEF Extends, q
<1>3. CASE d \in Numeric /\ r.state = "text"
  <2> DEFINE e == CharOf[d]
             w == Escaped(e)
  <2>1. q = [r EXCEPT !.out = @ \o w]
    BY <1>1, <1>3 DEF ExpandedBy
  <2>2. e \in {"a", "&", "<", "nl", "quote"} /\ w \in Seq(Word)
    BY <1>3, EscapedIs DEF CharOf, Numeric
  <2>3. q.out = r.out \o w /\ q.state = "text" /\ q = [state |-> "text", out |-> r.out \o w]
    <3> HIDE DEF w
    <3> QED BY <1>3, <2>1, <2>2 DEF RunT
  <2>4. CASE e \in {"a", "nl", "quote"}
    <3>1. w = <<e>> /\ e \in Word /\ e \notin Numeric /\ e # "&" /\ e # "semicolon" /\ Plainly1(e) = e
      BY <2>4, Letters DEF Escaped, NameOf, Numeric, Plainly1
    <3> HIDE DEF w, e
    <3>2. RunBy(r, e) = [state |-> "text", out |-> Append(r.out, e)]
      BY <1>3, <3>1 DEF RunBy, ExpandedBy
    <3>3. Append(r.out, e) = r.out \o w
      BY <3>1 DEF RunT
    <3>4. RunFrom(r, w) = RunBy(r, e)
      BY <3>1, RunOne
    <3> QED BY <2>2, <2>3, <3>2, <3>3, <3>4 DEF Extends, q
  <2>5. CASE e \in {"&", "<"}
    <3> DEFINE m == NameOf[e]
    <3>1. w = <<"&", m, "semicolon">> /\ m \in {"amp", "lt"}
      BY <2>5 DEF Escaped, NameOf
    <3> HIDE DEF w, e, m
    <3>2. "&" \in Word /\ m \in Word /\ "semicolon" \in Word
      BY <3>1, Letters
    <3> DEFINE r1 == [state |-> "amp", out |-> Append(r.out, "&")]
               r2 == [state |-> "named", out |-> Append(Append(r.out, "&"), m)]
               r3 == [state |-> "text", out |-> Append(Append(Append(r.out, "&"), m), "semicolon")]
    <3>3. RunBy(r, "&") = r1
      BY <1>3 DEF RunBy, ExpandedBy, Plainly1, Numeric
    <3>4. RunBy(r1, m) = r2
      BY <3>1 DEF RunBy, ExpandedBy, Plainly1, Numeric
    <3>5. RunBy(r2, "semicolon") = r3
      BY DEF RunBy, ExpandedBy, Plainly1, Numeric
    <3> HIDE DEF r1, r2, r3
    <3>6. RunFrom(r, w) = r3
      BY <3>1, <3>2, <3>3, <3>4, <3>5, RunThree
    <3>7. Append(Append(Append(r.out, "&"), m), "semicolon") = r.out \o w
      BY <3>1, <3>2 DEF RunT
    <3> QED BY <2>2, <2>3, <3>6, <3>7 DEF Extends, q, r3
  <2> QED BY <2>2, <2>4, <2>5
<1> QED BY <1>2, <1>3

LEMMA RunAgain ==
  ASSUME NEW t \in Seq(Word)
  PROVE  RunOf(t) \in RunT /\ RunOf(RunOf(t).out) = RunOf(t)
<1> DEFINE a == [state |-> "text", out |-> <<>>]
           n == Len(t)
           R(k) == RunFrom(a, SubSeq(t, 1, k))
           So == {k \in 0 .. n : R(k) \in RunT /\ RunFrom(a, R(k).out) = R(k)}
<1>1. a \in RunT /\ a.out = <<>> /\ n \in Nat
  BY DEF RunT
<1> HIDE DEF a
<1>2. 0 \in So
  <2>1. SubSeq(t, 1, 0) = <<>> /\ 0 \in 0 .. n
    OBVIOUS
  <2>2. R(0) = a
    BY <1>1, <2>1, RunNone
  <2> HIDE DEF R, n
  <2> QED BY <1>1, <2>1, <2>2, RunNone
<1>3. ASSUME NEW k \in 1 .. n, k - 1 \in So PROVE k \in So
  <2> DEFINE u == SubSeq(t, 1, k - 1)
             r == RunFrom(a, u)
             q == RunBy(r, t[k])
  <2>1. k \in 0 .. n /\ r \in RunT /\ RunFrom(a, r.out) = r
    BY <1>1, <1>3
  <2>2. u \in Seq(Word) /\ t[k] \in Word /\ SubSeq(t, 1, k) = Append(u, t[k])
    BY PrefixMore
  <2> HIDE DEF u
  <2>3. R(k) = q
    BY <1>1, <2>2, RunMore
  <2> HIDE DEF r, R
  <2>4. PICK w : Extends(r, q, w)
    BY <2>1, <2>2, RunAdds
  <2>5. q \in RunT
    BY <2>1, <2>2, RunByIs
  <2>6. r.out \in Seq(Word)
    BY <2>1 DEF RunT
  <2> HIDE DEF q
  <2>7. RunFrom(a, q.out) = RunFrom(RunFrom(a, r.out), w)
    BY <1>1, <2>4, <2>6, RunJoined DEF Extends
  <2>8. RunFrom(a, q.out) = q
    BY <2>1, <2>4, <2>7 DEF Extends
  <2> QED BY <2>1, <2>3, <2>5, <2>8
<1> HIDE DEF So, R
<1>4. \A k \in 0 .. n : k \in So
  BY <1>1, <1>2, <1>3, UpTo
<1>5. n \in So /\ SubSeq(t, 1, n) = t
  BY <1>1, <1>4
<1> QED BY <1>5 DEF So, R, RunOf, a

(* A karaoke statement expands anew the text that was expanded before it.    *)
LEMMA RunWords ==
  ASSUME NEW text \in Seq(Word), NEW words \in Seq(Word), RunOf(text) = RunOf(words), NEW more \in Seq(Word)
  PROVE  LET new == Expanded(Backslashed(text \o more))
         IN new = Expanded(Backslashed(words \o more)) /\ RunOf(new) = RunOf(words \o more)
<1> DEFINE a == [state |-> "text", out |-> <<>>]
           s == text \o more
           t == words \o more
<1>1. a \in RunT
  BY DEF RunT
<1>2. RunFrom(a, s) = RunFrom(RunFrom(a, text), more) /\ RunFrom(a, t) = RunFrom(RunFrom(a, words), more)
  BY <1>1, RunJoined
<1>3. s \in Seq(Word) /\ t \in Seq(Word)
  OBVIOUS
<1> HIDE DEF s, t
<1>4. RunOf(s) = RunOf(t)
  BY <1>2 DEF RunOf
<1>5. Expanded(Backslashed(s)) = RunOf(t).out /\ Expanded(Backslashed(t)) = RunOf(t).out
  BY <1>3, <1>4, ExpandedRun
<1>6. RunOf(RunOf(t).out) = RunOf(t)
  BY <1>3, RunAgain
<1> QED BY <1>5, <1>6 DEF s, t

-----------------------------------------------------------------------------
(* What is seen of a text, entity by entity.                                 *)

Closed == {t \in Seq(Word) : ~HasBareAmpersand(t)}
Inside(t, i) == \E j \in {i - 1, i - 2} : j > 0 /\ EntityAt(t, j)
Sign(c) == IF c \in Numeric THEN CharOf[c] ELSE c

LEMMA CharsAre ==
  /\ \A c \in Word : Sign(c) \in Word
  /\ \A m \in EntityNames : m \in {"amp", "lt", "gt"} /\ CharNamed(m) \in {"&", "<", ">"}
  /\ EntityNames \subseteq Word /\ {"&", "<", ">", "blank", "backn"} \subseteq Word
<1>1. \A c \in Word : Sign(c) \in Word
  BY Letters DEF Sign, CharOf, Numeric
<1>2. \A m \in EntityNames : m \in {"amp", "lt", "gt"}
  BY DEF EntityNames, NameOf
<1>3. DOMAIN NameOf = {"&", "<", ">"}
  BY DEF NameOf
<1>4. ASSUME NEW m \in EntityNames PROVE CharNamed(m) \in {"&", "<", ">"}
  <2>1. \E c \in DOMAIN NameOf : NameOf[c] = m
    BY DEF EntityNames
  <2> QED BY <1>3, <2>1 DEF CharNamed
<1>5. {"&", "<", ">", "blank", "backn"} \subseteq Word
  BY DEF Word
<1>6. EntityNames \subseteq Word
  BY <1>2, Letters
<1> QED BY <1>1, <1>2, <1>4, <1>5, <1>6

LEMMA SeenByIs ==
  ASSUME NEW t \in Seq(Word), NEW q \in Seq(Word), NEW k \in 1 .. Len(t)
  PROVE  /\ SeenBy(q, t, k) \in Seq(Word)
         /\ EntityAt(t, k) => SeenBy(q, t, k) = Append(q, CharNamed(t[k + 1]))
         /\ ~EntityAt(t, k) /\ Inside(t, k) => SeenBy(q, t, k) = q
         /\ ~EntityAt(t, k) /\ ~Inside(t, k) => SeenBy(q, t, k) = Append(q, Sign(t[k]))
<1>1. EntityAt(t, k) => SeenBy(q, t, k) = Append(q, CharNamed(t[k + 1])) /\ CharNamed(t[k + 1]) \in Word
  <2>1. EntityAt(t, k) => CharNamed(t[k + 1]) \in Word
    BY CharsAre, Letters DEF EntityAt
  <2>2. EntityAt(t, k) => t[k] = "&"
    BY DEF EntityAt
  <2>3. Inside(t, k) => t[k] \in EntityNames \cup {"semicolon"}
    <3>1. (k - 1) + 1 = k /\ (k - 2) + 2 = k
      OBVIOUS
    <3> QED BY <3>1 DEF Inside, EntityAt
  <2>4. "&" \notin EntityNames \cup {"semicolon"}
    BY CharsAre
  <2>5. EntityAt(t, k) => ~Inside(t, k)
    BY <2>2, <2>3, <2>4
  <2> QED BY <2>1, <2>5 DEF SeenBy, Inside
<1>2. ~EntityAt(t, k) /\ Inside(t, k) => SeenBy(q, t, k) = q
  BY DEF SeenBy, Inside
<1>3. ~EntityAt(t, k) /\ ~Inside(t, k) => SeenBy(q, t, k) = Append(q, Sign(t[k]))
  BY DEF SeenBy, Inside, Sign
<1>4. Sign(t[k]) \in Word
  BY CharsAre
<1> QED BY <1>1, <1>2, <1>3, <1>4

SeenGo(t, at) ==
  /\ at[0] = <<>> /\ Seen(t) = at[Len(t)]
  /\ \A k \in 1 .. Len(t) : at[k] = SeenBy(at[k - 1], t, k)

LEMMA SeenGoes == ASSUME NEW text \in Seq(Word) PROVE \E at \in [0 .. Len(text) -> Seq(Word)] : SeenGo(text, at)
<1> DEFINE n == Len(text)
           S == Seq(Word)
           F == [j \in (1 .. n) \X S |-> SeenBy(j[2], text, j[1])]
           Runs(g) == g = [k \in 0 .. n |-> IF k = 0 THEN <<>> ELSE SeenBy(g[k - 1], text, k)]
           at == CHOOSE g : Runs(g)
<1>1. n \in Nat /\ <<>> \in S
  OBVIOUS
<1>2. \A k \in 1 .. n : \A q \in S : SeenBy(q, text, k) \in S
  BY SeenByIs
<1>3. F \in [(1 .. n) \X S -> S] /\ \A k \in 1 .. n : \A q \in S : F[<<k, q>>] = SeenBy(q, text, k)
  <2> HIDE DEF n, S
  <2> QED BY <1>2
<1>4. Seen(text) = at[n]
  BY DEF Seen
<1> HIDE DEF n, F, S
<1>5. PICK f \in [0 .. n -> S] : Goes(f, n, <<>>, F)
  BY <1>1, <1>3, LoopGoes
<1>6. Runs(f)
  <2>1. ASSUME NEW k \in 1 .. n PROVE f[k] = SeenBy(f[k - 1], text, k)
    <3>1. k - 1 \in 0 .. n /\ f[k - 1] \in S
      BY <1>1
    <3> QED BY <1>3, <1>5, <3>1 DEF Goes
  <2>2. \A k \in 0 .. n : f[k] = IF k = 0 THEN <<>> ELSE SeenBy(f[k - 1], text, k)
    BY <1>1, <1>5, <2>1 DEF Goes
  <2> QED BY <1>5, <2>2
<1>7. Runs(at)
  BY <1>6
<1> HIDE DEF at
<1>8. at[0] = <<>> /\ \A k \in 1 .. n : at[k] = SeenBy(at[k - 1], text, k)
  <2>1. 0 \in 0 .. n /\ \A k \in 1 .. n : k \in 0 .. n /\ k # 0
    BY <1>1
  <2> QED BY <1>7, <2>1, Zenon
<1>9. \A k \in 0 .. n : at[k] \in S
  <2>1. \A k \in 1 .. n : at[k - 1] \in S => at[k] = F[<<k, at[k - 1]>>]
    BY <1>3, <1>8
  <2>2. at[0] = <<>>
    BY <1>8
  <2> QED BY <1>1, <1>3, <2>1, <2>2, LoopStays
<1>10. at \in [0 .. n -> S]
  BY <1>7, <1>9
<1>11. SeenGo(text, at)
  BY <1>4, <1>8 DEF SeenGo, n
<1> QED BY <1>10, <1>11 DEF n, S

LEMMA SeenIs == ASSUME NEW t \in Seq(Word) PROVE Seen(t) \in Seq(Word) /\ Seen(<<>>) = <<>>
<1>1. PICK at \in [0 .. Len(t) -> Seq(Word)] : SeenGo(t, at)
  BY SeenGoes
<1>2. Len(t) \in 0 .. Len(t)
  OBVIOUS
<1>3. PICK g \in [0 .. Len(<<>>) -> Seq(Word)] : SeenGo(<<>>, g)
  <2>1. <<>> \in Seq(Word)
    OBVIOUS
  <2> QED BY <2>1, SeenGoes
<1>4. Len(<<>>) = 0
  OBVIOUS
<1> QED BY <1>1, <1>2, <1>3, <1>4 DEF SeenGo

(* An entity of a text is one of either of its parts, if the first leaves no *)
(* ampersand open.                                                           *)
LEMMA EntityIn ==
  ASSUME NEW s \in Closed, NEW t \in Seq(Word)
  PROVE  LET u == s \o t IN
         /\ \A k \in 1 .. Len(s) : EntityAt(u, k) <=> EntityAt(s, k)
         /\ \A k \in 1 .. Len(t) : EntityAt(u, Len(s) + k) <=> EntityAt(t, k)
<1> DEFINE m == Len(s)
           n == Len(t)
           u == s \o t
<1>1. /\ s \in Seq(Word) /\ m \in Nat /\ n \in Nat /\ u \in Seq(Word) /\ Len(u) = m + n
      /\ \A k \in 1 .. m : u[k] = s[k]
      /\ \A k \in 1 .. n : u[m + k] = t[k]
  BY DEF Closed
<1>2. \A k \in 1 .. m : s[k] = "&" => EntityAt(s, k)
  BY DEF Closed, HasBareAmpersand
<1> HIDE DEF u, m, n
<1>3. ASSUME NEW k \in 1 .. m PROVE EntityAt(u, k) <=> EntityAt(s, k)
  <2>1. EntityAt(u, k) => s[k] = "&"
    BY <1>1 DEF EntityAt
  <2>2. EntityAt(s, k) => k + 2 <= m
    BY DEF EntityAt, m
  <2>3. k + 2 <= m => u[k] = s[k] /\ u[k + 1] = s[k + 1] /\ u[k + 2] = s[k + 2] /\ k + 2 <= Len(u)
    BY <1>1
  <2> QED BY <1>2, <2>1, <2>2, <2>3 DEF EntityAt
<1>4. ASSUME NEW k \in 1 .. n PROVE EntityAt(u, m + k) <=> EntityAt(t, k)
  <2>1. (m + k) + 2 <= Len(u) <=> k + 2 <= n
    BY <1>1
  <2>2. u[m + k] = t[k]
    BY <1>1
  <2>3. k + 2 <= n => u[(m + k) + 1] = t[k + 1] /\ u[(m + k) + 2] = t[k + 2]
    <3>1. k + 2 <= n => k + 1 \in 1 .. n /\ k + 2 \in 1 .. n /\ (m + k) + 1 = m + (k + 1) /\ (m + k) + 2 = m + (k + 2)
      BY <1>1
    <3> QED BY <1>1, <3>1
  <2> QED BY <2>1, <2>2, <2>3 DEF EntityAt, n
<1> QED BY <1>3, <1>4 DEF u, m, n

(* Sequences, for their elements' sake.                                      *)
LEMMA JoinIs ==
  ASSUME NEW s \in Seq(Word), NEW w \in Seq(Word)
  PROVE  /\ s \o w \in Seq(Word) /\ Len(s \o w) = Len(s) + Len(w)
         /\ \A k \in 1 .. Len(s) : (s \o w)[k] = s[k]
         /\ \A k \in 1 .. Len(w) : (s \o w)[Len(s) + k] = w[k]
OBVIOUS

LEMMA SameSeq ==
  ASSUME NEW s \in Seq(Word), NEW t \in Seq(Word), Len(s) = Len(t), \A k \in 1 .. Len(s) : s[k] = t[k]
  PROVE  s = t
OBVIOUS

LEMMA JoinedMore ==
  ASSUME NEW a \in Seq(Word), NEW q \in Seq(Word), NEW c \in Word
  PROVE  Append(a \o q, c) = a \o Append(q, c)
OBVIOUS

LEMMA SeenJoined ==
  ASSUME NEW s \in Closed, NEW t \in Seq(Word) PROVE Seen(s \o t) = Seen(s) \o Seen(t)
<1> DEFINE m == Len(s)
           n == Len(t)
           u == s \o t
<1>1. /\ m = Len(s) /\ n = Len(t) /\ s \in Seq(Word) /\ m \in Nat /\ n \in Nat /\ u \in Seq(Word) /\ Len(u) = m + n
      /\ \A k \in 1 .. m : u[k] = s[k]
      /\ \A k \in 1 .. n : u[m + k] = t[k]
  BY DEF Closed
<1>2. /\ \A k \in 1 .. m : EntityAt(u, k) <=> EntityAt(s, k)
      /\ \A k \in 1 .. n : EntityAt(u, m + k) <=> EntityAt(t, k)
  BY EntityIn
<1> HIDE DEF u, m, n
<1>3. \A k \in 1 .. m : Inside(u, k) <=> Inside(s, k)
  <2> SUFFICES ASSUME NEW k \in 1 .. m PROVE Inside(u, k) <=> Inside(s, k)
    OBVIOUS
  <2>1. \A j \in {k - 1, k - 2} : j > 0 => j \in 1 .. m
    BY <1>1
  <2> QED BY <1>2, <2>1 DEF Inside
<1>4. \A k \in 1 .. n : Inside(u, m + k) <=> Inside(t, k)
  <2> SUFFICES ASSUME NEW k \in 1 .. n PROVE Inside(u, m + k) <=> Inside(t, k)
    OBVIOUS
  <2>1. ASSUME NEW d \in {1, 2}
        PROVE  ((m + k) - d > 0 /\ EntityAt(u, (m + k) - d)) <=> (k - d > 0 /\ EntityAt(t, k - d))
    <3>1. CASE k - d > 0
      <4>1. k - d \in 1 .. n /\ (m + k) - d = m + (k - d) /\ (m + k) - d > 0
        BY <1>1, <3>1
      <4> QED BY <1>2, <4>1, <3>1
    <3>2. CASE ~(k - d > 0) /\ (m + k) - d > 0
      <4> DEFINE j == (m + k) - d
      <4>1. j \in 1 .. m /\ j + 2 > m
        BY <1>1, <3>2
      <4>2. ~EntityAt(s, j)
        BY <1>1, <4>1 DEF EntityAt
      <4> QED BY <1>2, <3>2, <4>1, <4>2
    <3> QED BY <1>1, <3>1, <3>2
  <2>2. /\ Inside(u, m + k) <=> \E d \in {1, 2} : (m + k) - d > 0 /\ EntityAt(u, (m + k) - d)
        /\ Inside(t, k) <=> \E d \in {1, 2} : k - d > 0 /\ EntityAt(t, k - d)
    BY DEF Inside
  <2> QED BY <2>1, <2>2
<1>5. PICK f \in [0 .. m -> Seq(Word)] : SeenGo(s, f)
  BY <1>1, SeenGoes
<1>6. PICK g \in [0 .. n -> Seq(Word)] : SeenGo(t, g)
  BY <1>1, SeenGoes
<1>7. PICK h \in [0 .. m + n -> Seq(Word)] : SeenGo(u, h)
  BY <1>1, SeenGoes
<1> DEFINE So == {k \in 0 .. m : h[k] = f[k]}
           Then == {k \in 0 .. n : h[m + k] = f[m] \o g[k]}
<1>8. 0 \in So
  BY <1>1, <1>5, <1>7 DEF SeenGo
<1>9. ASSUME NEW k \in 1 .. m, k - 1 \in So PROVE k \in So
  <2>1. /\ k \in 1 .. Len(s) /\ k \in 1 .. Len(u) /\ k \in 0 .. m /\ h[k - 1] = f[k - 1] /\ f[k - 1] \in Seq(Word)
        /\ u[k] = s[k]
    <3>1. k \in 1 .. m + n /\ k \in 0 .. m /\ k - 1 \in 0 .. m
      BY <1>1
    <3> QED BY <1>1, <1>9, <3>1
  <2> DEFINE q == f[k - 1]
  <2>2. f[k] = SeenBy(q, s, k) /\ h[k] = SeenBy(q, u, k)
    BY <1>1, <1>5, <1>7, <2>1 DEF SeenGo
  <2>3. EntityAt(s, k) => u[k + 1] = s[k + 1]
    <3>1. EntityAt(s, k) => k + 1 \in 1 .. m
      BY <1>1 DEF EntityAt
    <3> QED BY <1>1, <3>1
  <2>4. (EntityAt(u, k) <=> EntityAt(s, k)) /\ (Inside(u, k) <=> Inside(s, k))
    BY <1>2, <1>3
  <2>5. q \in Seq(Word)
    BY <2>1
  <2> HIDE DEF q
  <2>6. SeenBy(q, s, k) = SeenBy(q, u, k)
    <3>1. CASE EntityAt(s, k)
      <4>1. SeenBy(q, s, k) = Append(q, CharNamed(s[k + 1]))
        BY <1>1, <2>1, <2>5, <3>1, SeenByIs
      <4>2. SeenBy(q, u, k) = Append(q, CharNamed(u[k + 1]))
        BY <1>1, <2>1, <2>4, <2>5, <3>1, SeenByIs
      <4> QED BY <2>3, <3>1, <4>1, <4>2
    <3>2. CASE ~EntityAt(s, k) /\ Inside(s, k)
      BY <1>1, <2>1, <2>4, <2>5, <3>2, SeenByIs
    <3>3. CASE ~EntityAt(s, k) /\ ~Inside(s, k)
      <4>1. SeenBy(q, s, k) = Append(q, Sign(s[k]))
        BY <1>1, <2>1, <2>5, <3>3, SeenByIs
      <4>2. SeenBy(q, u, k) = Append(q, Sign(u[k]))
        BY <1>1, <2>1, <2>4, <2>5, <3>3, SeenByIs
      <4> QED BY <2>1, <4>1, <4>2
    <3> QED BY <3>1, <3>2, <3>3
  <2> QED BY <2>1, <2>2, <2>6
<1> HIDE DEF So
<1>10. \A k \in 0 .. m : k \in So
  BY <1>1, <1>8, <1>9, UpTo
<1>11. h[m] = f[m] /\ f[m] \in Seq(Word)
  BY <1>1, <1>10 DEF So
<1>12. 0 \in Then
  <2>1. g[0] = <<>> /\ f[m] \o <<>> = f[m] /\ 0 \in 0 .. n /\ m + 0 = m
    BY <1>1, <1>6, <1>11 DEF SeenGo
  <2> QED BY <1>11, <2>1
<1>13. ASSUME NEW k \in 1 .. n, k - 1 \in Then PROVE k \in Then
  <2> DEFINE q == g[k - 1]
             a == f[m]
             j == m + k
  <2>1. /\ k \in 1 .. Len(t) /\ j \in 1 .. Len(u) /\ k \in 0 .. n /\ q \in Seq(Word) /\ j - 1 = m + (k - 1)
        /\ u[j] = t[k] /\ h[j - 1] = a \o q
    <3>1. j \in 1 .. m + n /\ k \in 0 .. n /\ k - 1 \in 0 .. n /\ j - 1 = m + (k - 1)
      BY <1>1
    <3> QED BY <1>1, <1>13, <3>1
  <2>2. g[k] = SeenBy(q, t, k) /\ h[j] = SeenBy(a \o q, u, j)
    BY <1>1, <1>6, <1>7, <2>1 DEF SeenGo
  <2>3. EntityAt(t, k) => u[j + 1] = t[k + 1]
    <3>1. EntityAt(t, k) => k + 1 \in 1 .. n /\ j + 1 = m + (k + 1)
      BY <1>1 DEF EntityAt
    <3> QED BY <1>1, <3>1
  <2>4. (EntityAt(u, j) <=> EntityAt(t, k)) /\ (Inside(u, j) <=> Inside(t, k))
    BY <1>2, <1>4
  <2>5. a \in Seq(Word) /\ a \o q \in Seq(Word)
    BY <1>11, <2>1
  <2>6. ASSUME NEW c \in Word PROVE Append(a \o q, c) = a \o Append(q, c)
    <3>1. q \in Seq(Word) /\ a \in Seq(Word)
      BY <2>1, <2>5
    <3> HIDE DEF q, a
    <3> QED BY <3>1, JoinedMore
  <2> HIDE DEF q, a, j
  <2>7. SeenBy(a \o q, u, j) = a \o SeenBy(q, t, k)
    <3>1. CASE EntityAt(t, k)
      <4>1. CharNamed(t[k + 1]) \in Word
        BY <3>1, CharsAre, Letters DEF EntityAt
      <4>2. SeenBy(a \o q, u, j) = Append(a \o q, CharNamed(u[j + 1])) /\ SeenBy(q, t, k) = Append(q, CharNamed(t[k + 1]))
        BY <1>1, <2>1, <2>4, <2>5, <3>1, SeenByIs
      <4> QED BY <2>3, <2>6, <3>1, <4>1, <4>2
    <3>2. CASE ~EntityAt(t, k) /\ Inside(t, k)
      BY <1>1, <2>1, <2>4, <2>5, <3>2, SeenByIs
    <3>3. CASE ~EntityAt(t, k) /\ ~Inside(t, k)
      <4>1. SeenBy(a \o q, u, j) = Append(a \o q, Sign(u[j])) /\ SeenBy(q, t, k) = Append(q, Sign(t[k]))
        BY <1>1, <2>1, <2>4, <2>5, <3>3, SeenByIs
      <4>2. Sign(t[k]) \in Word
        BY <2>1, CharsAre
      <4> QED BY <2>1, <2>6, <4>1, <4>2
    <3> QED BY <3>1, <3>2, <3>3
  <2> QED BY <2>1, <2>2, <2>7 DEF a, j
<1> HIDE DEF Then
<1>14. \A k \in 0 .. n : k \in Then
  BY <1>1, <1>12, <1>13, UpTo
<1>15. h[m + n] = f[m] \o g[n]
  <2>1. n \in Then
    BY <1>1, <1>14
  <2> QED BY <2>1 DEF Then
<1> QED BY <1>1, <1>5, <1>6, <1>7, <1>15 DEF SeenGo, u

(* A text without an open ampersand is made of characters and entities.      *)
Tokens == {<<c>> : c \in Word \ {"&"}} \cup {<<"&", m, "semicolon">> : m \in EntityNames}

LEMMA ClosedHas ==
  /\ <<>> \in Closed /\ Closed \subseteq Seq(Word) /\ Tokens \subseteq Closed
  /\ \A s \in Closed : \A i \in 1 .. Len(s) : s[i] = "&" => EntityAt(s, i)
<1>1. <<>> \in Closed
  BY DEF Closed, HasBareAmpersand
<1>2. ASSUME NEW c \in Word \ {"&"} PROVE <<c>> \in Closed
  <2>1. <<c>> \in Seq(Word) /\ DOMAIN <<c>> = {1} /\ <<c>>[1] = c
    OBVIOUS
  <2> QED BY <2>1 DEF Closed, HasBareAmpersand
<1>3. ASSUME NEW m \in EntityNames PROVE <<"&", m, "semicolon">> \in Closed
  <2> DEFINE w == <<"&", m, "semicolon">>
  <2>1. m \in Word /\ m # "&" /\ "&" \in Word /\ "semicolon" \in Word
    BY CharsAre, Letters
  <2>2. w \in Seq(Word) /\ Len(w) = 3 /\ DOMAIN w = 1 .. 3 /\ w[1] = "&" /\ w[2] = m /\ w[3] = "semicolon"
    BY <2>1
  <2> HIDE DEF w
  <2>3. EntityAt(w, 1)
    BY <2>2 DEF EntityAt
  <2>4. \A i \in 1 .. 3 : w[i] = "&" => i = 1
    BY <2>1, <2>2
  <2> QED BY <2>2, <2>3, <2>4 DEF Closed, HasBareAmpersand, w
<1>4. Tokens \subseteq Closed
  BY <1>2, <1>3 DEF Tokens
<1>5. Closed \subseteq Seq(Word) /\ \A s \in Closed : \A i \in 1 .. Len(s) : s[i] = "&" => EntityAt(s, i)
  BY DEF Closed, HasBareAmpersand
<1> QED BY <1>1, <1>4, <1>5

LEMMA ClosedJoined == ASSUME NEW s \in Closed, NEW t \in Closed PROVE s \o t \in Closed
<1> DEFINE m == Len(s)
           n == Len(t)
           u == s \o t
<1>1. /\ m = Len(s) /\ n = Len(t) /\ m \in Nat /\ n \in Nat /\ u \in Seq(Word) /\ Len(u) = m + n
      /\ t \in Seq(Word) /\ \A k \in 1 .. m : u[k] = s[k]
      /\ \A k \in 1 .. n : u[m + k] = t[k]
  BY DEF Closed
<1>2. /\ \A k \in 1 .. m : EntityAt(u, k) <=> EntityAt(s, k)
      /\ \A k \in 1 .. n : EntityAt(u, m + k) <=> EntityAt(t, k)
  BY <1>1, EntityIn
<1> HIDE DEF u, m, n
<1>3. ASSUME NEW i \in DOMAIN u, u[i] = "&" PROVE EntityAt(u, i)
  <2>1. i \in 1 .. m + n
    BY <1>1
  <2>2. CASE i \in 1 .. m
    BY <1>1, <1>2, <1>3, <2>2, ClosedHas
  <2>3. CASE i \notin 1 .. m
    <3> DEFINE k == i - m
    <3>1. k \in 1 .. n /\ i = m + k
      BY <1>1, <2>1, <2>3
    <3> HIDE DEF k
    <3> QED BY <1>1, <1>2, <1>3, <3>1, ClosedHas
  <2> QED BY <2>2, <2>3
<1> QED BY <1>1, <1>3 DEF Closed, HasBareAmpersand, u

(* A part of a closed text is closed unless it cuts an entity.               *)
LEMMA PartClosed ==
  ASSUME NEW t \in Closed, NEW a \in 1 .. Len(t) + 1, NEW b \in 0 .. Len(t), a <= b + 1,
         \A i \in a .. b : EntityAt(t, i) => i + 2 <= b
  PROVE  SubSeq(t, a, b) \in Closed
<1> DEFINE s == SubSeq(t, a, b)
<1>1. t \in Seq(Word) /\ Len(t) \in Nat /\ a \in Nat /\ b \in Nat
  BY ClosedHas
<1>2. s \in Seq(Word) /\ Len(s) = b - a + 1 /\ \A k \in 1 .. b - a + 1 : s[k] = t[a + k - 1]
  BY <1>1
<1> HIDE DEF s
<1>3. ASSUME NEW k \in DOMAIN s, s[k] = "&" PROVE EntityAt(s, k)
  <2> DEFINE i == a + k - 1
  <2>1. k \in 1 .. b - a + 1
    BY <1>1, <1>2
  <2>2. i \in a .. b /\ i \in 1 .. Len(t) /\ t[i] = "&"
    BY <1>1, <1>2, <1>3, <2>1
  <2>3. EntityAt(t, i)
    BY <2>2, ClosedHas
  <2>4. i + 2 <= b
    BY <2>2, <2>3
  <2> HIDE DEF i
  <2>5. k + 1 \in 1 .. b - a + 1 /\ k + 2 \in 1 .. b - a + 1 /\ a + (k + 1) - 1 = i + 1 /\ a + (k + 2) - 1 = i + 2
    BY <1>1, <2>1, <2>4 DEF i
  <2>6. s[k] = t[i] /\ s[k + 1] = t[i + 1] /\ s[k + 2] = t[i + 2]
    <3> DEFINE r == b - a + 1
               Spot(e) == a + e - 1
    <3>1. \A e \in 1 .. r : s[e] = t[Spot(e)]
      BY <1>2
    <3>2. k \in 1 .. r /\ k + 1 \in 1 .. r /\ k + 2 \in 1 .. r /\ Spot(k) = i /\ Spot(k + 1) = i + 1 /\ Spot(k + 2) = i + 2
      BY <2>1, <2>5 DEF i
    <3> HIDE DEF Spot, r
    <3> QED BY <3>1, <3>2
  <2>7. k + 2 <= Len(s)
    BY <1>1, <1>2, <2>5
  <2> QED BY <1>3, <2>3, <2>6, <2>7 DEF EntityAt
<1> QED BY <1>2, <1>3 DEF Closed, HasBareAmpersand, s

LEMMA ClosedEnds ==
  ASSUME NEW t \in Closed, t # <<>>
  PROVE  \E s \in Closed : \E w \in Tokens : t = s \o w /\ Len(s) < Len(t)
<1> DEFINE n == Len(t)
<1>1. t \in Seq(Word) /\ n = Len(t) /\ n \in Nat /\ n >= 1 /\ t[n] \in Word
  BY ClosedHas
<1> HIDE DEF n
<1>2. CASE n >= 3 /\ EntityAt(t, n - 2)
  <2> DEFINE s == SubSeq(t, 1, n - 3)
             w == <<"&", t[n - 1], "semicolon">>
  <2>1. t[n - 2] = "&" /\ t[n - 1] \in EntityNames /\ t[n] = "semicolon"
    <3>1. (n - 2) + 1 = n - 1 /\ (n - 2) + 2 = n
      BY <1>1
    <3> QED BY <1>2, <3>1 DEF EntityAt
  <2>2. w \in Tokens
    BY <2>1 DEF Tokens
  <2>3. ASSUME NEW i \in 1 .. n - 3, EntityAt(t, i) PROVE i + 2 <= n - 3
    <3>1. t[i] = "&" /\ t[i + 1] \in EntityNames /\ t[i + 2] = "semicolon"
      BY <2>3 DEF EntityAt
    <3>2. i + 1 # n - 2 /\ i + 2 # n - 2
      BY <2>1, <3>1, CharsAre
    <3> QED BY <1>1, <1>2, <3>2
  <2>4. s \in Closed
    <3>1. 1 \in 1 .. n + 1 /\ n - 3 \in 0 .. n /\ 1 <= (n - 3) + 1
      BY <1>1, <1>2
    <3> QED BY <1>1, <2>3, <3>1, PartClosed
  <2>5. t = s \o w /\ Len(s) < n
    <3>1. s \in Seq(Word) /\ Len(s) = n - 3 /\ \A k \in 1 .. n - 3 : s[k] = t[k]
      BY <1>1, <1>2
    <3>2. w \in Seq(Word) /\ Len(w) = 3 /\ w[1] = t[n - 2] /\ w[2] = t[n - 1] /\ w[3] = t[n]
      BY <2>1, CharsAre, Letters
    <3> HIDE DEF s, w
    <3> DEFINE u == s \o w
    <3>3. /\ u \in Seq(Word) /\ Len(u) = Len(s) + Len(w) /\ \A k \in 1 .. Len(s) : u[k] = s[k]
          /\ \A k \in 1 .. Len(w) : u[Len(s) + k] = w[k]
      BY <3>1, <3>2, JoinIs
    <3> HIDE DEF u
    <3>4. Len(u) = n /\ u[(n - 3) + 1] = w[1] /\ u[(n - 3) + 2] = w[2] /\ u[(n - 3) + 3] = w[3]
      <4>1. 1 \in 1 .. Len(w) /\ 2 \in 1 .. Len(w) /\ 3 \in 1 .. Len(w)
        BY <3>2
      <4>2. Len(u) = n
        BY <1>1, <3>1, <3>2, <3>3
      <4> QED BY <3>1, <3>3, <4>1, <4>2
    <3>5. ASSUME NEW k \in 1 .. n PROVE u[k] = t[k]
      <4>1. k \in 1 .. n - 3 \/ k = n - 2 \/ k = n - 1 \/ k = n
        BY <1>1
      <4>2. (n - 3) + 1 = n - 2 /\ (n - 3) + 2 = n - 1 /\ (n - 3) + 3 = n
        BY <1>1
      <4> QED BY <3>1, <3>2, <3>3, <3>4, <4>1, <4>2
    <3>6. t = u
      BY <1>1, <3>3, <3>4, <3>5, SameSeq
    <3> QED BY <1>1, <1>2, <3>1, <3>6 DEF u
  <2> QED BY <1>1, <2>2, <2>4, <2>5
<1>3. CASE ~(n >= 3 /\ EntityAt(t, n - 2))
  <2> DEFINE s == SubSeq(t, 1, n - 1)
             w == <<t[n]>>
  <2>1. t[n] # "&"
    <3>1. t[n] = "&" => EntityAt(t, n)
      BY <1>1, ClosedHas
    <3> QED BY <1>1, <3>1 DEF EntityAt
  <2>2. w \in Tokens
    BY <1>1, <2>1 DEF Tokens
  <2>3. ASSUME NEW i \in 1 .. n - 1, EntityAt(t, i) PROVE i + 2 <= n - 1
    <3>1. i + 2 <= n
      BY <1>1, <2>3 DEF EntityAt
    <3>2. i + 2 # n
      <4>1. i + 2 = n => i = n - 2 /\ n >= 3
        BY <1>1
      <4> QED BY <1>3, <2>3, <4>1
    <3> QED BY <1>1, <3>1, <3>2
  <2>4. s \in Closed
    <3>1. 1 \in 1 .. n + 1 /\ n - 1 \in 0 .. n /\ 1 <= (n - 1) + 1
      BY <1>1
    <3> QED BY <1>1, <2>3, <3>1, PartClosed
  <2>5. t = s \o w /\ Len(s) < n
    <3>1. s \in Seq(Word) /\ Len(s) = n - 1 /\ \A k \in 1 .. n - 1 : s[k] = t[k]
      BY <1>1
    <3> HIDE DEF s
    <3>2. w \in Seq(Word) /\ Len(w) = 1 /\ w[1] = t[n]
      BY <1>1
    <3> HIDE DEF w
    <3> DEFINE u == s \o w
    <3>3. /\ u \in Seq(Word) /\ Len(u) = Len(s) + Len(w) /\ \A k \in 1 .. Len(s) : u[k] = s[k]
          /\ \A k \in 1 .. Len(w) : u[Len(s) + k] = w[k]
      BY <3>1, <3>2, JoinIs
    <3> HIDE DEF u
    <3>4. Len(u) = n /\ u[(n - 1) + 1] = w[1]
      <4>1. 1 \in 1 .. Len(w)
        BY <3>2
      <4>2. Len(u) = n
        BY <1>1, <3>1, <3>2, <3>3
      <4> QED BY <3>1, <3>3, <4>1, <4>2
    <3>5. ASSUME NEW k \in 1 .. n PROVE u[k] = t[k]
      <4>1. k \in 1 .. n - 1 \/ k = n
        BY <1>1
      <4>2. (n - 1) + 1 = n
        BY <1>1
      <4> QED BY <3>1, <3>2, <3>3, <3>4, <4>1, <4>2
    <3>6. t = u
      BY <1>1, <3>3, <3>4, <3>5, SameSeq
    <3> QED BY <1>1, <3>1, <3>6 DEF u
  <2> QED BY <1>1, <2>2, <2>4, <2>5
<1> QED BY <1>2, <1>3

(* Induction over the parts of a text, for a set.                            *)
LEMMA ClosedInduct ==
  ASSUME NEW S, <<>> \in S, \A s \in Closed : s \in S => \A w \in Tokens : s \o w \in S
  PROVE  Closed \subseteq S
<1> DEFINE L == {n \in Nat : \A t \in Closed : Len(t) <= n => t \in S}
<1>1. 0 \in L
  <2>1. \A t \in Closed : Len(t) <= 0 => t = <<>>
    <3>1. \A t \in Seq(Word) : Len(t) <= 0 => t = <<>>
      OBVIOUS
    <3> QED BY <3>1, ClosedHas
  <2> QED BY <2>1
<1>2. ASSUME NEW n \in Nat, n \in L PROVE n + 1 \in L
  <2>1. ASSUME NEW t \in Closed, Len(t) <= n + 1 PROVE t \in S
    <3>1. CASE t = <<>>
      BY <3>1
    <3>2. CASE t # <<>>
      <4>1. PICK s \in Closed, w \in Tokens : t = s \o w /\ Len(s) < Len(t)
        BY <3>2, ClosedEnds
      <4>2. Len(s) \in Nat /\ Len(t) \in Nat
        BY ClosedHas
      <4>3. Len(s) <= n
        BY <2>1, <4>1, <4>2
      <4> QED BY <1>2, <4>1, <4>3
    <3> QED BY <3>1, <3>2
  <2> QED BY <2>1
<1> HIDE DEF L
<1>3. ASSUME NEW t \in Closed PROVE t \in S
  <2> DEFINE n == Len(t)
  <2>1. n \in Nat
    BY ClosedHas
  <2> HIDE DEF n
  <2>2. \A k \in 1 .. n : k - 1 \in L => k \in L
    <3>1. ASSUME NEW k \in 1 .. n, k - 1 \in L PROVE k \in L
      <4>1. k - 1 \in Nat /\ (k - 1) + 1 = k
        OBVIOUS
      <4>2. (k - 1) + 1 \in L
        BY <1>2, <3>1, <4>1
      <4> QED BY <4>1, <4>2
    <3> QED BY <3>1
  <2>3. \A k \in 0 .. n : k \in L
    BY <1>1, <2>1, <2>2, UpTo
  <2>4. n \in L
    BY <2>1, <2>3
  <2> QED BY <2>1, <2>4 DEF L, n
<1> QED BY <1>3

LEMMA SeenOne == ASSUME NEW c \in Word PROVE Seen(<<c>>) = <<Sign(c)>>
<1> DEFINE t == <<c>>
<1>1. t \in Seq(Word) /\ Len(t) = 1 /\ t[1] = c
  OBVIOUS
<1> HIDE DEF t
<1>2. PICK at \in [0 .. Len(t) -> Seq(Word)] : SeenGo(t, at)
  BY <1>1, SeenGoes
<1>3. ~EntityAt(t, 1) /\ ~Inside(t, 1)
  BY <1>1 DEF EntityAt, Inside
<1>4. 1 \in 1 .. Len(t) /\ at[0] = <<>> /\ Seen(t) = at[1] /\ at[1] = SeenBy(at[1 - 1], t, 1) /\ <<>> \in Seq(Word)
  BY <1>1, <1>2 DEF SeenGo
<1>5. 1 - 1 = 0
  OBVIOUS
<1>6. SeenBy(<<>>, t, 1) = Append(<<>>, Sign(t[1]))
  BY <1>1, <1>3, <1>4, SeenByIs
<1> QED BY <1>1, <1>4, <1>5, <1>6 DEF t

LEMMA SeenEntity ==
  ASSUME NEW m \in EntityNames PROVE Seen(<<"&", m, "semicolon">>) = <<CharNamed(m)>>
<1> DEFINE t == <<"&", m, "semicolon">>
<1>1. t \in Seq(Word) /\ Len(t) = 3 /\ t[1] = "&" /\ t[2] = m /\ t[3] = "semicolon"
  BY CharsAre, Letters
<1> HIDE DEF t
<1>2. PICK at \in [0 .. Len(t) -> Seq(Word)] : SeenGo(t, at)
  BY <1>1, SeenGoes
<1>3. EntityAt(t, 1) /\ ~EntityAt(t, 2) /\ ~EntityAt(t, 3)
  BY <1>1 DEF EntityAt
<1>4. Inside(t, 2) /\ Inside(t, 3)
  BY <1>3 DEF Inside
<1>5. /\ 1 \in 1 .. Len(t) /\ 2 \in 1 .. Len(t) /\ 3 \in 1 .. Len(t) /\ at[0] = <<>> /\ Seen(t) = at[3]
      /\ at[1] = SeenBy(at[0], t, 1) /\ at[2] = SeenBy(at[1], t, 2) /\ at[3] = SeenBy(at[2], t, 3)
  <2>1. 1 - 1 = 0 /\ 2 - 1 = 1 /\ 3 - 1 = 2
    OBVIOUS
  <2> QED BY <1>1, <1>2, <2>1 DEF SeenGo
<1>6. at[0] \in Seq(Word) /\ at[1] \in Seq(Word) /\ at[2] \in Seq(Word)
  BY <1>1, <1>2
<1>7. at[1] = Append(<<>>, CharNamed(t[2]))
  <2>1. 1 + 1 = 2
    OBVIOUS
  <2>2. SeenBy(at[0], t, 1) = Append(at[0], CharNamed(t[1 + 1]))
    BY <1>1, <1>3, <1>5, <1>6, SeenByIs
  <2> QED BY <1>5, <2>1, <2>2
<1>8. at[2] = at[1] /\ at[3] = at[2]
  BY <1>1, <1>3, <1>4, <1>5, <1>6, SeenByIs
<1>9. Append(<<>>, CharNamed(m)) = <<CharNamed(m)>>
  OBVIOUS
<1> QED BY <1>1, <1>5, <1>7, <1>8, <1>9 DEF t

(* What is sent of a text is seen as it was written.                         *)
Clear == {t \in Closed : \A i \in 1 .. Len(t) : t[i] \notin Numeric \cup {"backn"}}

LEMMA ClearHas ==
  /\ Clear \subseteq Closed /\ Clear \subseteq Seq(Word) /\ <<>> \in Clear
  /\ \A t \in Clear : \A i \in 1 .. Len(t) : t[i] \notin Numeric \cup {"backn"}
<1>1. Len(<<>>) = 0
  OBVIOUS
<1>2. <<>> \in Clear
  BY <1>1, ClosedHas DEF Clear
<1> QED BY <1>2, ClosedHas DEF Clear

LEMMA ClearJoined ==
  ASSUME NEW s \in Closed, NEW t \in Closed
  PROVE  /\ s \in Clear /\ t \in Clear => s \o t \in Clear
         /\ s \o t \in Clear => s \in Clear /\ t \in Clear
<1> DEFINE u == s \o t
           m == Len(s)
           n == Len(t)
           Fine1(c) == c \notin Numeric \cup {"backn"}
<1>1. /\ m \in Nat /\ n \in Nat /\ u \in Seq(Word) /\ Len(u) = m + n
      /\ (\A k \in 1 .. m : u[k] = s[k]) /\ \A k \in 1 .. n : u[m + k] = t[k]
  <2>1. s \in Seq(Word) /\ t \in Seq(Word)
    BY ClosedHas
  <2> QED BY <2>1, JoinIs
<1>2. u \in Closed
  BY ClosedJoined
<1>3. /\ u \in Clear <=> \A k \in 1 .. Len(u) : Fine1(u[k])
      /\ s \in Clear <=> \A k \in 1 .. m : Fine1(s[k])
      /\ t \in Clear <=> \A k \in 1 .. n : Fine1(t[k])
  BY <1>2 DEF Clear
<1> HIDE DEF u, m, n, Fine1
<1>4. ASSUME s \in Clear, t \in Clear, NEW k \in 1 .. Len(u) PROVE Fine1(u[k])
  <2>1. CASE k \in 1 .. m
    BY <1>1, <1>3, <1>4, <2>1
  <2>2. CASE k \notin 1 .. m
    <3> DEFINE j == k - m
    <3>1. j \in 1 .. n /\ k = m + j
      BY <1>1, <2>2
    <3> HIDE DEF j
    <3> QED BY <1>1, <1>3, <1>4, <3>1
  <2> QED BY <2>1, <2>2
<1>5. ASSUME u \in Clear PROVE s \in Clear /\ t \in Clear
  <2>1. \A k \in 1 .. m : k \in 1 .. Len(u)
    BY <1>1
  <2>2. \A k \in 1 .. n : m + k \in 1 .. Len(u)
    BY <1>1
  <2> QED BY <1>1, <1>3, <1>5, <2>1, <2>2
<1> QED BY <1>3, <1>4, <1>5 DEF u

LEMMA BackIs ==
  ASSUME NEW t \in Seq(Word)
  PROVE  /\ Backslashed(t) \in Seq(Word) /\ Len(Backslashed(t)) = Len(t)
         /\ \A k \in 1 .. Len(t) : Backslashed(t)[k] = Plainly1(t[k])
<1> DEFINE b == Backslashed(t)
<1>1. b \in Seq(Word)
  BY BackslashedIs
<1>2. b = [i \in 1 .. Len(t) |-> Plainly1(t[i])]
  BY DEF Backslashed, Plainly1
<1> HIDE DEF b
<1>3. DOMAIN b = 1 .. Len(t) /\ Len(t) \in Nat
  BY <1>2
<1>4. Len(b) = Len(t)
  BY <1>1, <1>3
<1> QED BY <1>1, <1>2, <1>4 DEF b

LEMMA BackJoined ==
  ASSUME NEW s \in Seq(Word), NEW t \in Seq(Word) PROVE Backslashed(s \o t) = Backslashed(s) \o Backslashed(t)
<1> DEFINE u == s \o t
           a == Backslashed(s)
           b == Backslashed(t)
           c == Backslashed(u)
           d == a \o b
           m == Len(s)
           n == Len(t)
<1>1. /\ m \in Nat /\ n \in Nat /\ u \in Seq(Word) /\ Len(u) = m + n
      /\ (\A k \in 1 .. m : u[k] = s[k]) /\ \A k \in 1 .. n : u[m + k] = t[k]
  BY JoinIs
<1>2. /\ a \in Seq(Word) /\ Len(a) = m /\ b \in Seq(Word) /\ Len(b) = n
      /\ (\A k \in 1 .. m : a[k] = Plainly1(s[k])) /\ \A k \in 1 .. n : b[k] = Plainly1(t[k])
  BY BackIs
<1> HIDE DEF u
<1>3. c \in Seq(Word) /\ Len(c) = m + n /\ \A k \in 1 .. m + n : c[k] = Plainly1(u[k])
  BY <1>1, BackIs
<1> HIDE DEF a, b, c
<1>4. /\ d \in Seq(Word) /\ Len(d) = m + n
      /\ (\A k \in 1 .. m : d[k] = a[k]) /\ \A k \in 1 .. n : d[m + k] = b[k]
  <2> HIDE DEF m, n
  <2> QED BY <1>2, JoinIs
<1> HIDE DEF d, m, n
<1>5. ASSUME NEW k \in 1 .. m + n PROVE c[k] = d[k]
  <2>1. CASE k \in 1 .. m
    <3>1. c[k] = Plainly1(u[k])
      BY <1>3
    <3>2. u[k] = s[k] /\ d[k] = a[k] /\ a[k] = Plainly1(s[k])
      BY <1>1, <1>2, <1>4, <2>1
    <3> QED BY <3>1, <3>2
  <2>2. CASE k \notin 1 .. m
    <3> DEFINE j == k - m
    <3>1. j \in 1 .. n /\ k = m + j
      BY <1>1, <2>2
    <3> HIDE DEF j
    <3>2. c[k] = Plainly1(u[k])
      BY <1>3
    <3>3. u[m + j] = t[j] /\ d[m + j] = b[j] /\ b[j] = Plainly1(t[j])
      BY <1>1, <1>2, <1>4, <3>1
    <3> QED BY <3>1, <3>2, <3>3
  <2> QED BY <2>1, <2>2
<1>6. c = d
  BY <1>3, <1>4, <1>5, SameSeq
<1> QED BY <1>6 DEF a, b, c, d, u

LEMMA EntityHas ==
  ASSUME NEW m \in EntityNames
  PROVE  LET w == <<"&", m, "semicolon">> IN w \in Clear /\ w \in Tokens /\ Backslashed(w) = w
<1> DEFINE w == <<"&", m, "semicolon">>
<1>1. w \in Tokens /\ w \in Closed
  BY ClosedHas DEF Tokens
<1>2. m \in {"amp", "lt", "gt"}
  BY CharsAre
<1>3. Len(w) = 3 /\ w[1] = "&" /\ w[2] = m /\ w[3] = "semicolon"
  OBVIOUS
<1> HIDE DEF w
<1>4. \A i \in 1 .. 3 : w[i] \in {"&", "amp", "lt", "gt", "semicolon"}
  BY <1>2, <1>3
<1>5. \A c \in {"&", "amp", "lt", "gt", "semicolon"} : c \notin Numeric \cup {"backn"} /\ Plainly1(c) = c
  BY DEF Numeric, Plainly1
<1>6. w \in Clear
  BY <1>1, <1>3, <1>4, <1>5 DEF Clear
<1>7. w \in Seq(Word)
  BY <1>1, ClosedHas
<1>8. Backslashed(w) = w
  <2> DEFINE b == Backslashed(w)
  <2>1. b \in Seq(Word) /\ Len(b) = Len(w) /\ \A k \in 1 .. Len(w) : b[k] = Plainly1(w[k])
    BY <1>7, BackIs
  <2> HIDE DEF b
  <2>2. \A k \in 1 .. Len(b) : b[k] = w[k]
    BY <1>3, <1>4, <1>5, <2>1
  <2>3. b = w
    BY <1>7, <2>1, <2>2, SameSeq
  <2> QED BY <2>3 DEF b
<1> QED BY <1>1, <1>6, <1>8 DEF w

LEMMA CharsNamed == CharNamed("amp") = "&" /\ CharNamed("lt") = "<" /\ {"amp", "lt"} \subseteq EntityNames
<1>1. DOMAIN NameOf = {"&", "<", ">"} /\ NameOf["&"] = "amp" /\ NameOf["<"] = "lt" /\ NameOf[">"] = "gt"
  BY DEF NameOf
<1>2. {"amp", "lt"} \subseteq EntityNames
  BY <1>1 DEF EntityNames
<1>3. CharNamed("amp") = "&"
  <2>1. \A c \in DOMAIN NameOf : NameOf[c] = "amp" <=> c = "&"
    BY <1>1
  <2> QED BY <1>1, <2>1 DEF CharNamed
<1>4. CharNamed("lt") = "<"
  <2>1. \A c \in DOMAIN NameOf : NameOf[c] = "lt" <=> c = "<"
    BY <1>1
  <2> QED BY <1>1, <2>1 DEF CharNamed
<1> QED BY <1>2, <1>3, <1>4

LEMMA OneHas ==
  ASSUME NEW c \in Word
  PROVE  /\ Backslashed(<<c>>) = <<Plainly1(c)>>
         /\ c \notin Numeric \cup {"backn", "&"} => <<c>> \in Clear
         /\ <<c>> \in Clear => c \notin Numeric \cup {"backn"}
<1> DEFINE w == <<c>>
<1>1. w \in Seq(Word) /\ Len(w) = 1 /\ w[1] = c
  OBVIOUS
<1>2. c # "&" => w \in Closed
  BY ClosedHas DEF Tokens
<1> HIDE DEF w
<1>3. Backslashed(w) = <<Plainly1(c)>>
  <2> DEFINE b == Backslashed(w)
             d == <<Plainly1(c)>>
  <2>1. b \in Seq(Word) /\ Len(b) = 1 /\ \A k \in 1 .. 1 : b[k] = Plainly1(c)
    BY <1>1, BackIs
  <2>2. Plainly1(c) \in Word
    BY Letters DEF Plainly1
  <2>3. d \in Seq(Word) /\ Len(d) = 1 /\ d[1] = Plainly1(c)
    BY <2>2
  <2> HIDE DEF b, d
  <2>4. b = d
    BY <2>1, <2>3, SameSeq
  <2> QED BY <2>4 DEF b, d
<1> QED BY <1>1, <1>2, <1>3 DEF Clear, w

(* A character or an entity, of a text with no entity open.                  *)
Shows(r, w, e) ==
  /\ e \in Clear /\ RunFrom(r, w) = [state |-> "text", out |-> r.out \o e]
  /\ Seen(e) = Seen(Backslashed(w)) /\ (w \in Clear => e = w)

LEMMA EscapedShows ==
  ASSUME NEW x \in {"a", "&", "<", "nl", "quote"} PROVE Escaped(x) \in Clear /\ Seen(Escaped(x)) = <<x>>
<1>1. CASE x \in {"&", "<"}
  <2> DEFINE m == NameOf[x]
  <2>1. Escaped(x) = <<"&", m, "semicolon">> /\ m \in {"amp", "lt"} /\ CharNamed(m) = x /\ m \in EntityNames
    BY <1>1, CharsNamed DEF Escaped, NameOf
  <2> HIDE DEF m
  <2> QED BY <2>1, EntityHas, SeenEntity
<1>2. CASE x \in {"a", "nl", "quote"}
  <2>1. Escaped(x) = <<x>> /\ x \in Word /\ x \notin Numeric \cup {"backn", "&"} /\ Sign(x) = x
    BY <1>2, Letters DEF Escaped, NameOf, Numeric, Sign
  <2> HIDE DEF Escaped
  <2> QED BY <2>1, OneHas, SeenOne
<1> QED BY <1>1, <1>2

LEMMA TokenShows ==
  ASSUME NEW r \in RunT, r.state = "text", NEW w \in Tokens PROVE \E e : Shows(r, w, e)
<1>1. ASSUME NEW c \in Word \ {"&"}, w = <<c>> PROVE \E e : Shows(r, w, e)
  <2> DEFINE d == Plainly1(c)
  <2>1. d \in Word /\ d \notin {"backn", "&"} /\ (c # "backn" => d = c)
    BY <1>1, Letters DEF Plainly1
  <2>2. RunFrom(r, w) = ExpandedBy(r, d)
    BY <1>1, RunOne DEF RunBy
  <2>3. Backslashed(w) = <<d>> /\ (w \in Clear => d = c /\ d \notin Numeric)
    BY <1>1, <2>1, OneHas
  <2> HIDE DEF d
  <2>4. Seen(Backslashed(w)) = <<Sign(d)>>
    BY <2>1, <2>3, SeenOne
  <2>5. CASE d \in Numeric
    <3> DEFINE x == CharOf[d]
               e == Escaped(x)
    <3>1. x \in {"a", "&", "<", "nl", "quote"} /\ Sign(d) = x
      BY <2>5 DEF CharOf, Numeric, Sign
    <3>2. ExpandedBy(r, d) = [r EXCEPT !.out = r.out \o e]
      BY <2>5 DEF ExpandedBy
    <3> HIDE DEF x
    <3>3. e \in Clear /\ Seen(e) = <<x>>
      BY <3>1, EscapedShows
    <3> HIDE DEF e
    <3>4. ExpandedBy(r, d) = [state |-> "text", out |-> r.out \o e]
      BY <3>2 DEF RunT
    <3>5. Shows(r, w, e)
      BY <2>2, <2>3, <2>4, <2>5, <3>1, <3>3, <3>4 DEF Shows
    <3> QED BY <3>5
  <2>6. CASE d \notin Numeric
    <3> DEFINE e == <<d>>
    <3>1. ExpandedBy(r, d) = [state |-> "text", out |-> Append(r.out, d)]
      BY <2>1, <2>6 DEF ExpandedBy, RunT
    <3>2. Append(r.out, d) = r.out \o e
      BY <2>1 DEF RunT
    <3>3. e \in Clear /\ Seen(e) = Seen(Backslashed(w)) /\ (w \in Clear => e = w)
      BY <1>1, <2>1, <2>3, <2>6, OneHas
    <3>4. Shows(r, w, e)
      BY <2>2, <3>1, <3>2, <3>3 DEF Shows
    <3> QED BY <3>4
  <2> QED BY <2>5, <2>6
<1>2. ASSUME NEW m \in EntityNames, w = <<"&", m, "semicolon">> PROVE \E e : Shows(r, w, e)
  <2>1. m \in {"amp", "lt", "gt"} /\ "&" \in Word /\ m \in Word /\ "semicolon" \in Word
    BY CharsAre, Letters
  <2> DEFINE r1 == [state |-> "amp", out |-> Append(r.out, "&")]
             r2 == [state |-> "named", out |-> Append(Append(r.out, "&"), m)]
             r3 == [state |-> "text", out |-> Append(Append(Append(r.out, "&"), m), "semicolon")]
  <2>2. RunBy(r, "&") = r1
    BY DEF RunBy, ExpandedBy, Plainly1, Numeric
  <2>3. RunBy(r1, m) = r2
    BY <2>1 DEF RunBy, ExpandedBy, Plainly1, Numeric
  <2>4. RunBy(r2, "semicolon") = r3
    BY DEF RunBy, ExpandedBy, Plainly1, Numeric
  <2> HIDE DEF r1, r2, r3
  <2>5. RunFrom(r, w) = r3
    BY <1>2, <2>1, <2>2, <2>3, <2>4, RunThree
  <2>6. Append(Append(Append(r.out, "&"), m), "semicolon") = r.out \o w
    BY <1>2, <2>1 DEF RunT
  <2>7. w \in Clear /\ Backslashed(w) = w
    BY <1>2, EntityHas
  <2>8. Shows(r, w, w)
    BY <2>5, <2>6, <2>7 DEF Shows, r3
  <2> QED BY <2>8
<1> QED BY <1>1, <1>2 DEF Tokens

(* A text is seen as it was written, whatever entities it has.               *)
LEMMA ClosedRuns ==
  ASSUME NEW t \in Closed
  PROVE  /\ RunOf(t).out \in Clear /\ Seen(RunOf(t).out) = Seen(Backslashed(t)) /\ Backslashed(t) \in Closed
         /\ t \in Clear => RunOf(t).out = t
<1> DEFINE a == [state |-> "text", out |-> <<>>]
           Good(s) == /\ RunFrom(a, s) \in RunT /\ RunFrom(a, s).state = "text" /\ RunFrom(a, s).out \in Clear
                      /\ Seen(RunFrom(a, s).out) = Seen(Backslashed(s)) /\ Backslashed(s) \in Closed
                      /\ s \in Clear => RunFrom(a, s).out = s
           S == {s \in Closed : Good(s)}
<1>1. a \in RunT /\ a.state = "text" /\ a.out = <<>>
  BY DEF RunT
<1> HIDE DEF a
<1>2. <<>> \in S
  <2>1. RunFrom(a, <<>>) = a
    BY <1>1, RunNone
  <2>2. Backslashed(<<>>) = <<>>
    BY DEF Backslashed
  <2> QED BY <1>1, <2>1, <2>2, ClosedHas, ClearHas
<1>3. ASSUME NEW s \in Closed, s \in S, NEW w \in Tokens PROVE s \o w \in S
  <2> DEFINE r == RunFrom(a, s)
             b == Backslashed(s)
             u == s \o w
  <2>1. s \in Seq(Word) /\ w \in Closed /\ w \in Seq(Word) /\ u \in Closed
    BY ClosedHas, ClosedJoined
  <2>2. /\ r \in RunT /\ r.state = "text" /\ r.out \in Clear /\ Seen(r.out) = Seen(b) /\ b \in Closed
        /\ s \in Clear => r.out = s
    BY <1>3
  <2>3. RunFrom(a, u) = RunFrom(r, w)
    BY <1>1, <2>1, RunJoined
  <2>4. Backslashed(u) = b \o Backslashed(w)
    BY <2>1, BackJoined
  <2>5. Backslashed(w) \in Closed
    <3>1. ASSUME NEW c \in Word \ {"&"}, w = <<c>> PROVE Backslashed(w) \in Closed
      <4>1. Plainly1(c) \in Word \ {"&"}
        BY <3>1, Letters DEF Plainly1
      <4>2. <<Plainly1(c)>> \in Tokens
        BY <4>1 DEF Tokens
      <4> QED BY <3>1, <4>2, OneHas, ClosedHas
    <3>2. ASSUME NEW m \in EntityNames, w = <<"&", m, "semicolon">> PROVE Backslashed(w) \in Closed
      BY <2>1, <3>2, EntityHas
    <3> QED BY <3>1, <3>2 DEF Tokens
  <2>6. u \in Clear => s \in Clear /\ w \in Clear
    BY <2>1, ClearJoined
  <2> HIDE DEF r, b
  <2>7. PICK e : Shows(r, w, e)
    BY <2>2, TokenShows
  <2>8. e \in Clear /\ r.out \in Closed /\ e \in Closed /\ e \in Seq(Word) /\ r.out \in Seq(Word)
    BY <2>2, <2>7, ClearHas DEF Shows
  <2>9. r.out \o e \in Clear /\ Seen(r.out \o e) = Seen(r.out) \o Seen(e)
    BY <2>2, <2>8, ClearJoined, SeenJoined
  <2>10. Seen(b \o Backslashed(w)) = Seen(b) \o Seen(Backslashed(w)) /\ b \o Backslashed(w) \in Closed
    <3>1. Backslashed(w) \in Seq(Word)
      BY <2>5, ClosedHas
    <3> QED BY <2>2, <2>5, <3>1, SeenJoined, ClosedJoined
  <2> DEFINE q == [state |-> "text", out |-> r.out \o e]
  <2>11. RunFrom(a, u) = q
    BY <2>3, <2>7 DEF Shows
  <2>12. q \in RunT /\ q.state = "text" /\ q.out = r.out \o e
    BY <2>8 DEF RunT
  <2>13. u \in Clear => r.out \o e = u
    BY <2>2, <2>6, <2>7 DEF Shows
  <2>14. Seen(e) = Seen(Backslashed(w))
    BY <2>7 DEF Shows
  <2> HIDE DEF q, u
  <2>15. Good(u)
    BY <2>2, <2>4, <2>9, <2>10, <2>11, <2>12, <2>13, <2>14
  <2> HIDE DEF Good
  <2>16. u \in S
    BY <2>1, <2>15
  <2> QED BY <2>16 DEF u
<1> HIDE DEF S
<1>4. Closed \subseteq S
  BY <1>2, <1>3, ClosedInduct
<1>5. Good(t)
  BY <1>4 DEF S
<1> QED BY <1>5 DEF RunOf, a

(* The lines of a text as they are read, character by character.             *)
LinedAt(text) ==
  LET at[k \in 0 .. Len(text)] ==
        IF k = 0 THEN [done |-> <<>>, line |-> <<>>] ELSE LineBy(at[k - 1], text[k])
  IN at[Len(text)]
LinesGo(t, at) ==
  /\ at[0] = Unread /\ LinedAt(t) = at[Len(t)]
  /\ \A k \in 1 .. Len(t) : at[k] = LineBy(at[k - 1], t[k])

LEMMA LinedGoes == ASSUME NEW text \in Seq(Word) PROVE \E at \in [0 .. Len(text) -> Lined] : LinesGo(text, at)
<1> DEFINE n == Len(text)
           S == Lined
           F == [j \in (1 .. n) \X S |-> LineBy(j[2], text[j[1]])]
           Runs(g) == g = [k \in 0 .. n |-> IF k = 0 THEN Unread ELSE LineBy(g[k - 1], text[k])]
           at == CHOOSE g : Runs(g)
<1>1. n \in Nat /\ Unread \in S
  BY DEF Unread, Lined
<1>2. \A k \in 1 .. n : \A q \in S : LineBy(q, text[k]) \in S
  BY LineByIs
<1>3. F \in [(1 .. n) \X S -> S] /\ \A k \in 1 .. n : \A q \in S : F[<<k, q>>] = LineBy(q, text[k])
  <2> HIDE DEF n, S
  <2> QED BY <1>2
<1>4. LinedAt(text) = at[n]
  BY DEF LinedAt, Unread
<1> HIDE DEF n, F, S
<1>5. PICK f \in [0 .. n -> S] : Goes(f, n, Unread, F)
  BY <1>1, <1>3, LoopGoes
<1>6. Runs(f)
  <2>1. ASSUME NEW k \in 1 .. n PROVE f[k] = LineBy(f[k - 1], text[k])
    <3>1. k - 1 \in 0 .. n /\ f[k - 1] \in S
      BY <1>1
    <3> QED BY <1>3, <1>5, <3>1 DEF Goes
  <2>2. \A k \in 0 .. n : f[k] = IF k = 0 THEN Unread ELSE LineBy(f[k - 1], text[k])
    BY <1>1, <1>5, <2>1 DEF Goes
  <2> QED BY <1>5, <2>2
<1>7. Runs(at)
  BY <1>6
<1> HIDE DEF at
<1>8. at[0] = Unread /\ \A k \in 1 .. n : at[k] = LineBy(at[k - 1], text[k])
  <2>1. 0 \in 0 .. n /\ \A k \in 1 .. n : k \in 0 .. n /\ k # 0
    BY <1>1
  <2> QED BY <1>7, <2>1, Zenon
<1>9. \A k \in 0 .. n : at[k] \in S
  <2>1. \A k \in 1 .. n : at[k - 1] \in S => at[k] = F[<<k, at[k - 1]>>]
    BY <1>3, <1>8
  <2>2. at[0] = Unread
    BY <1>8
  <2> QED BY <1>1, <1>3, <2>1, <2>2, LoopStays
<1>10. at \in [0 .. n -> S]
  BY <1>7, <1>9
<1>11. LinesGo(text, at)
  BY <1>4, <1>8 DEF LinesGo, n
<1> QED BY <1>10, <1>11 DEF n, S

LEMMA LinedIs ==
  ASSUME NEW t \in Seq(Word)
  PROVE  LinedAt(t) \in Lined /\ LinedAt(<<>>) = Unread /\ Trimmed(t) = Joined(LinedAt(t))
<1>1. PICK at \in [0 .. Len(t) -> Lined] : LinesGo(t, at)
  BY LinedGoes
<1>2. Len(t) \in 0 .. Len(t)
  OBVIOUS
<1>3. PICK g \in [0 .. Len(<<>>) -> Lined] : LinesGo(<<>>, g)
  <2>1. <<>> \in Seq(Word)
    OBVIOUS
  <2> QED BY <2>1, LinedGoes
<1>4. Len(<<>>) = 0
  OBVIOUS
<1>5. Trimmed(t) = Joined(LinedAt(t))
  BY DEF Trimmed, LinedAt
<1> QED BY <1>1, <1>2, <1>3, <1>4, <1>5 DEF LinesGo

LEMMA LinedMore ==
  ASSUME NEW s \in Seq(Word), NEW c \in Word PROVE LinedAt(Append(s, c)) = LineBy(LinedAt(s), c)
<1> DEFINE u == Append(s, c)
           n == Len(s)
<1>1. n \in Nat /\ u \in Seq(Word) /\ Len(u) = n + 1 /\ u[n + 1] = c /\ \A k \in 1 .. n : u[k] = s[k]
  OBVIOUS
<1> HIDE DEF u
<1>2. PICK f \in [0 .. Len(s) -> Lined] : LinesGo(s, f)
  BY LinedGoes
<1>3. PICK g \in [0 .. Len(u) -> Lined] : LinesGo(u, g)
  BY <1>1, LinedGoes
<1> DEFINE So == {k \in 0 .. n : g[k] = f[k]}
<1>4. 0 \in So
  BY <1>1, <1>2, <1>3 DEF LinesGo
<1>5. ASSUME NEW k \in 1 .. n, k - 1 \in So PROVE k \in So
  <2>1. g[k - 1] = f[k - 1] /\ k \in 0 .. n /\ k \in 1 .. Len(u)
    BY <1>1, <1>5
  <2> QED BY <1>1, <1>2, <1>3, <2>1 DEF LinesGo
<1> HIDE DEF So
<1>6. \A k \in 0 .. n : k \in So
  BY <1>1, <1>4, <1>5, UpTo
<1>7. g[n] = f[n]
  BY <1>1, <1>6 DEF So
<1>8. n + 1 \in 1 .. Len(u) /\ (n + 1) - 1 = n
  BY <1>1
<1>9. g[n + 1] = LineBy(g[(n + 1) - 1], u[n + 1])
  BY <1>3, <1>8 DEF LinesGo
<1> QED BY <1>1, <1>2, <1>3, <1>7, <1>8, <1>9 DEF LinesGo, u

(* The ends of what is seen of a text.                                       *)
LEMMA SeenToken ==
  ASSUME NEW w \in Tokens
  PROVE  \E d \in Word : /\ Seen(w) = <<d>>
                         /\ (\E c \in Word \ {"&"} : w = <<c>> /\ d = Sign(c))
                            \/ (\E m \in EntityNames : w = <<"&", m, "semicolon">> /\ d \in {"&", "<", ">"})
<1>1. ASSUME NEW c \in Word \ {"&"}, w = <<c>> PROVE Seen(w) = <<Sign(c)>> /\ Sign(c) \in Word
  BY <1>1, SeenOne, CharsAre
<1>2. ASSUME NEW m \in EntityNames, w = <<"&", m, "semicolon">>
      PROVE  Seen(w) = <<CharNamed(m)>> /\ CharNamed(m) \in {"&", "<", ">"} /\ CharNamed(m) \in Word
  BY <1>2, SeenEntity, CharsAre
<1> QED BY <1>1, <1>2 DEF Tokens

Ends(t, d) == /\ t[1] # d => Seen(t)[1] # d
              /\ t[Len(t)] # d => Seen(t)[Len(Seen(t))] # d
LEMMA TokenEnds ==
  ASSUME NEW w \in Tokens, w \in Clear, NEW d \in {"blank", "nl"}
  PROVE  Seen(w) \in Seq(Word) /\ Len(Seen(w)) = 1 /\ Ends(w, d) /\ w \in Seq(Word) /\ w # <<>>
<1>1. PICK e \in Word :
        /\ Seen(w) = <<e>>
        /\ (\E c \in Word \ {"&"} : w = <<c>> /\ e = Sign(c))
           \/ (\E m \in EntityNames : w = <<"&", m, "semicolon">> /\ e \in {"&", "<", ">"})
  BY SeenToken
<1>2. <<e>> \in Seq(Word) /\ Len(<<e>>) = 1 /\ <<e>>[1] = e
  OBVIOUS
<1>3. CASE \E c \in Word \ {"&"} : w = <<c>> /\ e = Sign(c)
  <2>1. PICK c \in Word \ {"&"} : w = <<c>> /\ e = Sign(c)
    BY <1>3
  <2>2. e = c
    BY <2>1, OneHas DEF Sign
  <2>3. <<c>> \in Seq(Word) /\ Len(<<c>>) = 1 /\ <<c>>[1] = c /\ <<c>> # <<>>
    OBVIOUS
  <2> QED BY <1>1, <1>2, <2>1, <2>2, <2>3 DEF Ends
<1>4. CASE \E m \in EntityNames : w = <<"&", m, "semicolon">> /\ e \in {"&", "<", ">"}
  <2>1. PICK m \in EntityNames : w = <<"&", m, "semicolon">> /\ e \in {"&", "<", ">"}
    BY <1>4
  <2>2. w \in Seq(Word) /\ w # <<>>
    BY <2>1, CharsAre, Letters
  <2>3. e # d
    BY <2>1
  <2> QED BY <1>1, <1>2, <2>2, <2>3 DEF Ends
<1> QED BY <1>1, <1>3, <1>4

LEMMA SeenEnds ==
  ASSUME NEW t \in Clear, t # <<>>, NEW d \in {"blank", "nl"}
  PROVE  Seen(t) # <<>> /\ Ends(t, d)
<1> DEFINE Good(s) == s \in Clear /\ s # <<>> => Seen(s) # <<>> /\ Ends(s, d)
           S == {s \in Closed : Good(s)}
<1>1. <<>> \in S
  BY ClosedHas
<1>2. ASSUME NEW s \in Closed, s \in S, NEW w \in Tokens PROVE s \o w \in S
  <2> DEFINE u == s \o w
             p == Seen(s)
             q == Seen(w)
             v == p \o q
  <2>1. s \in Seq(Word) /\ w \in Closed /\ u \in Closed /\ p \in Seq(Word)
    BY ClosedHas, ClosedJoined, SeenIs
  <2>2. Good(s)
    BY <1>2
  <2> SUFFICES ASSUME u \in Clear PROVE Seen(u) # <<>> /\ Ends(u, d)
    BY <2>1
  <2>3. s \in Clear /\ w \in Clear
    BY <2>1, ClearJoined
  <2>4. q \in Seq(Word) /\ Len(q) = 1 /\ Ends(w, d) /\ w \in Seq(Word) /\ w # <<>>
    BY <2>3, TokenEnds
  <2>5. Seen(u) = v
    BY <2>4, SeenJoined
  <2> HIDE DEF p, q
  <2>6. /\ v \in Seq(Word) /\ Len(v) = Len(p) + Len(q) /\ (\A k \in 1 .. Len(p) : v[k] = p[k])
        /\ \A k \in 1 .. Len(q) : v[Len(p) + k] = q[k]
    BY <2>1, <2>4, JoinIs
  <2>7. /\ u \in Seq(Word) /\ Len(u) = Len(s) + Len(w) /\ (\A k \in 1 .. Len(s) : u[k] = s[k])
        /\ \A k \in 1 .. Len(w) : u[Len(s) + k] = w[k]
    BY <2>1, <2>4, JoinIs
  <2> HIDE DEF u, v
  <2>8. Len(w) \in Nat /\ Len(w) >= 1 /\ Len(s) \in Nat /\ Len(p) \in Nat
    BY <2>1, <2>4
  <2>9. Len(w) \in 1 .. Len(w) /\ 1 \in 1 .. Len(q)
    BY <2>4, <2>8
  <2>10. u[Len(u)] = w[Len(w)] /\ v[Len(v)] = q[1] /\ v # <<>>
    <3>1. u[Len(s) + Len(w)] = w[Len(w)] /\ v[Len(p) + 1] = q[1]
      BY <2>6, <2>7, <2>9
    <3> QED BY <2>4, <2>6, <2>7, <2>8, <3>1
  <2>11. w[1] # d => q[1] # d
    BY <2>4 DEF Ends, q
  <2>12. w[Len(w)] # d => q[1] # d
    BY <2>4 DEF Ends, q
  <2>13. CASE s = <<>>
    <3>1. p = <<>>
      BY <2>13, SeenIs, <2>1 DEF p
    <3>2. Len(s) = 0 /\ Len(p) = 0
      BY <2>13, <3>1
    <3>3. u[1] = w[1] /\ v[1] = q[1]
      <4>1. u[0 + 1] = w[1] /\ v[0 + 1] = q[1]
        <5>1. 1 \in 1 .. Len(w)
          BY <2>8
        <5> QED BY <2>6, <2>7, <2>9, <3>2, <5>1
      <4> QED BY <4>1
    <3> QED BY <2>5, <2>10, <2>11, <2>12, <3>3 DEF Ends
  <2>14. CASE s # <<>>
    <3>1. p # <<>> /\ (s[1] # d => p[1] # d)
      BY <2>2, <2>3, <2>14 DEF Ends, p
    <3>2. 1 \in 1 .. Len(s) /\ 1 \in 1 .. Len(p)
      BY <2>1, <2>14, <3>1
    <3>3. u[1] = s[1] /\ v[1] = p[1]
      BY <2>6, <2>7, <3>2
    <3> QED BY <2>5, <2>10, <2>12, <3>1, <3>3 DEF Ends
  <2> QED BY <2>13, <2>14
<1> HIDE DEF S
<1>3. Closed \subseteq S
  BY <1>1, <1>2, ClosedInduct
<1>4. t \in S
  BY <1>3, ClearHas
<1> QED BY <1>4 DEF S

(* A text between two runs of one character.                                 *)
Solely(t, d) == \A k \in 1 .. Len(t) : t[k] = d
Between(x, y, z, d) ==
  Solely(x, d) /\ Solely(z, d) /\ (y # <<>> => y[1] # d /\ y[Len(y)] # d)

LEMMA SolelySeen ==
  ASSUME NEW d \in {"blank", "nl"}, NEW t \in Seq(Word), Solely(t, d) PROVE t \in Clear /\ Seen(t) = t
<1> DEFINE S == {s \in Closed : Solely(s, d) => Seen(s) = s}
<1>0. d \in Word /\ d # "&" /\ d \notin Numeric \cup {"backn"} /\ Sign(d) = d
  BY CharsAre, Letters DEF Numeric, Sign
<1>1. <<>> \in S
  BY ClosedHas, SeenIs
<1>2. ASSUME NEW s \in Closed, s \in S, NEW w \in Tokens PROVE s \o w \in S
  <2> DEFINE u == s \o w
  <2>1. s \in Seq(Word) /\ w \in Closed /\ w \in Seq(Word) /\ u \in Closed
    BY ClosedHas, ClosedJoined
  <2>2. /\ u \in Seq(Word) /\ Len(u) = Len(s) + Len(w) /\ (\A k \in 1 .. Len(s) : u[k] = s[k])
        /\ \A k \in 1 .. Len(w) : u[Len(s) + k] = w[k]
    BY <2>1, JoinIs
  <2> SUFFICES ASSUME Solely(u, d) PROVE Seen(u) = u
    BY <2>1
  <2>3. Solely(s, d) /\ Solely(w, d)
    <3> HIDE DEF u
    <3>1. (\A k \in 1 .. Len(s) : k \in 1 .. Len(u)) /\ \A k \in 1 .. Len(w) : Len(s) + k \in 1 .. Len(u)
      BY <2>1, <2>2
    <3> QED BY <2>2, <3>1 DEF Solely
  <2>4. w = <<d>>
    <3>1. w[1] = d
      <4>1. 1 \in 1 .. Len(w)
        <5>1. \A c : <<c>> # <<>>
          OBVIOUS
        <5>2. \A m : <<"&", m, "semicolon">> # <<>>
          OBVIOUS
        <5>3. w # <<>>
          BY <5>1, <5>2 DEF Tokens
        <5> QED BY <2>1, <5>3
      <4> QED BY <2>3, <4>1 DEF Solely
    <3>2. ASSUME NEW c \in Word \ {"&"}, w = <<c>> PROVE w = <<d>>
      BY <3>1, <3>2
    <3>3. ASSUME NEW m \in EntityNames, w = <<"&", m, "semicolon">> PROVE w = <<d>>
      BY <1>0, <3>1, <3>3
    <3> QED BY <3>2, <3>3 DEF Tokens
  <2>5. Seen(w) = w
    BY <1>0, <2>4, SeenOne
  <2> QED BY <1>2, <2>1, <2>3, <2>5, SeenJoined
<1>3. t \in Clear
  BY <1>0 DEF Solely, Clear, Closed, HasBareAmpersand
<1> HIDE DEF S
<1>4. Closed \subseteq S
  BY <1>1, <1>2, ClosedInduct
<1>5. t \in S
  BY <1>3, <1>4, ClearHas
<1> QED BY <1>3, <1>5 DEF S

LEMMA ThreeIs ==
  ASSUME NEW x \in Seq(Word), NEW y \in Seq(Word), NEW z \in Seq(Word)
  PROVE  LET l == (x \o y) \o z IN
         /\ l \in Seq(Word) /\ Len(l) = Len(x) + Len(y) + Len(z)
         /\ Len(x) \in Nat /\ Len(y) \in Nat /\ Len(z) \in Nat
         /\ \A k \in 1 .. Len(x) : l[k] = x[k]
         /\ \A k \in 1 .. Len(y) : l[Len(x) + k] = y[k]
         /\ \A k \in 1 .. Len(z) : l[Len(x) + Len(y) + k] = z[k]
OBVIOUS

LEMMA PartIs ==
  ASSUME NEW l \in Seq(Word), NEW a \in 1 .. Len(l) + 1, NEW b \in 0 .. Len(l), a <= b + 1
  PROVE  /\ SubSeq(l, a, b) \in Seq(Word) /\ Len(SubSeq(l, a, b)) = b - a + 1
         /\ \A k \in 1 .. b - a + 1 : SubSeq(l, a, b)[k] = l[a + k - 1]
OBVIOUS

LEMMA StrippedOf ==
  ASSUME NEW x \in Seq(Word), NEW y \in Seq(Word), NEW z \in Seq(Word), Between(x, y, z, "blank")
  PROVE  Stripped((x \o y) \o z) = y
<1> DEFINE l == (x \o y) \o z
           p == Len(x)
           q == Len(y)
           r == Len(z)
           ink == {i \in DOMAIN l : l[i] # "blank"}
<1>1. /\ l \in Seq(Word) /\ Len(l) = p + q + r /\ p \in Nat /\ q \in Nat /\ r \in Nat
      /\ \A k \in 1 .. p : l[k] = x[k]
      /\ \A k \in 1 .. q : l[p + k] = y[k]
      /\ \A k \in 1 .. r : l[p + q + k] = z[k]
  BY ThreeIs
<1>2. /\ \A k \in 1 .. p : x[k] = "blank"
      /\ \A k \in 1 .. r : z[k] = "blank"
      /\ y # <<>> => y[1] # "blank" /\ y[q] # "blank"
  BY DEF Between, Solely
<1>a. Stripped(l) = IF ink = {} THEN <<>> ELSE SubSeq(l, Min(ink), Max(ink))
  BY DEF Stripped
<1>b. y = <<>> <=> q = 0
  OBVIOUS
<1> HIDE DEF l, p, q, r
<1>3. ink \subseteq (p + 1) .. (p + q)
  <2> SUFFICES ASSUME NEW i \in ink PROVE i \in (p + 1) .. (p + q)
    OBVIOUS
  <2>1. i \in 1 .. p + q + r /\ l[i] # "blank"
    BY <1>1
  <2>2. i \notin 1 .. p
    BY <1>1, <1>2, <2>1
  <2>3. ASSUME i > p + q PROVE FALSE
    <3> DEFINE j == i - (p + q)
    <3>1. j \in 1 .. r /\ i = p + q + j
      BY <1>1, <2>1, <2>3
    <3> HIDE DEF j
    <3> QED BY <1>1, <1>2, <2>1, <3>1
  <2> QED BY <1>1, <2>1, <2>2, <2>3
<1>4. CASE q = 0
  <2>1. ink = {}
    BY <1>1, <1>3, <1>4
  <2> QED BY <1>a, <1>b, <1>4, <2>1 DEF l
<1>5. CASE q # 0
  <2> DEFINE a == p + 1
             b == p + q
  <2>1. 1 \in 1 .. q /\ q \in 1 .. q
    BY <1>1, <1>5
  <2>2. l[p + 1] = y[1] /\ l[p + q] = y[q]
    BY <1>1, <2>1
  <2>3. a \in ink /\ b \in ink
    <3>1. a \in 1 .. Len(l) /\ b \in 1 .. Len(l)
      BY <1>1, <1>5
    <3>2. DOMAIN l = 1 .. Len(l)
      BY <1>1
    <3> QED BY <1>b, <1>2, <1>5, <2>2, <3>1, <3>2
  <2> HIDE DEF ink
  <2>4. Min(ink) = a
    <3>1. ink \subseteq Nat /\ ink # {}
      BY <1>1, <1>3, <2>3
    <3>2. Min(ink) \in ink /\ Min(ink) <= a
      BY <2>3, <3>1, LeastIs
    <3>3. Min(ink) \in (p + 1) .. (p + q)
      BY <1>3, <3>2
    <3> HIDE DEF ink
    <3> QED BY <1>1, <3>2, <3>3
  <2>5. Max(ink) = b
    <3>1. ink \subseteq 0 .. b /\ b \in Nat /\ ink # {}
      BY <1>1, <1>3, <2>3
    <3> HIDE DEF b
    <3>2. Max(ink) \in ink /\ Max(ink) >= b
      BY <2>3, <3>1, GreatestIs
    <3>3. Max(ink) \in (p + 1) .. (p + q)
      BY <1>3, <3>2
    <3> DEFINE mx == Max(ink)
    <3>4. mx >= p + q /\ mx \in (p + 1) .. (p + q)
      BY <3>2, <3>3 DEF b
    <3> HIDE DEF mx
    <3>5. mx = p + q
      BY <1>1, <3>4
    <3> QED BY <3>5 DEF mx, b
  <2>8. a \in 1 .. Len(l) /\ b \in 1 .. Len(l) /\ b - a + 1 = q
    <3>1. Len(l) = p + q + r /\ p \in Nat /\ q \in Nat /\ r \in Nat
      BY <1>1
    <3>2. a \in 1 .. Len(l) /\ b \in 1 .. Len(l)
      BY <1>5, <3>1
    <3>3. b - a + 1 = q
      BY <3>1
    <3> QED BY <3>2, <3>3
  <2>6. SubSeq(l, a, b) = y
    <3> DEFINE s == SubSeq(l, a, b)
    <3>1. s \in Seq(Word) /\ Len(s) = q /\ \A k \in 1 .. q : s[k] = l[p + k]
      <4>1. a \in 1 .. Len(l) /\ b \in 1 .. Len(l) /\ b - a + 1 = q
        BY <2>8
      <4>2. s \in Seq(Word) /\ Len(s) = b - a + 1 /\ \A k \in 1 .. b - a + 1 : s[k] = l[a + k - 1]
        <5> HIDE DEF a, b
        <5> QED BY <1>1, <4>1
      <4>3. \A k \in 1 .. q : a + k - 1 = p + k
        BY <1>1
      <4> HIDE DEF s
      <4> QED BY <4>1, <4>2, <4>3
    <3> HIDE DEF s
    <3>2. y \in Seq(Word) /\ Len(y) = q /\ \A k \in 1 .. q : s[k] = y[k]
      BY <1>1, <3>1 DEF q
    <3> QED BY <3>1, <3>2, SameSeq DEF s
  <2>7. ink # {}
    BY <2>3
  <2> QED BY <1>a, <2>4, <2>5, <2>6, <2>7 DEF l
<1> QED BY <1>4, <1>5

LEMMA Emptied == <<>> \in Clear /\ Solely(<<>>, "blank") /\ Solely(<<>>, "nl") /\ Seen(<<>>) = <<>>
<1>1. Len(<<>>) = 0 /\ <<>> \in Seq(Word)
  OBVIOUS
<1> QED BY <1>1, ClearHas, SeenIs DEF Solely

(* A part of a text that cuts no entity.                                     *)
LEMMA PartClear ==
  ASSUME NEW t \in Clear, NEW a \in 1 .. Len(t) + 1, NEW b \in 0 .. Len(t), a <= b + 1,
         \A i \in a .. b : EntityAt(t, i) => i + 2 <= b
  PROVE  SubSeq(t, a, b) \in Clear
<1> DEFINE s == SubSeq(t, a, b)
<1>1. t \in Closed /\ t \in Seq(Word) /\ Len(t) \in Nat
  BY ClearHas
<1>2. s \in Closed
  BY <1>1, PartClosed
<1>3. Len(s) = b - a + 1 /\ \A k \in 1 .. b - a + 1 : s[k] = t[a + k - 1] /\ a + k - 1 \in 1 .. Len(t)
  BY <1>1
<1> HIDE DEF s
<1>4. \A k \in 1 .. Len(s) : s[k] \notin Numeric \cup {"backn"}
  BY <1>3, ClearHas
<1> QED BY <1>2, <1>4 DEF Clear, s

(* A text is cut where no entity is.                                         *)
LEMMA Parted ==
  ASSUME NEW t \in Clear, NEW a \in 1 .. Len(t) + 1, NEW b \in 0 .. Len(t), a <= b + 1,
         \A i \in 1 .. Len(t) : i < a \/ i > b => t[i] \in {"blank", "nl"}
  PROVE  LET x == SubSeq(t, 1, a - 1)
             y == SubSeq(t, a, b)
             z == SubSeq(t, b + 1, Len(t))
         IN /\ x \in Clear /\ y \in Clear /\ z \in Clear /\ t = (x \o y) \o z
            /\ Len(x) = a - 1 /\ Len(y) = b - a + 1 /\ Len(z) = Len(t) - b
            /\ \A k \in 1 .. Len(x) : x[k] = t[k]
            /\ \A k \in 1 .. Len(y) : y[k] = t[a + k - 1]
            /\ \A k \in 1 .. Len(z) : z[k] = t[b + k]
<1> DEFINE x == SubSeq(t, 1, a - 1)
           y == SubSeq(t, a, b)
           z == SubSeq(t, b + 1, Len(t))
           n == Len(t)
<1>1. t \in Closed /\ t \in Seq(Word) /\ n \in Nat
  BY ClearHas
<1>2. ASSUME NEW i \in 1 .. n, EntityAt(t, i)
      PROVE  i >= a /\ i + 2 <= b
  <2>1. i + 2 <= n /\ t[i] = "&" /\ t[i + 1] \in EntityNames /\ t[i + 2] = "semicolon"
    BY <1>2 DEF EntityAt
  <2>2. t[i] \notin {"blank", "nl"} /\ t[i + 2] \notin {"blank", "nl"}
    BY <2>1
  <2>3. i + 2 \in 1 .. n
    BY <1>1, <2>1
  <2>4. ~(i < a \/ i > b) /\ ~(i + 2 < a \/ i + 2 > b)
    BY <2>2, <2>3
  <2> QED BY <1>1, <2>4
<1>3. x \in Clear
  <2>1. 1 \in 1 .. n + 1 /\ a - 1 \in 0 .. n /\ 1 <= (a - 1) + 1
    BY <1>1
  <2>2. \A i \in 1 .. a - 1 : EntityAt(t, i) => i + 2 <= a - 1
    <3>1. \A i \in 1 .. a - 1 : i \in 1 .. n /\ ~(i >= a)
      BY <1>1
    <3> QED BY <1>2, <3>1
  <2> QED BY <2>1, <2>2, PartClear
<1>4. y \in Clear
  <2>1. \A i \in a .. b : EntityAt(t, i) => i + 2 <= b
    <3>1. \A i \in a .. b : i \in 1 .. n
      BY <1>1
    <3> QED BY <1>2, <3>1
  <2> QED BY <2>1, PartClear
<1>5. z \in Clear
  <2>1. b + 1 \in 1 .. n + 1 /\ n \in 0 .. n /\ b + 1 <= n + 1
    BY <1>1
  <2>2. \A i \in b + 1 .. n : EntityAt(t, i) => i + 2 <= n
    <3>1. \A i \in b + 1 .. n : i \in 1 .. n
      BY <1>1
    <3> QED BY <3>1 DEF EntityAt
  <2> QED BY <2>1, <2>2, PartClear
<1>6. Len(x) = a - 1 /\ \A k \in 1 .. a - 1 : x[k] = t[k]
  BY <1>1
<1>7. Len(y) = b - a + 1 /\ \A k \in 1 .. b - a + 1 : y[k] = t[a + k - 1]
  BY <1>1
<1>8. Len(z) = n - b /\ \A k \in 1 .. n - b : z[k] = t[b + k]
  <2>1. Len(z) = n - b /\ \A k \in 1 .. n - b : z[k] = t[(b + 1) + k - 1]
    BY <1>1
  <2>2. \A k \in 1 .. n - b : (b + 1) + k - 1 = b + k
    BY <1>1
  <2> QED BY <2>1, <2>2
<1> HIDE DEF x, y, z
<1>9. t = (x \o y) \o z
  <2> DEFINE l == (x \o y) \o z
  <2>1. /\ l \in Seq(Word) /\ Len(l) = Len(x) + Len(y) + Len(z)
        /\ \A k \in 1 .. Len(x) : l[k] = x[k]
        /\ \A k \in 1 .. Len(y) : l[Len(x) + k] = y[k]
        /\ \A k \in 1 .. Len(z) : l[Len(x) + Len(y) + k] = z[k]
    <3>1. x \in Seq(Word) /\ y \in Seq(Word) /\ z \in Seq(Word)
      BY <1>3, <1>4, <1>5, ClearHas
    <3> QED BY <3>1, ThreeIs
  <2> HIDE DEF l
  <2>2. Len(l) = n
    BY <1>1, <1>6, <1>7, <1>8, <2>1
  <2>3. ASSUME NEW k \in 1 .. n PROVE l[k] = t[k]
    <3>1. CASE k <= a - 1
      <4>1. k \in 1 .. a - 1
        BY <1>1, <3>1
      <4> QED BY <1>6, <2>1, <4>1
    <3>2. CASE k > a - 1 /\ k <= b
      <4> DEFINE j == k - (a - 1)
      <4>1. j \in 1 .. b - a + 1 /\ k = Len(x) + j /\ k = a + j - 1
        BY <1>1, <1>6, <3>2
      <4> HIDE DEF j
      <4>2. l[Len(x) + j] = y[j] /\ y[j] = t[a + j - 1]
        BY <1>7, <2>1, <4>1
      <4> QED BY <4>1, <4>2
    <3>3. CASE k > a - 1 /\ k > b
      <4> DEFINE j == k - b
      <4>1. j \in 1 .. n - b /\ k = Len(x) + Len(y) + j /\ k = b + j
        BY <1>1, <1>6, <1>7, <3>3
      <4> HIDE DEF j
      <4>2. l[Len(x) + Len(y) + j] = z[j] /\ z[j] = t[b + j]
        BY <1>8, <2>1, <4>1
      <4> QED BY <4>1, <4>2
    <3> QED BY <1>1, <3>1, <3>2, <3>3
  <2>4. t = l
    BY <1>1, <2>1, <2>2, <2>3, SameSeq
  <2> QED BY <2>4 DEF l
<1> QED BY <1>3, <1>4, <1>5, <1>6, <1>7, <1>8, <1>9 DEF x, y, z

(* What is seen of a part between two runs is between the same runs.         *)
LEMMA BetweenSeen ==
  ASSUME NEW x \in Clear, NEW y \in Clear, NEW z \in Clear, NEW d \in {"blank", "nl"}, Between(x, y, z, d)
  PROVE  /\ Seen((x \o y) \o z) = (x \o Seen(y)) \o z /\ Seen(y) \in Seq(Word)
         /\ Between(x, Seen(y), z, d) /\ (y # <<>> => Seen(y) # <<>>)
<1>1. /\ x \in Closed /\ y \in Closed /\ z \in Closed
      /\ x \in Seq(Word) /\ y \in Seq(Word) /\ z \in Seq(Word)
  BY ClearHas
<1>2. Seen(x) = x /\ Seen(z) = z
  BY <1>1, SolelySeen DEF Between
<1>3. x \o y \in Closed
  BY <1>1, ClosedJoined
<1>4. Seen((x \o y) \o z) = Seen(x \o y) \o Seen(z) /\ Seen(x \o y) = Seen(x) \o Seen(y)
  BY <1>1, <1>3, SeenJoined
<1>5. Seen(y) \in Seq(Word) /\ Seen(<<>>) = <<>>
  BY <1>1, SeenIs
<1>6. y # <<>> => Seen(y) # <<>> /\ Ends(y, d)
  BY SeenEnds
<1> QED BY <1>2, <1>4, <1>5, <1>6 DEF Between, Ends

LEMMA StrippedSeen ==
  ASSUME NEW l \in Clear
  PROVE  /\ Stripped(l) \in Clear /\ Stripped(Seen(l)) = Seen(Stripped(l))
         /\ Stripped(l) = <<>> <=> Seen(Stripped(l)) = <<>>
<1> DEFINE ink == {i \in DOMAIN l : l[i] # "blank"}
           n == Len(l)
<1>1. l \in Seq(Word) /\ n \in Nat /\ DOMAIN l = 1 .. n
  BY ClearHas
<1>2. \E x, y, z \in Clear : l = (x \o y) \o z /\ Between(x, y, z, "blank")
  <2>1. CASE ink = {}
    <3>1. Solely(l, "blank")
      BY <1>1, <2>1 DEF Solely
    <3>2. Between(l, <<>>, <<>>, "blank")
      BY <3>1, Emptied DEF Between
    <3>3. l = (l \o <<>>) \o <<>>
      BY <1>1
    <3> QED BY <3>2, <3>3, Emptied
  <2>2. CASE ink # {}
    <3> DEFINE a == Min(ink)
               b == Max(ink)
               x == SubSeq(l, 1, a - 1)
               y == SubSeq(l, a, b)
               z == SubSeq(l, b + 1, n)
    <3>1. ink \subseteq Nat /\ ink \subseteq 0 .. n /\ ink \subseteq 1 .. n
      BY <1>1
    <3>2. a \in ink /\ (\A i \in ink : a <= i) /\ b \in ink /\ \A i \in ink : b >= i
      <4> HIDE DEF ink
      <4> QED BY <1>1, <2>2, <3>1, LeastIs, GreatestIs
    <3>3. l[a] # "blank" /\ l[b] # "blank" /\ a \in 1 .. n /\ b \in 1 .. n /\ a <= b
      BY <1>1, <3>1, <3>2
    <3>4. \A i \in 1 .. n : i < a \/ i > b => l[i] = "blank"
      <4>1. \A i \in 1 .. n : i \in ink \/ l[i] = "blank"
        BY <1>1
      <4> HIDE DEF ink, a, b
      <4>2. \A i \in 1 .. n : i \in ink => ~(i < a) /\ ~(i > b)
        BY <1>1, <3>2, <3>3
      <4> QED BY <4>1, <4>2
    <3> HIDE DEF ink, a, b
    <3>5. /\ x \in Clear /\ y \in Clear /\ z \in Clear /\ l = (x \o y) \o z
          /\ Len(x) = a - 1 /\ Len(y) = b - a + 1 /\ Len(z) = n - b
          /\ \A k \in 1 .. Len(x) : x[k] = l[k]
          /\ \A k \in 1 .. Len(y) : y[k] = l[a + k - 1]
          /\ \A k \in 1 .. Len(z) : z[k] = l[b + k]
      <4>1. a \in 1 .. n + 1 /\ b \in 0 .. n /\ a <= b + 1
        BY <1>1, <3>3
      <4>2. \A i \in 1 .. n : i < a \/ i > b => l[i] \in {"blank", "nl"}
        BY <3>4
      <4> QED BY <4>1, <4>2, Parted
    <3> HIDE DEF x, y, z
    <3>6. Solely(x, "blank") /\ Solely(z, "blank")
      <4>1. \A k \in 1 .. Len(x) : k \in 1 .. n /\ k < a
        BY <1>1, <3>3, <3>5
      <4>2. \A k \in 1 .. Len(z) : b + k \in 1 .. n /\ b + k > b
        BY <1>1, <3>3, <3>5
      <4> QED BY <3>4, <3>5, <4>1, <4>2 DEF Solely
    <3>7. y[1] = l[a] /\ y[Len(y)] = l[b]
      <4>1. 1 \in 1 .. Len(y) /\ Len(y) \in 1 .. Len(y) /\ a + 1 - 1 = a /\ a + Len(y) - 1 = b
        BY <1>1, <3>3, <3>5
      <4>2. y[1] = l[a + 1 - 1] /\ y[Len(y)] = l[a + Len(y) - 1]
        BY <3>5, <4>1
      <4> QED BY <4>1, <4>2
    <3>8. Between(x, y, z, "blank")
      BY <3>3, <3>6, <3>7 DEF Between
    <3> QED BY <3>5, <3>8
  <2> QED BY <2>1, <2>2
<1>3. PICK x \in Clear, y \in Clear, z \in Clear : l = (x \o y) \o z /\ Between(x, y, z, "blank")
  BY <1>2
<1>4. x \in Seq(Word) /\ y \in Seq(Word) /\ z \in Seq(Word)
  BY ClearHas
<1>5. /\ Seen(l) = (x \o Seen(y)) \o z /\ Seen(y) \in Seq(Word)
      /\ Between(x, Seen(y), z, "blank") /\ (y # <<>> => Seen(y) # <<>>)
  BY <1>3, BetweenSeen
<1>6. Stripped(l) = y
  BY <1>3, <1>4, StrippedOf
<1>7. Stripped(Seen(l)) = Seen(y)
  BY <1>4, <1>5, StrippedOf
<1> QED BY <1>5, <1>6, <1>7, Emptied

ClearLines == [done : Clear, line : Clear]
LEMMA JoinedSeen ==
  ASSUME NEW a \in ClearLines, NEW b, b.done = Seen(a.done), b.line = Seen(a.line)
  PROVE  Joined(a) \in Clear /\ Joined(b) = Seen(Joined(a))
<1> DEFINE t == a.done
           s == Stripped(a.line)
<1>1. t \in Clear /\ a.line \in Clear
  BY DEF ClearLines
<1>2. s \in Clear /\ Stripped(b.line) = Seen(s) /\ (s = <<>> <=> Seen(s) = <<>>)
  BY <1>1, StrippedSeen
<1>3. Joined(a) = JoinedBy(t, s)
  BY DEF Joined
<1> HIDE DEF t, s
<1>4. Joined(b) = JoinedBy(Seen(t), Seen(s))
  BY <1>2 DEF Joined, t
<1>5. t = <<>> <=> Seen(t) = <<>>
  BY <1>1, Emptied, SeenEnds
<1>6. CASE s = <<>>
  BY <1>1, <1>2, <1>3, <1>4, <1>6 DEF JoinedBy
<1>7. CASE s # <<>> /\ t = <<>>
  <2>1. Seen(s) # <<>> /\ Seen(t) = <<>>
    BY <1>2, <1>5, <1>7
  <2> QED BY <1>2, <1>3, <1>4, <1>7, <2>1 DEF JoinedBy
<1>8. CASE s # <<>> /\ t # <<>>
  <2> DEFINE w == <<"nl">>
  <2>1. w \in Clear /\ Seen(w) = w
    <3>1. "nl" \in Word /\ "nl" \notin Numeric \cup {"backn", "&"} /\ Sign("nl") = "nl"
      BY Letters DEF Numeric, Sign
    <3> QED BY <3>1, OneHas, SeenOne
  <2>2. Seen(s) # <<>> /\ Seen(t) # <<>>
    BY <1>2, <1>5, <1>8
  <2>3. Joined(a) = (t \o w) \o s
    <3>1. t \in Seq(Word) /\ s \in Seq(Word) /\ w \in Seq(Word)
      BY <1>1, <1>2, <2>1, ClearHas
    <3> QED BY <1>3, <1>8, <3>1 DEF JoinedBy
  <2>4. Joined(b) = (Seen(t) \o w) \o Seen(s)
    <3>1. t \in Seq(Word) /\ s \in Seq(Word)
      BY <1>1, <1>2, ClearHas
    <3>2. Seen(t) \in Seq(Word) /\ Seen(s) \in Seq(Word) /\ w \in Seq(Word)
      BY <2>1, <3>1, SeenIs, ClearHas
    <3> QED BY <1>4, <2>2, <3>2 DEF JoinedBy
  <2> HIDE DEF w
  <2>5. t \in Closed /\ s \in Closed /\ w \in Closed
    BY <1>1, <1>2, <2>1, ClearHas
  <2>6. t \o w \in Clear /\ t \o w \in Closed
    BY <1>1, <2>1, <2>5, ClearJoined, ClearHas
  <2>7. (t \o w) \o s \in Clear
    BY <1>2, <2>5, <2>6, ClearJoined
  <2>8. Seen(t \o w) = Seen(t) \o w /\ Seen((t \o w) \o s) = Seen(t \o w) \o Seen(s)
    <3>1. w \in Seq(Word) /\ s \in Seq(Word)
      BY <2>5, ClosedHas
    <3>2. Seen(t \o w) = Seen(t) \o Seen(w)
      BY <2>5, <3>1, SeenJoined
    <3>3. Seen((t \o w) \o s) = Seen(t \o w) \o Seen(s)
      BY <2>6, <3>1, SeenJoined
    <3> QED BY <2>1, <3>2, <3>3
  <2> QED BY <2>3, <2>4, <2>7, <2>8
<1> QED BY <1>6, <1>7, <1>8

(* Reading a token is reading what is seen of it.                            *)
AlikeLines(a, b) == a \in ClearLines /\ b \in Lined /\ b.done = Seen(a.done) /\ b.line = Seen(a.line)

LEMMA LineMore ==
  ASSUME NEW a \in ClearLines, NEW b \in Lined, AlikeLines(a, b), NEW w \in Tokens, w \in Clear, NEW d \in Word,
         Seen(w) = <<d>>, d # "nl"
  PROVE  AlikeLines([a EXCEPT !.line = a.line \o w], LineBy(b, d))
<1> DEFINE l == a.line \o w
<1>1. a.line \in Clear /\ a.done \in Clear /\ a.line \in Closed /\ w \in Closed /\ w \in Seq(Word)
  BY ClearHas DEF ClearLines
<1>2. l \in Clear /\ Seen(l) = Seen(a.line) \o <<d>> /\ Seen(a.line) \in Seq(Word)
  <2>1. a.line \in Seq(Word)
    BY <1>1, ClearHas
  <2> QED BY <1>1, <2>1, ClearJoined, SeenJoined, SeenIs
<1> HIDE DEF l
<1>3. Seen(l) = Append(Seen(a.line), d)
  BY <1>2
<1>4. LineBy(b, d) = [b EXCEPT !.line = Append(b.line, d)]
  BY DEF LineBy
<1>5. LineBy(b, d).done = b.done /\ LineBy(b, d).line = Append(b.line, d)
  BY <1>4 DEF Lined
<1>6. LineBy(b, d) \in Lined
  BY LineByIs
<1> DEFINE c == [a EXCEPT !.line = l]
<1>7. c \in ClearLines /\ c.done = a.done /\ c.line = l
  BY <1>2 DEF ClearLines
<1> HIDE DEF c
<1>8. AlikeLines(c, LineBy(b, d))
  BY <1>3, <1>5, <1>6, <1>7 DEF AlikeLines
<1> QED BY <1>8 DEF c, l

LEMMA LinesSeen == ASSUME NEW t \in Clear PROVE AlikeLines(LinedAt(t), LinedAt(Seen(t)))
<1> DEFINE S == {s \in Closed : s \in Clear => AlikeLines(LinedAt(s), LinedAt(Seen(s)))}
<1>1. <<>> \in S
  <2>1. LinedAt(<<>>) = Unread /\ Seen(<<>>) = <<>>
    <3>1. <<>> \in Seq(Word)
      OBVIOUS
    <3> QED BY <3>1, LinedIs, SeenIs
  <2>2. Unread \in ClearLines /\ Unread \in Lined /\ Unread.done = <<>> /\ Unread.line = <<>>
    BY Emptied DEF Unread, ClearLines, Lined
  <2> QED BY <2>1, <2>2, ClosedHas DEF AlikeLines
<1>2. ASSUME NEW s \in Closed, s \in S, NEW w \in Tokens PROVE s \o w \in S
  <2> DEFINE u == s \o w
             a == LinedAt(s)
             b == LinedAt(Seen(s))
  <2>1. s \in Seq(Word) /\ w \in Closed /\ w \in Seq(Word) /\ u \in Closed /\ Seen(s) \in Seq(Word)
    BY ClosedHas, ClosedJoined, SeenIs
  <2> SUFFICES ASSUME u \in Clear PROVE AlikeLines(LinedAt(u), LinedAt(Seen(u)))
    BY <2>1
  <2>2. s \in Clear /\ w \in Clear
    BY <2>1, ClearJoined
  <2>3. AlikeLines(a, b) /\ a \in ClearLines /\ b \in Lined
    BY <1>2, <2>2 DEF AlikeLines
  <2>4. PICK d \in Word :
          /\ Seen(w) = <<d>>
          /\ (\E c \in Word \ {"&"} : w = <<c>> /\ d = Sign(c))
             \/ (\E m \in EntityNames : w = <<"&", m, "semicolon">> /\ d \in {"&", "<", ">"})
    BY SeenToken
  <2>5. Seen(u) = Append(Seen(s), d)
    <3>1. Seen(u) = Seen(s) \o <<d>>
      BY <2>1, <2>4, SeenJoined
    <3> HIDE DEF u
    <3> QED BY <2>1, <3>1
  <2>6. LinedAt(Seen(u)) = LineBy(b, d)
    BY <2>1, <2>5, LinedMore
  <2> HIDE DEF a, b
  <2>7. ASSUME NEW c \in Word \ {"&"}, w = <<c>>, d = Sign(c)
        PROVE  AlikeLines(LinedAt(u), LineBy(b, d))
    <3>1. d = c
      BY <2>2, <2>7, OneHas DEF Sign
    <3>2. u = Append(s, c)
      BY <2>1, <2>7
    <3>3. LinedAt(u) = LineBy(a, c)
      BY <2>1, <3>2, LinedMore DEF a
    <3>4. CASE c = "nl"
      <4>1. Joined(a) \in Clear /\ Joined(b) = Seen(Joined(a))
        BY <2>3, JoinedSeen DEF AlikeLines
      <4> DEFINE a2 == [done |-> Joined(a), line |-> <<>>]
                 b2 == [done |-> Joined(b), line |-> <<>>]
      <4>2. LineBy(a, c) = a2 /\ LineBy(b, d) = b2
        BY <3>1, <3>4 DEF LineBy
      <4>3. a2 \in ClearLines /\ a2.done = Joined(a) /\ a2.line = <<>> /\ b2.done = Joined(b) /\ b2.line = <<>>
        BY <4>1, Emptied DEF ClearLines
      <4>4. b2 \in Lined
        BY <2>3, <4>2, LineByIs
      <4> HIDE DEF a2, b2
      <4>5. AlikeLines(a2, b2)
        BY <4>1, <4>3, <4>4, Emptied DEF AlikeLines
      <4> QED BY <3>3, <4>2, <4>5
    <3>5. CASE c # "nl"
      <4>1. LineBy(a, c) = [a EXCEPT !.line = Append(a.line, c)]
        BY <3>5 DEF LineBy
      <4>2. Append(a.line, c) = a.line \o w
        <5>1. a.line \in Seq(Word)
          BY <2>3, ClearHas DEF ClearLines
        <5> HIDE DEF u
        <5> QED BY <2>7, <5>1
      <4>3. AlikeLines([a EXCEPT !.line = a.line \o w], LineBy(b, d))
        BY <2>2, <2>3, <2>4, <3>1, <3>5, LineMore
      <4> QED BY <3>3, <4>1, <4>2, <4>3
    <3> QED BY <3>4, <3>5
  <2>8. ASSUME NEW m \in EntityNames, w = <<"&", m, "semicolon">>, d \in {"&", "<", ">"}
        PROVE  AlikeLines(LinedAt(u), LineBy(b, d))
    <3> DEFINE s1 == Append(s, "&")
               s2 == Append(s1, m)
               s3 == Append(s2, "semicolon")
    <3>1. m \in Word /\ "&" \in Word /\ "semicolon" \in Word /\ m # "nl"
      BY CharsAre, Letters
    <3>2. s1 \in Seq(Word) /\ s2 \in Seq(Word) /\ u = s3
      BY <2>1, <2>8, <3>1
    <3> DEFINE a1 == LineBy(a, "&")
               a2 == LineBy(a1, m)
               a3 == LineBy(a2, "semicolon")
    <3>3. LinedAt(u) = a3
      <4>1. LinedAt(s1) = LineBy(LinedAt(s), "&")
        BY <2>1, <3>1, LinedMore
      <4> HIDE DEF s1
      <4>2. LinedAt(s2) = LineBy(LinedAt(s1), m)
        BY <3>1, <3>2, LinedMore
      <4> HIDE DEF s2
      <4>3. LinedAt(s3) = LineBy(LinedAt(s2), "semicolon")
        BY <3>1, <3>2, LinedMore
      <4> QED BY <3>2, <4>1, <4>2, <4>3 DEF a
    <3>4. a.line \in Seq(Word) /\ DOMAIN a = {"done", "line"} /\ a = [done |-> a.done, line |-> a.line]
      BY <2>3, ClearHas DEF ClearLines
    <3>5. a3 = [a EXCEPT !.line = Append(Append(Append(a.line, "&"), m), "semicolon")]
      <4>1. a1 = [done |-> a.done, line |-> Append(a.line, "&")]
        BY <3>4 DEF LineBy
      <4>2. a2 = [done |-> a.done, line |-> Append(Append(a.line, "&"), m)]
        BY <3>1, <4>1 DEF LineBy
      <4>3. a3 = [done |-> a.done, line |-> Append(Append(Append(a.line, "&"), m), "semicolon")]
        BY <4>2 DEF LineBy
      <4> DEFINE more == Append(Append(Append(a.line, "&"), m), "semicolon")
      <4> HIDE DEF a3, more
      <4>4. [a EXCEPT !.line = more] = [done |-> a.done, line |-> more]
        BY <3>4
      <4> QED BY <4>3, <4>4 DEF more
    <3>6. Append(Append(Append(a.line, "&"), m), "semicolon") = a.line \o w
      <4> HIDE DEF a1, a2, a3, s1, s2, s3, u
      <4> QED BY <2>8, <3>1, <3>4
    <3>7. AlikeLines([a EXCEPT !.line = a.line \o w], LineBy(b, d))
      <4>1. d # "nl"
        BY <2>8
      <4> QED BY <2>2, <2>3, <2>4, <4>1, LineMore
    <3> QED BY <3>3, <3>5, <3>6, <3>7
  <2> QED BY <2>4, <2>6, <2>7, <2>8
<1> HIDE DEF S
<1>3. Closed \subseteq S
  BY <1>1, <1>2, ClosedInduct
<1>4. t \in S
  BY <1>3, ClearHas
<1> QED BY <1>4 DEF S

LEMMA TrimmedSeen == ASSUME NEW t \in Clear PROVE Trimmed(t) \in Clear /\ Seen(Trimmed(t)) = Trimmed(Seen(t))
<1>1. t \in Seq(Word) /\ Seen(t) \in Seq(Word)
  BY ClearHas, SeenIs
<1>2. Trimmed(t) = Joined(LinedAt(t)) /\ Trimmed(Seen(t)) = Joined(LinedAt(Seen(t)))
  BY <1>1, LinedIs
<1>3. AlikeLines(LinedAt(t), LinedAt(Seen(t)))
  BY LinesSeen
<1> QED BY <1>2, <1>3, JoinedSeen DEF AlikeLines

(* A text between the newlines that are left out of one of "pre".            *)
Cut(x, y, z) ==
  /\ Solely(x, "nl") /\ Solely(z, "nl") /\ Len(x) <= 1 /\ Len(z) <= 1
  /\ Len(x) = 0 /\ y = <<>> => z = <<>>
  /\ Len(x) = 0 /\ y # <<>> => y[1] # "nl"
  /\ Len(z) = 0 /\ y # <<>> => y[Len(y)] # "nl"

LEMMA MiddleIs ==
  ASSUME NEW x \in Seq(Word), NEW y \in Seq(Word), NEW z \in Seq(Word)
  PROVE  SubSeq((x \o y) \o z, Len(x) + 1, Len(x) + Len(y)) = y
<1> DEFINE l == (x \o y) \o z
           p == Len(x)
           q == Len(y)
           r == Len(z)
           a == p + 1
           b == p + q
           s == SubSeq(l, a, b)
<1>1. /\ l \in Seq(Word) /\ Len(l) = p + q + r /\ p \in Nat /\ q \in Nat /\ r \in Nat
      /\ \A k \in 1 .. q : l[p + k] = y[k]
  BY ThreeIs
<1> HIDE DEF l, p, r
<1>2. a \in 1 .. Len(l) + 1 /\ b \in 0 .. Len(l) /\ b - a + 1 = q /\ a <= b + 1
  <2> HIDE DEF q
  <2> QED BY <1>1
<1>3. s \in Seq(Word) /\ Len(s) = b - a + 1 /\ \A k \in 1 .. b - a + 1 : s[k] = l[a + k - 1]
  <2> HIDE DEF a, b, q
  <2> QED BY <1>1, <1>2, PartIs
<1>4. \A k \in 1 .. q : a + k - 1 = p + k
  <2> HIDE DEF q
  <2> QED BY <1>1
<1> HIDE DEF s, a, b
<1>5. s = y
  <2>1. Len(s) = Len(y) /\ \A k \in 1 .. Len(s) : s[k] = y[k]
    BY <1>1, <1>2, <1>3, <1>4
  <2> QED BY <1>3, <2>1, SameSeq
<1> QED BY <1>5 DEF s, a, b, l, p, q

LEMMA PreOf ==
  ASSUME NEW x \in Seq(Word), NEW y \in Seq(Word), NEW z \in Seq(Word), Cut(x, y, z)
  PROVE  TrimmedPre((x \o y) \o z) = y
<1> DEFINE l == (x \o y) \o z
           p == Len(x)
           q == Len(y)
           r == Len(z)
           from == IF l # <<>> /\ l[1] = "nl" THEN 2 ELSE 1
           to == IF Len(l) >= from /\ l[Len(l)] = "nl" THEN Len(l) - 1 ELSE Len(l)
<1>1. /\ l \in Seq(Word) /\ Len(l) = p + q + r /\ p \in Nat /\ q \in Nat /\ r \in Nat
      /\ \A k \in 1 .. p : l[k] = x[k]
      /\ \A k \in 1 .. q : l[p + k] = y[k]
      /\ \A k \in 1 .. r : l[p + q + k] = z[k]
  BY ThreeIs
<1>2. /\ \A k \in 1 .. p : x[k] = "nl"
      /\ \A k \in 1 .. r : z[k] = "nl"
      /\ p <= 1 /\ r <= 1
      /\ p = 0 /\ q = 0 => r = 0
      /\ p = 0 /\ q # 0 => y[1] # "nl"
      /\ r = 0 /\ q # 0 => y[q] # "nl"
  <2>1. (y = <<>> <=> q = 0) /\ (z = <<>> <=> r = 0)
    OBVIOUS
  <2> HIDE DEF l, from, to
  <2> QED BY <2>1 DEF Cut, Solely
<1>3. TrimmedPre(l) = SubSeq(l, from, to)
  BY DEF TrimmedPre
<1>4. SubSeq(l, p + 1, p + q) = y
  BY MiddleIs
<1>5. l = <<>> <=> Len(l) = 0
  BY <1>1
<1> HIDE DEF l, p, q, r
<1>6. from = p + 1
  <2>1. CASE p = 1
    <3>1. 1 \in 1 .. p /\ l[1] = "nl"
      BY <1>1, <1>2, <2>1
    <3>2. l # <<>>
      BY <1>1, <1>5, <2>1
    <3> QED BY <2>1, <3>1, <3>2
  <2>2. CASE p = 0 /\ q # 0
    <3>1. 1 \in 1 .. q /\ p + 1 = 1
      BY <1>1, <2>2
    <3>2. l[1] = y[1]
      BY <1>1, <3>1
    <3> QED BY <1>2, <2>2, <3>2
  <2>3. CASE p = 0 /\ q = 0
    <3>1. l = <<>>
      BY <1>1, <1>2, <1>5, <2>3
    <3> QED BY <2>3, <3>1
  <2> QED BY <1>1, <1>2, <2>1, <2>2, <2>3
<1> HIDE DEF from
<1>7. to = p + q
  <2>1. CASE r = 1
    <3>1. 1 \in 1 .. r /\ p + q + 1 = Len(l)
      BY <1>1, <2>1
    <3>2. l[Len(l)] = "nl"
      BY <1>1, <1>2, <3>1
    <3> QED BY <1>1, <1>6, <2>1, <3>2
  <2>2. CASE r = 0 /\ q # 0
    <3>1. q \in 1 .. q /\ p + q = Len(l)
      BY <1>1, <2>2
    <3>2. l[Len(l)] = y[q]
      BY <1>1, <3>1
    <3> QED BY <1>2, <2>2, <3>1, <3>2
  <2>3. CASE r = 0 /\ q = 0
    <3>1. Len(l) = p /\ ~(Len(l) >= from)
      BY <1>1, <1>6, <2>3
    <3> QED BY <1>1, <2>3, <3>1
  <2> QED BY <1>1, <1>2, <2>1, <2>2, <2>3
<1> QED BY <1>3, <1>4, <1>6, <1>7 DEF l

LEMMA PreInto ==
  ASSUME NEW t \in Clear PROVE \E x, y, z \in Clear : t = (x \o y) \o z /\ Cut(x, y, z)
<1> DEFINE n == Len(t)
           a == IF t # <<>> /\ t[1] = "nl" THEN 2 ELSE 1
           b == IF n >= a /\ t[n] = "nl" THEN n - 1 ELSE n
           x == SubSeq(t, 1, a - 1)
           y == SubSeq(t, a, b)
           z == SubSeq(t, b + 1, n)
<1>1. t \in Seq(Word) /\ n \in Nat /\ (t = <<>> <=> n = 0)
  BY ClearHas
<1> HIDE DEF x, y, z, n
<1>2. /\ (a = 2 /\ n >= 1 /\ t[1] = "nl") \/ (a = 1 /\ (n = 0 \/ t[1] # "nl"))
      /\ (b = n - 1 /\ n >= a /\ t[n] = "nl") \/ (b = n /\ (n < a \/ t[n] # "nl"))
  BY <1>1
<1> HIDE DEF a, b
<1>3. a \in 1 .. n + 1 /\ b \in 0 .. n /\ a <= b + 1
  BY <1>1, <1>2
<1>4. ASSUME NEW i \in 1 .. n, i < a \/ i > b PROVE t[i] = "nl"
  BY <1>1, <1>2, <1>4
<1>5. /\ x \in Clear /\ y \in Clear /\ z \in Clear /\ t = (x \o y) \o z
      /\ Len(x) = a - 1 /\ Len(y) = b - a + 1 /\ Len(z) = n - b
      /\ \A k \in 1 .. Len(x) : x[k] = t[k]
      /\ \A k \in 1 .. Len(y) : y[k] = t[a + k - 1]
      /\ \A k \in 1 .. Len(z) : z[k] = t[b + k]
  <2>1. \A i \in 1 .. n : i < a \/ i > b => t[i] \in {"blank", "nl"}
    BY <1>4
  <2> QED BY <1>3, <2>1, Parted DEF n, x, y, z
<1>6. Solely(x, "nl") /\ Solely(z, "nl")
  <2>1. \A k \in 1 .. Len(x) : k \in 1 .. n /\ k < a
    BY <1>1, <1>3, <1>5
  <2>2. \A k \in 1 .. Len(z) : b + k \in 1 .. n /\ b + k > b
    BY <1>1, <1>3, <1>5
  <2> QED BY <1>4, <1>5, <2>1, <2>2 DEF Solely
<1>7. (y = <<>> <=> Len(y) = 0) /\ (z = <<>> <=> Len(z) = 0)
  <2>1. y \in Seq(Word) /\ z \in Seq(Word)
    BY <1>5, ClearHas
  <2> QED BY <2>1
<1>8. y # <<>> => y[1] = t[a] /\ y[Len(y)] = t[b]
  <2> SUFFICES ASSUME y # <<>> PROVE y[1] = t[a] /\ y[Len(y)] = t[b]
    OBVIOUS
  <2>1. 1 \in 1 .. Len(y) /\ Len(y) \in 1 .. Len(y) /\ a + 1 - 1 = a /\ a + Len(y) - 1 = b
    BY <1>1, <1>3, <1>5, <1>7
  <2>2. y[1] = t[a + 1 - 1] /\ y[Len(y)] = t[a + Len(y) - 1]
    BY <1>5, <2>1
  <2> QED BY <2>1, <2>2
<1>9. Len(x) <= 1 /\ Len(z) <= 1
  BY <1>1, <1>2, <1>5
<1>10. Len(x) = 0 /\ y = <<>> => z = <<>>
  BY <1>1, <1>2, <1>3, <1>5, <1>7
<1>11. Len(x) = 0 /\ y # <<>> => y[1] # "nl"
  BY <1>1, <1>2, <1>3, <1>5, <1>7, <1>8
<1>12. Len(z) = 0 /\ y # <<>> => y[Len(y)] # "nl"
  BY <1>1, <1>2, <1>3, <1>5, <1>7, <1>8
<1>13. Cut(x, y, z)
  BY <1>6, <1>9, <1>10, <1>11, <1>12 DEF Cut
<1> QED BY <1>5, <1>13

LEMMA TrimmedPreSeen ==
  ASSUME NEW t \in Clear PROVE TrimmedPre(t) \in Clear /\ Seen(TrimmedPre(t)) = TrimmedPre(Seen(t))
<1>1. PICK x \in Clear, y \in Clear, z \in Clear : t = (x \o y) \o z /\ Cut(x, y, z)
  BY PreInto
<1> DEFINE v == Seen(y)
<1>2. /\ x \in Closed /\ y \in Closed /\ z \in Closed
      /\ x \in Seq(Word) /\ y \in Seq(Word) /\ z \in Seq(Word) /\ x \o y \in Closed
  BY ClearHas, ClosedJoined
<1>3. Seen(x) = x /\ Seen(z) = z
  BY <1>1, <1>2, SolelySeen DEF Cut
<1>4. Seen(t) = Seen(x \o y) \o Seen(z) /\ Seen(x \o y) = Seen(x) \o v
  BY <1>1, <1>2, SeenJoined
<1>5. v \in Seq(Word) /\ (y = <<>> => v = <<>>)
  BY <1>2, SeenIs
<1>6. y # <<>> => v # <<>> /\ (y[1] # "nl" => v[1] # "nl") /\ (y[Len(y)] # "nl" => v[Len(v)] # "nl")
  BY SeenEnds DEF Ends
<1> HIDE DEF v
<1>7. Cut(x, v, z)
  BY <1>1, <1>5, <1>6 DEF Cut
<1>8. TrimmedPre(t) = y
  BY <1>1, <1>2, PreOf
<1>9. TrimmedPre((x \o v) \o z) = v
  BY <1>2, <1>5, <1>7, PreOf
<1> QED BY <1>3, <1>4, <1>8, <1>9 DEF v

(* What is seen of the text of an event is what is seen of the text that was *)
(* written, trimmed.                                                         *)
LEMMA EventTextSeen ==
  ASSUME NEW t \in Closed, NEW pre \in BOOLEAN
  PROVE  /\ EventText(t, pre) \in Clear
         /\ Seen(EventText(t, pre)) = PieceSeen([words |-> t, how |-> IF pre THEN "pre" ELSE "lines"])
<1> DEFINE o == RunOf(t).out
           b == Backslashed(t)
           piece == [words |-> t, how |-> IF pre THEN "pre" ELSE "lines"]
<1>1. t \in Seq(Word)
  BY ClosedHas
<1>2. Expanded(b) = o
  BY <1>1, ExpandedRun
<1>3. o \in Clear /\ Seen(o) = Seen(b)
  BY ClosedRuns
<1>4. EventText(t, pre) = IF pre THEN TrimmedPre(o) ELSE Trimmed(o)
  BY <1>2 DEF EventText
<1>5. piece.words = t /\ piece.how = IF pre THEN "pre" ELSE "lines"
  OBVIOUS
<1> HIDE DEF piece
<1>6. PieceSeen(piece) = IF pre THEN TrimmedPre(Seen(b)) ELSE Trimmed(Seen(b))
  BY <1>5 DEF PieceSeen
<1> HIDE DEF o, b
<1> QED BY <1>3, <1>4, <1>6, TrimmedSeen, TrimmedPreSeen DEF piece

(* A flattened sequence that goes on.                                        *)
Flats(seqs, at) ==
  /\ at[0] = <<>> /\ FlattenSeq(seqs) = at[Len(seqs)]
  /\ \A k \in 1 .. Len(seqs) : at[k] = at[k - 1] \o seqs[k]
LEMMA FlatGoes ==
  ASSUME NEW seqs \in Seq(Seq(Word)) PROVE \E at \in [0 .. Len(seqs) -> Seq(Word)] : Flats(seqs, at)
<1> DEFINE n == Len(seqs)
           S == Seq(Word)
           F == [j \in (1 .. n) \X S |-> j[2] \o seqs[j[1]]]
           Runs(g) == g = [i \in 1 .. n |-> IF i = 1 THEN seqs[i] ELSE g[i - 1] \o seqs[i]]
           flat == CHOOSE g : Runs(g)
<1>1. n \in Nat /\ <<>> \in S /\ (n = 0 => seqs = <<>>) /\ \A k \in 1 .. n : seqs[k] \in S
  OBVIOUS
<1>2. \A q \in S : \A t \in S : q \o t \in S
  OBVIOUS
<1>3. F \in [(1 .. n) \X S -> S] /\ \A k \in 1 .. n : \A q \in S : F[<<k, q>>] = q \o seqs[k]
  <2> HIDE DEF n, S
  <2> QED BY <1>1, <1>2
<1>4. \A t \in S : <<>> \o t = t
  OBVIOUS
<1>5. FlattenSeq(seqs) = IF n = 0 THEN seqs ELSE flat[n]
  BY DEF FlattenSeq
<1> HIDE DEF n, F, S
<1>6. PICK f \in [0 .. n -> S] : Goes(f, n, <<>>, F)
  BY <1>1, <1>3, LoopGoes
<1>7. f[0] = <<>> /\ \A k \in 1 .. n : f[k] = f[k - 1] \o seqs[k]
  <2>1. ASSUME NEW k \in 1 .. n PROVE f[k] = f[k - 1] \o seqs[k]
    <3>1. k - 1 \in 0 .. n /\ f[k - 1] \in S
      BY <1>1
    <3> QED BY <1>3, <1>6, <3>1 DEF Goes
  <2> QED BY <1>6, <2>1 DEF Goes
<1>8. Runs([k \in 1 .. n |-> f[k]])
  <2> DEFINE g == [k \in 1 .. n |-> f[k]]
  <2>1. ASSUME NEW k \in 1 .. n PROVE g[k] = IF k = 1 THEN seqs[k] ELSE g[k - 1] \o seqs[k]
    <3>1. CASE k = 1
      <4>1. f[1] = <<>> \o seqs[1]
        <5>1. 1 - 1 = 0
          OBVIOUS
        <5> QED BY <1>7, <3>1, <5>1
      <4> QED BY <1>1, <1>4, <3>1, <4>1
    <3>2. CASE k # 1
      <4>1. k - 1 \in 1 .. n
        BY <1>1, <3>2
      <4> QED BY <1>7, <3>2, <4>1
    <3> QED BY <3>1, <3>2
  <2>2. g = [k \in 1 .. n |-> g[k]]
    OBVIOUS
  <2> HIDE DEF g
  <2> QED BY <2>1, <2>2 DEF g
<1>9. Runs(flat)
  BY <1>8
<1> HIDE DEF flat
<1>10. \A k \in 1 .. n : flat[k] = IF k = 1 THEN seqs[k] ELSE flat[k - 1] \o seqs[k]
  BY <1>9, Zenon
<1> DEFINE So == {k \in 0 .. n : k = 0 \/ flat[k] = f[k]}
<1>11. 0 \in So
  BY <1>1
<1>12. ASSUME NEW k \in 1 .. n, k - 1 \in So PROVE k \in So
  <2>1. k \in 0 .. n
    BY <1>1
  <2>2. CASE k = 1
    <3>1. f[1] = <<>> \o seqs[1]
      <4>1. 1 - 1 = 0
        OBVIOUS
      <4> QED BY <1>7, <2>2, <4>1
    <3> QED BY <1>1, <1>4, <1>10, <2>1, <2>2, <3>1
  <2>3. CASE k # 1
    <3>1. k - 1 # 0
      BY <1>1, <2>3
    <3>2. flat[k - 1] = f[k - 1]
      BY <1>12, <3>1
    <3> QED BY <1>7, <1>10, <2>1, <2>3, <3>2
  <2> QED BY <2>2, <2>3
<1> HIDE DEF So
<1>13. \A k \in 0 .. n : k \in So
  BY <1>1, <1>11, <1>12, UpTo
<1>14. FlattenSeq(seqs) = f[n]
  <2>1. n = 0 => seqs = f[n]
    BY <1>1, <1>7
  <2>2. n # 0 => flat[n] = f[n]
    BY <1>1, <1>13 DEF So
  <2> QED BY <1>5, <2>1, <2>2
<1>15. Flats(seqs, f)
  BY <1>7, <1>14 DEF Flats, n
<1> QED BY <1>15 DEF n, S

LEMMA FlattenMore ==
  ASSUME NEW seqs \in Seq(Seq(Word)), NEW x \in Seq(Word)
  PROVE  FlattenSeq(Append(seqs, x)) = FlattenSeq(seqs) \o x /\ FlattenSeq(seqs) \in Seq(Word)
<1> DEFINE u == Append(seqs, x)
           n == Len(seqs)
<1>1. n \in Nat /\ u \in Seq(Seq(Word)) /\ Len(u) = n + 1 /\ u[n + 1] = x /\ \A k \in 1 .. n : u[k] = seqs[k]
  OBVIOUS
<1> HIDE DEF u
<1>2. PICK f \in [0 .. Len(seqs) -> Seq(Word)] : Flats(seqs, f)
  BY FlatGoes
<1>3. PICK g \in [0 .. Len(u) -> Seq(Word)] : Flats(u, g)
  BY <1>1, FlatGoes
<1> DEFINE So == {k \in 0 .. n : g[k] = f[k]}
<1>4. 0 \in So
  BY <1>1, <1>2, <1>3 DEF Flats
<1>5. ASSUME NEW k \in 1 .. n, k - 1 \in So PROVE k \in So
  <2>1. g[k - 1] = f[k - 1] /\ k \in 0 .. n /\ k \in 1 .. Len(u)
    BY <1>1, <1>5
  <2> QED BY <1>1, <1>2, <1>3, <2>1 DEF Flats
<1> HIDE DEF So
<1>6. \A k \in 0 .. n : k \in So
  BY <1>1, <1>4, <1>5, UpTo
<1>7. g[n] = f[n] /\ f[n] \in Seq(Word)
  BY <1>1, <1>2, <1>6 DEF So
<1>8. n + 1 \in 1 .. Len(u) /\ (n + 1) - 1 = n
  BY <1>1
<1>9. g[n + 1] = g[(n + 1) - 1] \o u[n + 1]
  BY <1>3, <1>8 DEF Flats
<1> QED BY <1>1, <1>2, <1>3, <1>7, <1>8, <1>9 DEF Flats, u

-----------------------------------------------------------------------------
(* The text of an event and the pieces it was written with.                  *)

Piece == [words : Seq(Word), how : {"raw", "pre", "lines"}]
Clean(pieces) == \A i \in DOMAIN pieces : ~HasBareAmpersand(pieces[i].words)
SeenOf(pieces) == FlattenSeq(Each(pieces, PieceSeen))
Hears(text, words, pieces) ==
  /\ RunOf(text) = RunOf(words)
  /\ Clean(pieces) =>
       words \in Closed /\ text = RunOf(words).out /\ Seen(Backslashed(words)) = SeenOf(pieces)

LEMMA PieceIs == ASSUME NEW piece \in Piece PROVE PieceSeen(piece) \in Seq(Word)
<1> DEFINE t == piece.words
           s == Seen(Backslashed(t))
<1>1. t \in Seq(Word)
  BY DEF Piece
<1> HIDE DEF t
<1>2. s \in Seq(Word)
  BY <1>1, BackslashedIs, SeenIs
<1> HIDE DEF s
<1>3. Trimmed(s) \in Seq(Word) /\ TrimmedPre(s) \in Seq(Word)
  BY <1>2, TrimmedIs, TrimmedPreIs
<1>4. PieceSeen(piece) = CASE piece.how = "raw" -> s [] piece.how = "pre" -> TrimmedPre(s) [] OTHER -> Trimmed(s)
  BY DEF PieceSeen, s, t
<1> QED BY <1>2, <1>3, <1>4

LEMMA SeenOfMore ==
  ASSUME NEW pieces \in Seq(Piece), NEW piece \in Piece
  PROVE  SeenOf(Append(pieces, piece)) = SeenOf(pieces) \o PieceSeen(piece) /\ SeenOf(<<>>) = <<>>
<1> DEFINE more == Append(pieces, piece)
           a == [i \in DOMAIN pieces |-> PieceSeen(pieces[i])]
           b == [i \in DOMAIN more |-> PieceSeen(more[i])]
           x == PieceSeen(piece)
           n == Len(pieces)
<1>1. /\ n \in Nat /\ DOMAIN pieces = 1 .. n /\ DOMAIN more = 1 .. n + 1 /\ more[n + 1] = piece
      /\ \A k \in 1 .. n : more[k] = pieces[k] /\ pieces[k] \in Piece
  OBVIOUS
<1>2. SeenOf(pieces) = FlattenSeq(a) /\ SeenOf(more) = FlattenSeq(b)
  BY DEF SeenOf, Each
<1> HIDE DEF more, n
<1>3. \A k \in 1 .. n : PieceSeen(pieces[k]) \in Seq(Word)
  BY <1>1, PieceIs
<1>4. x \in Seq(Word)
  BY PieceIs
<1>5. a \in Seq(Seq(Word)) /\ Len(a) = n /\ \A k \in 1 .. n : a[k] = PieceSeen(pieces[k])
  BY <1>1, <1>3
<1>6. DOMAIN b = 1 .. n + 1 /\ b[n + 1] = x /\ \A k \in 1 .. n : b[k] = PieceSeen(pieces[k])
  BY <1>1
<1>7. b = [k \in 1 .. n + 1 |-> b[k]]
  BY <1>1
<1> HIDE DEF a, b, x
<1>8. b = Append(a, x)
  <2> DEFINE c == Append(a, x)
             S == Seq(Word)
  <2>1. /\ c \in Seq(S) /\ Len(c) = n + 1 /\ c[n + 1] = x
        /\ \A k \in 1 .. n : c[k] = a[k]
    <3>1. a \in Seq(S) /\ x \in S /\ Len(a) = n
      BY <1>4, <1>5
    <3> HIDE DEF S
    <3> QED BY <3>1
  <2>2. c = [k \in 1 .. n + 1 |-> c[k]]
    <3> HIDE DEF c, S
    <3> QED BY <2>1
  <2> HIDE DEF c, S
  <2>3. \A k \in 1 .. n + 1 : b[k] = c[k]
    <3>1. \A k \in 1 .. n + 1 : k \in 1 .. n \/ k = n + 1
      BY <1>1
    <3> QED BY <1>5, <1>6, <2>1, <3>1
  <2>4. b = c
    BY <1>7, <2>2, <2>3
  <2> QED BY <2>4 DEF c
<1>9. FlattenSeq(Append(a, x)) = FlattenSeq(a) \o x
  BY <1>4, <1>5, FlattenMore
<1>10. SeenOf(<<>>) = <<>>
  <2>1. DOMAIN <<>> = {} /\ Len(<<>>) = 0
    OBVIOUS
  <2>2. Each(<<>>, PieceSeen) = <<>>
    BY <2>1 DEF Each
  <2>3. FlattenSeq(<<>>) = <<>>
    BY <2>1 DEF FlattenSeq
  <2> QED BY <2>2, <2>3 DEF SeenOf
<1> QED BY <1>2, <1>8, <1>9, <1>10 DEF more, x

LEMMA NothingHeard == Hears(<<>>, <<>>, <<>>)
<1>1. RunOf(<<>>) = [state |-> "text", out |-> <<>>]
  <2>1. [state |-> "text", out |-> <<>>] \in RunT
    BY DEF RunT
  <2> QED BY <2>1, RunNone DEF RunOf
<1>2. SeenOf(<<>>) = <<>>
  <2>1. <<>> \in Seq(Piece)
    OBVIOUS
  <2>2. [words |-> <<>>, how |-> "raw"] \in Piece
    BY DEF Piece
  <2> QED BY <2>1, <2>2, SeenOfMore
<1>3. Seen(Backslashed(<<>>)) = <<>>
  <2>1. Backslashed(<<>>) = <<>>
    BY DEF Backslashed
  <2> QED BY <2>1, Emptied
<1> QED BY <1>1, <1>2, <1>3, ClosedHas DEF Hears

(* A text that is said by itself.                                            *)
LEMMA TextHeard ==
  ASSUME NEW t \in Seq(Word), NEW pre \in BOOLEAN
  PROVE  LET piece == [words |-> t, how |-> IF pre THEN "pre" ELSE "lines"]
             text == EventText(t, pre)
         IN piece \in Piece /\ <<piece>> \in Seq(Piece) /\ Hears(text, text, <<piece>>)
<1> DEFINE piece == [words |-> t, how |-> IF pre THEN "pre" ELSE "lines"]
           text == EventText(t, pre)
<1>1. piece \in Piece /\ piece.words = t
  BY DEF Piece
<1> HIDE DEF piece
<1>2. ASSUME Clean(<<piece>>) PROVE text \in Closed /\ text = RunOf(text).out /\ Seen(Backslashed(text)) = SeenOf(<<piece>>)
  <2>1. DOMAIN <<piece>> = {1} /\ <<piece>>[1] = piece
    OBVIOUS
  <2>2. t \in Closed
    BY <1>1, <1>2, <2>1 DEF Clean, Closed
  <2>3. text \in Clear /\ Seen(text) = PieceSeen(piece)
    BY <2>2, EventTextSeen DEF piece
  <2>4. text \in Closed
    BY <2>3, ClearHas
  <2> HIDE DEF text
  <2>5. text = RunOf(text).out /\ Seen(RunOf(text).out) = Seen(Backslashed(text))
    BY <2>3, <2>4, ClosedRuns
  <2>6. SeenOf(<<piece>>) = PieceSeen(piece)
    <3>1. <<>> \in Seq(Piece) /\ Append(<<>>, piece) = <<piece>>
      OBVIOUS
    <3>2. SeenOf(Append(<<>>, piece)) = SeenOf(<<>>) \o PieceSeen(piece) /\ SeenOf(<<>>) = <<>>
      BY <1>1, <3>1, SeenOfMore
    <3>3. \A s \in Seq(Word) : <<>> \o s = s
      OBVIOUS
    <3> QED BY <1>1, <3>1, <3>2, <3>3, PieceIs
  <2> QED BY <2>3, <2>4, <2>5, <2>6
<1>3. <<piece>> \in Seq(Piece)
  BY <1>1
<1> HIDE DEF text
<1> QED BY <1>1, <1>2, <1>3 DEF Hears, piece, text

(* Words that are sung after a text.                                         *)
LEMMA WordsHeard ==
  ASSUME NEW text \in Seq(Word), NEW words \in Seq(Word), NEW pieces \in Seq(Piece), NEW t \in Seq(Word),
         Hears(text, words, pieces)
  PROVE  LET piece == [words |-> t, how |-> "raw"]
         IN /\ piece \in Piece /\ Append(pieces, piece) \in Seq(Piece)
            /\ Expanded(Backslashed(text \o t)) = Expanded(Backslashed(words \o t))
            /\ Hears(Expanded(Backslashed(text \o t)), words \o t, Append(pieces, piece))
<1> DEFINE piece == [words |-> t, how |-> "raw"]
           more == Append(pieces, piece)
           u == text \o t
           v == words \o t
           o == RunOf(v).out
<1>1. piece \in Piece /\ piece.words = t /\ PieceSeen(piece) = Seen(Backslashed(t))
  BY DEF Piece, PieceSeen
<1> HIDE DEF piece
<1>2. more \in Seq(Piece) /\ u \in Seq(Word) /\ v \in Seq(Word)
  BY <1>1
<1>3. RunOf(u) = RunOf(v)
  <2> DEFINE a == [state |-> "text", out |-> <<>>]
  <2>1. a \in RunT
    BY DEF RunT
  <2>2. RunFrom(a, text) = RunFrom(a, words)
    BY DEF Hears, RunOf
  <2> HIDE DEF a
  <2>3. RunFrom(a, u) = RunFrom(a, v)
    BY <2>1, <2>2, RunJoined
  <2> QED BY <2>3 DEF RunOf, a
<1>4. Expanded(Backslashed(u)) = o /\ Expanded(Backslashed(v)) = o
  <2> HIDE DEF u, v
  <2> QED BY <1>2, <1>3, ExpandedRun
<1>5. RunOf(o) = RunOf(v)
  <2> HIDE DEF v
  <2> QED BY <1>2, RunAgain
<1>6. ASSUME Clean(more)
      PROVE  v \in Closed /\ Seen(Backslashed(v)) = SeenOf(more)
  <2>1. /\ \A i \in DOMAIN pieces : i \in DOMAIN more /\ more[i] = pieces[i]
        /\ Len(pieces) + 1 \in DOMAIN more /\ more[Len(pieces) + 1] = piece
    OBVIOUS
  <2>2. Clean(pieces) /\ ~HasBareAmpersand(t)
    BY <1>1, <1>6, <2>1 DEF Clean
  <2>3. t \in Closed /\ words \in Closed /\ Seen(Backslashed(words)) = SeenOf(pieces)
    BY <2>2 DEF Hears, Closed
  <2>4. v \in Closed
    BY <2>3, ClosedJoined
  <2>5. Backslashed(v) = Backslashed(words) \o Backslashed(t)
    BY BackJoined
  <2>6. Backslashed(words) \in Closed /\ Backslashed(t) \in Seq(Word)
    BY <2>3, ClosedRuns, BackslashedIs
  <2>7. Seen(Backslashed(v)) = SeenOf(pieces) \o PieceSeen(piece)
    BY <1>1, <2>3, <2>5, <2>6, SeenJoined
  <2> QED BY <1>1, <2>4, <2>7, SeenOfMore
<1> HIDE DEF u, v, o, more
<1>7. Hears(o, v, more)
  BY <1>5, <1>6 DEF Hears, o
<1> QED BY <1>1, <1>2, <1>4, <1>7 DEF piece, more, u, v

(* What is heard is seen in the text.                                        *)
LEMMA HeardSeen ==
  ASSUME NEW text, NEW words, NEW pieces, Hears(text, words, pieces), Clean(pieces)
  PROVE  Seen(text) = SeenOf(pieces)
BY ClosedRuns DEF Hears
=============================================================================
