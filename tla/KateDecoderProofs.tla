------------------------- MODULE KateDecoderProofs -------------------------
(* What the decoder guarantees.  KateHeaders: that headers come first.       *)
(* KateDecoder: what holds whatever packets reach it.  KateDecoderList: that *)
(* the array, which is compacted in place, holds the set of active events.   *)
EXTENDS KateDecoderList, KateHeaders, WellFoundedInduction, TLAPS

ListOK == TypeOK /\ ActiveTogether /\ ActiveOnce

LEMMA RegisteredType ==
  ASSUME TypeOK, NEW p \in Packets
  PROVE  /\ Registered(active, p) \subseteq {e \in Event : e.id >= 0 /\ 0 <= e.start}
         /\ EventOf(p) \in Event
BY PacketsAssumption DEF TypeOK, Registered, Entry, EventOf, Event

LEMMA RegisteredOnce ==
  ASSUME ActiveOnce, NEW p \in Packets
  PROVE  \A a, b \in Registered(active, p) : a.id = b.id => a = b
<1>1. CASE p.id < 0 \/ Known(active, p.id)
  BY <1>1 DEF ActiveOnce, Registered
<1>2. CASE ~(p.id < 0 \/ Known(active, p.id))
  <2>1. \A a \in active : a.id # p.id
    BY <1>2 DEF Known
  <2>2. Entry(p).id = p.id
    BY DEF Entry
  <2> QED BY <1>2, <2>1, <2>2 DEF ActiveOnce, Registered
<1> QED BY <1>1, <1>2

(* The lists a step can leave are pruned ones, of sound ones.                *)
LEMMA FlushedOK ==
  ASSUME NEW S, S \subseteq {e \in Event : e.id >= 0 /\ 0 <= e.start},
         \A a, b \in S : a.id = b.id => a = b,
         NEW g \in Int, active' = Flushed(S, g), event' \in Event
  PROVE  ListOK'
<1>1. \A a \in active' : a \in S /\ a.start <= g /\ g <= a.end
  BY DEF Flushed
<1>2. \A a \in S : a \in Event /\ a.id >= 0 /\ 0 <= a.start
  OBVIOUS
<1>3. \A a, b \in active' : a.start <= b.end
  <2> SUFFICES ASSUME NEW a \in active', NEW b \in active' PROVE a.start <= b.end
    OBVIOUS
  <2>1. a.start \in Int /\ b.end \in Int
    BY <1>1, <1>2 DEF Event
  <2> QED BY <1>1, <2>1
<1>4. TypeOK'
  BY <1>1, <1>2, <1>3 DEF TypeOK
<1>5. ActiveTogether' /\ ActiveOnce'
  BY <1>1, <1>3 DEF ActiveTogether, ActiveOnce
<1> QED BY <1>4, <1>5 DEF ListOK

LEMMA ListOKInit == Init => ListOK
BY DEF Init, ListOK, TypeOK, ActiveTogether, ActiveOnce, NoEvent, Event

LEMMA ListOKStep == ListOK /\ [Next]_vars => ListOK'
<1> SUFFICES ASSUME ListOK, [Next]_vars PROVE ListOK'
  OBVIOUS
<1>1. NoEvent \in Event
  BY DEF NoEvent, Event
<1>2. ASSUME UNCHANGED active, event' \in Event
      PROVE  ListOK'
  BY <1>2 DEF ListOK, TypeOK, ActiveTogether, ActiveOnce
<1>3. ASSUME NEW p \in Packets, PacketIn(p) \/ DecodeFails(p)
      PROVE  ListOK'
  <2>1. CASE Deliver(p)
    <3>1. p.start \in Int
      BY PacketsAssumption
    <3> QED BY <2>1, <3>1, RegisteredType, RegisteredOnce, FlushedOK DEF Deliver, ListOK
  <2>2. CASE IgnoreRepeat(p) \/ DecodeFails(p) \/ DecodeOther(p)
    BY <1>1, <1>2, <2>2 DEF IgnoreRepeat, DecodeFails, DecodeOther
  <2> QED BY <1>3, <2>1, <2>2 DEF PacketIn, DecodeText, DecodeRepeat
<1>4. CASE Seek
  <2>1. active \subseteq {e \in Event : e.id >= 0 /\ 0 <= e.start} /\ event' \in Event
    BY <1>4 DEF Seek, ListOK, TypeOK
  <2> QED BY <1>4, <2>1, FlushedOK DEF Seek, ListOK, ActiveOnce
<1>5. CASE UNCHANGED vars
  BY <1>2, <1>5 DEF vars, ListOK, TypeOK
<1> QED BY <1>3, <1>4, <1>5 DEF Next

(* The list of active events is sound whatever packets arrive: the state is  *)
(* well typed, all of the events have a granule in common, no id is repeated.*)
THEOREM ListSound == Spec => [](TypeOK /\ ActiveTogether /\ ActiveOnce)
<1>1. Init => ListOK
  BY ListOKInit
<1>2. ListOK /\ [Next]_vars => ListOK'
  BY ListOKStep
<1>3. ListOK => TypeOK /\ ActiveTogether /\ ActiveOnce
  BY DEF ListOK
<1> QED BY <1>1, <1>2, <1>3, PTL DEF Spec

-----------------------------------------------------------------------------
(* Induction over the iterations of a loop.                                  *)

Below == {p \in Nat \X Nat : p[1] < p[2]}

LEMMA BelowWellFounded == IsWellFoundedOn(Below, Nat)
BY NatLessThanWellFounded DEF OpToRel, Below

LEMMA LeastNatural ==
  ASSUME NEW S, S \subseteq Nat, S # {}
  PROVE  \E x \in S : \A y \in S : x <= y
<1>1. PICK x \in S : \A y \in S : <<y, x>> \notin Below
  BY BelowWellFounded, WFMin, Zenon
<1>2. \A y \in S : ~ (y < x)
  BY <1>1 DEF Below
<1> QED BY <1>2

(* What holds at first, and of an iteration when it does of the one before,  *)
(* holds of all: for a set, as the provers take no operator.                 *)
LEMMA AllNaturals ==
  ASSUME NEW S, 0 \in S, \A n \in Nat : n \in S => n + 1 \in S
  PROVE  \A n \in Nat : n \in S
<1> SUFFICES ASSUME Nat \ S # {} PROVE FALSE
  OBVIOUS
<1>1. PICK x \in Nat \ S : \A y \in Nat \ S : x <= y
  BY LeastNatural
<1>2. x # 0 /\ x - 1 \in Nat
  BY <1>1
<1>3. x - 1 \in S
  BY <1>1, <1>2
<1> QED BY <1>1, <1>2, <1>3

(* A function that is stepped from a value is what its equations say.        *)
Starts(h, n, a, F) ==
  /\ h[0] = a
  /\ \A k \in 1 .. n : h[k] = F[h[k - 1]]

LEMMA StartsExist ==
  ASSUME NEW S, NEW a \in S, NEW F \in [S -> S]
  PROVE  \A n \in Nat : \E h \in [0 .. n -> S] : Starts(h, n, a, F)
<1> DEFINE Some == {n \in Nat : \E h \in [0 .. n -> S] : Starts(h, n, a, F)}
<1>1. 0 \in Some
  <2>1. [k \in 0 .. 0 |-> a] \in [0 .. 0 -> S]
    OBVIOUS
  <2>2. Starts([k \in 0 .. 0 |-> a], 0, a, F)
    BY DEF Starts
  <2> QED BY <2>1, <2>2
<1>2. ASSUME NEW n \in Nat, n \in Some PROVE n + 1 \in Some
  <2>1. PICK h \in [0 .. n -> S] : Starts(h, n, a, F)
    BY <1>2
  <2> DEFINE g == [k \in 0 .. n + 1 |-> IF k = n + 1 THEN F[h[n]] ELSE h[k]]
  <2>2. \A k \in 0 .. n + 1 : k = n + 1 \/ k \in 0 .. n
    OBVIOUS
  <2>3. g \in [0 .. n + 1 -> S]
    BY <2>2
  <2>4. g[0] = a
    BY <2>1 DEF Starts
  <2>5. ASSUME NEW k \in 1 .. n + 1 PROVE g[k] = F[g[k - 1]]
    <3>1. CASE k = n + 1
      BY <3>1
    <3>2. CASE k \in 1 .. n
      BY <2>1, <3>2 DEF Starts
    <3> QED BY <3>1, <3>2
  <2>6. Starts(g, n + 1, a, F)
    BY <2>4, <2>5 DEF Starts
  <2> HIDE DEF g
  <2> QED BY <2>3, <2>6
<1> HIDE DEF Some
<1>3. \A n \in Nat : n \in Some
  BY <1>1, <1>2, AllNaturals
<1> QED BY <1>3 DEF Some

LEMMA StartsAgree ==
  ASSUME NEW F, NEW a, NEW g, NEW h, NEW n \in Nat, NEW m \in Nat,
         Starts(g, n, a, F), Starts(h, m, a, F)
  PROVE  \A k \in Nat : k <= n /\ k <= m => g[k] = h[k]
<1> DEFINE Same == {k \in Nat : k <= n /\ k <= m => g[k] = h[k]}
<1>1. 0 \in Same
  BY DEF Starts
<1>2. ASSUME NEW k \in Nat, k \in Same PROVE k + 1 \in Same
  <2> SUFFICES ASSUME k + 1 <= n, k + 1 <= m PROVE g[k + 1] = h[k + 1]
    OBVIOUS
  <2>1. g[k] = h[k] /\ k + 1 \in 1 .. n /\ k + 1 \in 1 .. m /\ (k + 1) - 1 = k
    BY <1>2
  <2>2. g[k + 1] = F[g[k]] /\ h[k + 1] = F[h[k]]
    BY <2>1 DEF Starts
  <2> QED BY <2>1, <2>2
<1> HIDE DEF Same
<1>3. \A k \in Nat : k \in Same
  BY <1>1, <1>2, AllNaturals
<1> QED BY <1>3 DEF Same

IsRun(f, a, F) == f[0] = a /\ \A k \in Nat : k # 0 => f[k] = F[f[k - 1]]

LEMMA Stepped ==
  ASSUME NEW S, NEW a \in S, NEW F \in [S -> S]
  PROVE  \E f \in [Nat -> S] : IsRun(f, a, F)
<1> DEFINE upto(n) == CHOOSE h \in [0 .. n -> S] : Starts(h, n, a, F)
           f == [n \in Nat |-> upto(n)[n]]
<1>1. \A n \in Nat : upto(n) \in [0 .. n -> S] /\ Starts(upto(n), n, a, F)
  BY StartsExist
<1> HIDE DEF upto
<1>2. f \in [Nat -> S]
  BY <1>1
<1>3. ASSUME NEW k \in Nat, k # 0 PROVE f[k] = F[f[k - 1]]
  <2>1. k - 1 \in Nat /\ k \in 1 .. k /\ k - 1 <= k
    BY <1>3
  <2>2. upto(k)[k] = F[upto(k)[k - 1]]
    BY <1>1, <2>1 DEF Starts
  <2>3. upto(k)[k - 1] = upto(k - 1)[k - 1]
    BY <1>1, <2>1, StartsAgree
  <2> QED BY <2>1, <2>2, <2>3
<1>4. f[0] = a
  BY <1>1 DEF Starts
<1> HIDE DEF f
<1>5. IsRun(f, a, F)
  BY <1>3, <1>4 DEF IsRun
<1> QED BY <1>2, <1>5

-----------------------------------------------------------------------------
(* The loop of kate_decode_state_flush_events.                               *)

LoopState(T) == [slots : Seq(T), n : Nat \ {0}]

LEMMA OverwrittenIs ==
  ASSUME NEW T, NEW s \in Seq(T), NEW n \in 1 .. Len(s)
  PROVE  /\ Overwritten(s, n) \in Seq(T)
         /\ Len(Overwritten(s, n)) = Len(s) - 1
         /\ \A i \in 1 .. Len(s) - 1 :
              Overwritten(s, n)[i] = IF i = n THEN s[Len(s)] ELSE s[i]
<1>1. Len(s) \in Nat /\ Len(s) - 1 \in Nat /\ s[Len(s)] \in T
  OBVIOUS
<1>2. \A i \in 1 .. Len(s) - 1 : i \in 1 .. Len(s) /\ s[i] \in T
  BY <1>1
<1>3. Overwritten(s, n) \in [1 .. Len(s) - 1 -> T]
  BY <1>1, <1>2 DEF Overwritten
<1> QED BY <1>1, <1>3 DEF Overwritten

LEMMA LookedType ==
  ASSUME NEW T, NEW at \in LoopState(T), NEW g
  PROVE  Looked(at, g) \in LoopState(T)
<1> USE DEF LoopState
<1>1. at.slots \in Seq(T) /\ at.n \in Nat \ {0}
  OBVIOUS
<1>2. CASE at.n > Len(at.slots)
  BY <1>2 DEF Looked
<1>3. CASE at.n <= Len(at.slots) /\ Outside(at.slots[at.n], g)
  <2>1. at.n \in 1 .. Len(at.slots)
    BY <1>1, <1>3
  <2>2. Overwritten(at.slots, at.n) \in Seq(T)
    BY <1>1, <2>1, OverwrittenIs
  <2>3. Looked(at, g) = [slots |-> Overwritten(at.slots, at.n), n |-> at.n]
    BY <1>1, <1>3 DEF Looked, Again
  <2> QED BY <1>1, <2>2, <2>3
<1>4. CASE at.n <= Len(at.slots) /\ ~ Outside(at.slots[at.n], g)
  <2>1. Looked(at, g) = [at EXCEPT !.n = at.n + 1]
    BY <1>1, <1>4 DEF Looked
  <2> QED BY <1>1, <2>1
<1> QED BY <1>1, <1>2, <1>3, <1>4

(* The iterations there are, and what is left after the last of them.        *)
IsLoop(at, s, g) ==
  /\ at[0] = [slots |-> s, n |-> 1]
  /\ \A k \in Nat : at[k + 1] = Looked(at[k], g)
  /\ Compacted(s, g) = at[Len(s)].slots

LEMMA Iterations ==
  ASSUME NEW T, NEW s \in Seq(T), NEW g
  PROVE  \E at \in [Nat -> LoopState(T)] : IsLoop(at, s, g)
<1> DEFINE a == [slots |-> s, n |-> 1]
           F == [x \in LoopState(T) |-> Looked(x, g)]
           Runs(f) == f = [k \in Nat |-> IF k = 0 THEN a ELSE Looked(f[k - 1], g)]
           loop == CHOOSE f : Runs(f)
<1>1. a \in LoopState(T)
  BY DEF LoopState
<1>2. F \in [LoopState(T) -> LoopState(T)]
  BY LookedType
<1> HIDE DEF F, a
<1>3. PICK f \in [Nat -> LoopState(T)] : IsRun(f, a, F)
  BY <1>1, <1>2, Stepped, Zenon
<1>4. \A k \in Nat : f[k] = IF k = 0 THEN a ELSE Looked(f[k - 1], g)
  <2>1. \A k \in Nat : k # 0 => k - 1 \in Nat
    OBVIOUS
  <2> QED BY <1>3, <2>1 DEF F, IsRun
<1>5. Runs(f)
  <2>1. f = [k \in Nat |-> f[k]]
    OBVIOUS
  <2>2. [k \in Nat |-> f[k]] = [k \in Nat |-> IF k = 0 THEN a ELSE Looked(f[k - 1], g)]
    BY <1>4
  <2> QED BY <2>1, <2>2
<1>6. Runs(loop)
  BY <1>5, Zenon
<1>7. Compacted(s, g) = loop[Len(s)].slots
  BY DEF Compacted, a
<1> HIDE DEF loop
<1>8. loop[0] = a /\ \A k \in Nat : loop[k + 1] = Looked(loop[k], g)
  BY <1>6
<1>9. \A k \in Nat : k \in {i \in Nat : loop[i] \in LoopState(T)}
  <2> DEFINE Typed == {i \in Nat : loop[i] \in LoopState(T)}
  <2>1. 0 \in Typed
    BY <1>1, <1>8
  <2>2. ASSUME NEW k \in Nat, k \in Typed PROVE k + 1 \in Typed
    <3>1. loop[k] \in LoopState(T) /\ loop[k + 1] = Looked(loop[k], g)
      BY <1>8, <2>2
    <3>2. Looked(loop[k], g) \in LoopState(T)
      BY <3>1, LookedType
    <3> QED BY <3>1, <3>2
  <2> HIDE DEF Typed
  <2> QED BY <2>1, <2>2, AllNaturals DEF Typed
<1>10. loop \in [Nat -> LoopState(T)]
  BY <1>6, <1>9
<1>11. IsLoop(loop, s, g)
  BY <1>7, <1>8 DEF a, IsLoop
<1> QED BY <1>10, <1>11

(* After k iterations on the array s: nothing has come in that was not there,*)
(* nothing has gone that contains g, nothing is there twice, and what has    *)
(* been gone past contains g.                                                *)
LoopInvariant(at, s, g, k) ==
  /\ k <= Len(s) => Len(at.slots) + 1 + k = Len(s) + at.n
  /\ \A i \in 1 .. Len(at.slots) : \E j \in 1 .. Len(s) : at.slots[i] = s[j]
  /\ \A j \in 1 .. Len(s) :
       ~ Outside(s[j], g) => \E i \in 1 .. Len(at.slots) : at.slots[i] = s[j]
  /\ \A i, j \in 1 .. Len(at.slots) : at.slots[i] = at.slots[j] => i = j
  /\ \A i \in 1 .. Len(at.slots) : i < at.n => ~ Outside(at.slots[i], g)

LEMMA LoopStep ==
  ASSUME NEW T, NEW s \in Seq(T), NEW g, NEW at \in LoopState(T), NEW k \in Nat,
         LoopInvariant(at, s, g, k)
  PROVE  LoopInvariant(Looked(at, g), s, g, k + 1)
<1>1. PICK r \in Seq(T) : r = at.slots
  BY DEF LoopState
<1>2. PICK n \in Nat \ {0} : n = at.n
  BY DEF LoopState
<1>3. /\ k <= Len(s) => Len(r) + 1 + k = Len(s) + n
      /\ \A i \in 1 .. Len(r) : \E j \in 1 .. Len(s) : r[i] = s[j]
      /\ \A j \in 1 .. Len(s) :
           ~ Outside(s[j], g) => \E i \in 1 .. Len(r) : r[i] = s[j]
      /\ \A i, j \in 1 .. Len(r) : r[i] = r[j] => i = j
      /\ \A i \in 1 .. Len(r) : i < n => ~ Outside(r[i], g)
  BY <1>1, <1>2 DEF LoopInvariant
<1>4. Len(s) \in Nat /\ Len(r) \in Nat
  OBVIOUS
<1>5. CASE n > Len(r)
  <2>1. Looked(at, g) = at
    BY <1>1, <1>2, <1>5 DEF Looked
  <2>2. ~ (k + 1 <= Len(s))
    BY <1>3, <1>4, <1>5
  <2> QED BY <2>1, <2>2 DEF LoopInvariant
<1>6. CASE n <= Len(r) /\ Outside(r[n], g)
  <2>1. n \in 1 .. Len(r)
    BY <1>4, <1>6
  <2>2. PICK o \in Seq(T) : o = Overwritten(r, n)
    BY <2>1, OverwrittenIs
  <2>3. /\ Len(o) = Len(r) - 1
        /\ \A i \in 1 .. Len(o) : o[i] = IF i = n THEN r[Len(r)] ELSE r[i]
    BY <2>1, <2>2, OverwrittenIs
  <2>4. Looked(at, g).slots = o /\ Looked(at, g).n = n
    BY <1>1, <1>2, <1>4, <1>6, <2>2 DEF Looked, Again
  <2>5. \A i \in 1 .. Len(o) : i \in 1 .. Len(r) /\ i # Len(r)
    BY <1>4, <2>3
  <2>6. Len(r) \in 1 .. Len(r)
    BY <1>4, <2>1
  <2>7. \A i \in 1 .. Len(o) : \E j \in 1 .. Len(s) : o[i] = s[j]
    BY <1>3, <2>3, <2>5, <2>6
  <2>8. ASSUME NEW j \in 1 .. Len(s), ~ Outside(s[j], g)
        PROVE  \E i \in 1 .. Len(o) : o[i] = s[j]
    <3>1. PICK i \in 1 .. Len(r) : r[i] = s[j]
      BY <1>3, <2>8
    <3>2. i # n
      BY <1>6, <2>8, <3>1
    <3>3. CASE i = Len(r)
      <4>1. n \in 1 .. Len(o)
        BY <1>4, <2>1, <2>3, <3>2, <3>3
      <4> QED BY <2>3, <3>1, <3>3, <4>1
    <3>4. CASE i # Len(r)
      <4>1. i \in 1 .. Len(o)
        BY <1>4, <2>3, <3>4
      <4> QED BY <2>3, <3>1, <3>2, <4>1
    <3> QED BY <3>3, <3>4
  <2>9. ASSUME NEW i \in 1 .. Len(o), NEW j \in 1 .. Len(o), o[i] = o[j] PROVE i = j
    BY <1>3, <2>3, <2>5, <2>6, <2>9
  <2>10. \A i \in 1 .. Len(o) : i < n => ~ Outside(o[i], g)
    BY <1>3, <2>3, <2>5
  <2>11. k + 1 <= Len(s) => Len(o) + 1 + (k + 1) = Len(s) + n
    BY <1>3, <1>4, <2>3
  <2> QED BY <2>4, <2>7, <2>8, <2>9, <2>10, <2>11 DEF LoopInvariant
<1>7. CASE n <= Len(r) /\ ~ Outside(r[n], g)
  <2>1. Looked(at, g).slots = r /\ Looked(at, g).n = n + 1
    <3>1. Looked(at, g) = [at EXCEPT !.n = n + 1]
      BY <1>1, <1>2, <1>4, <1>7 DEF Looked
    <3> QED BY <1>1, <3>1 DEF LoopState
  <2>2. \A i \in 1 .. Len(r) : i < n + 1 => ~ Outside(r[i], g)
    BY <1>3, <1>7
  <2>3. k + 1 <= Len(s) => Len(r) + 1 + (k + 1) = Len(s) + (n + 1)
    <3>1. k <= Len(s) => Len(r) + 1 + k = Len(s) + n
      BY <1>3
    <3> QED BY <1>4, <3>1
  <2> QED BY <1>3, <2>1, <2>2, <2>3 DEF LoopInvariant
<1> QED BY <1>4, <1>5, <1>6, <1>7

(* The loop leaves the entries that contain g, each of them once.            *)
LEMMA CompactedIs ==
  ASSUME NEW T, NEW s \in Seq(T), NEW g,
         \A i, j \in 1 .. Len(s) : s[i] = s[j] => i = j
  PROVE  /\ Compacted(s, g) \in Seq(T)
         /\ ToSet(Compacted(s, g)) = {a \in ToSet(s) : ~ Outside(a, g)}
         /\ \A i, j \in 1 .. Len(Compacted(s, g)) :
              Compacted(s, g)[i] = Compacted(s, g)[j] => i = j
<1>0. PICK at \in [Nat -> LoopState(T)] : IsLoop(at, s, g)
  BY Iterations, Zenon
<1>1. /\ at[0] = [slots |-> s, n |-> 1]
      /\ \A k \in Nat : at[k + 1] = Looked(at[k], g)
      /\ Compacted(s, g) = at[Len(s)].slots
  BY <1>0 DEF IsLoop
<1>2. LoopInvariant(at[0], s, g, 0)
  <2>1. at[0].slots = s /\ at[0].n = 1
    BY <1>1
  <2> QED BY <2>1 DEF LoopInvariant
<1>3. \A k \in Nat : LoopInvariant(at[k], s, g, k)
  <2> DEFINE Holds == {k \in Nat : LoopInvariant(at[k], s, g, k)}
  <2>1. 0 \in Holds
    BY <1>2
  <2>2. ASSUME NEW k \in Nat, k \in Holds PROVE k + 1 \in Holds
    <3>1. at[k] \in LoopState(T) /\ at[k + 1] = Looked(at[k], g)
      BY <1>1
    <3>2. LoopInvariant(at[k], s, g, k)
      BY <2>2
    <3> QED BY <3>1, <3>2, LoopStep
  <2> HIDE DEF Holds
  <2>3. \A k \in Nat : k \in Holds
    BY <2>1, <2>2, AllNaturals
  <2> QED BY <2>3 DEF Holds
<1>4. PICK c \in Seq(T) : c = Compacted(s, g)
  <2>1. Len(s) \in Nat
    OBVIOUS
  <2>2. at[Len(s)] \in LoopState(T)
    BY <2>1
  <2> QED BY <1>1, <2>2 DEF LoopState
<1>5. PICK n \in Nat : n = at[Len(s)].n
  <2>1. Len(s) \in Nat
    OBVIOUS
  <2>2. at[Len(s)] \in LoopState(T)
    BY <2>1
  <2> QED BY <2>2 DEF LoopState
<1>6. /\ Len(c) + 1 = n
      /\ \A i \in 1 .. Len(c) : \E j \in 1 .. Len(s) : c[i] = s[j]
      /\ \A j \in 1 .. Len(s) : ~ Outside(s[j], g) => \E i \in 1 .. Len(c) : c[i] = s[j]
      /\ \A i, j \in 1 .. Len(c) : c[i] = c[j] => i = j
      /\ \A i \in 1 .. Len(c) : i < n => ~ Outside(c[i], g)
  <2>1. LoopInvariant(at[Len(s)], s, g, Len(s)) /\ at[Len(s)].slots = c
    BY <1>1, <1>3, <1>4
  <2>2. Len(c) + 1 + Len(s) = Len(s) + n
    BY <1>5, <2>1 DEF LoopInvariant
  <2>3. Len(c) + 1 = n
    BY <2>2
  <2> QED BY <1>5, <2>1, <2>3 DEF LoopInvariant
<1>7. ToSet(c) = {a \in ToSet(s) : ~ Outside(a, g)}
  <2>1. \A i \in 1 .. Len(c) : i < n
    BY <1>6
  <2>2. DOMAIN c = 1 .. Len(c) /\ DOMAIN s = 1 .. Len(s)
    OBVIOUS
  <2>3. \A i \in 1 .. Len(c) : c[i] \in ToSet(s) /\ ~ Outside(c[i], g)
    BY <1>6, <2>1, <2>2 DEF ToSet
  <2>4. \A a \in ToSet(s) : ~ Outside(a, g) => a \in ToSet(c)
    BY <1>6, <2>2 DEF ToSet
  <2>5. \A a \in ToSet(c) : a \in ToSet(s) /\ ~ Outside(a, g)
    BY <2>2, <2>3 DEF ToSet
  <2> QED BY <2>4, <2>5
<1> QED BY <1>4, <1>6, <1>7

-----------------------------------------------------------------------------
(* The array beside the set.                                                 *)

Entries == {e \in Event : e.id >= 0 /\ 0 <= e.start}

ArrayOK ==
  /\ ListOK
  /\ slots \in Seq(Entries)
  /\ ToSet(slots) = active
  /\ \A i, j \in 1 .. Len(slots) : slots[i] = slots[j] => i = j

LEMMA AddedIs ==
  ASSUME ArrayOK, NEW p \in Packets
  PROVE  /\ Added(slots, p) \in Seq(Entries)
         /\ ToSet(Added(slots, p)) = Registered(active, p)
         /\ \A i, j \in 1 .. Len(Added(slots, p)) :
              Added(slots, p)[i] = Added(slots, p)[j] => i = j
<1>1. DOMAIN slots = 1 .. Len(slots) /\ Len(slots) \in Nat
  BY DEF ArrayOK
<1>2. (\E n \in 1 .. Len(slots) : slots[n].id = p.id) <=> Known(active, p.id)
  BY <1>1 DEF ArrayOK, Known, ToSet
<1>3. CASE p.id < 0 \/ Known(active, p.id)
  BY <1>2, <1>3 DEF Added, Registered, ArrayOK
<1>4. CASE ~ (p.id < 0 \/ Known(active, p.id))
  <2>1. Entry(p) \in Entries
    <3>1. p.id \in Int /\ p.start \in Nat /\ p.end \in Nat
      BY PacketsAssumption
    <3>2. p.start \in Int /\ p.end - 1 \in Int /\ p.id >= 0 /\ 0 <= p.start
      BY <1>4, <3>1
    <3>3. Entry(p) \in Event /\ Entry(p).id = p.id /\ Entry(p).start = p.start
      BY <3>1, <3>2 DEF Entry, Event
    <3> QED BY <3>2, <3>3, Zenon DEF Entries
  <2>2. PICK e \in Entries : e = Entry(p)
    BY <2>1
  <2>3. Added(slots, p) = Append(slots, e) /\ Registered(active, p) = active \cup {e}
    BY <1>2, <1>4, <2>2 DEF Added, Registered
  <2>4. PICK t \in Seq(Entries) : t = Append(slots, e)
    <3>1. slots \in Seq(Entries)
      BY DEF ArrayOK
    <3>2. Append(slots, e) \in Seq(Entries)
      BY <3>1
    <3> QED BY <3>2, Zenon
  <2>5. /\ Len(t) = Len(slots) + 1 /\ DOMAIN t = 1 .. Len(t)
        /\ \A i \in 1 .. Len(slots) : t[i] = slots[i]
        /\ t[Len(slots) + 1] = e
    BY <2>4 DEF ArrayOK
  <2>6. \A i \in 1 .. Len(t) : i \in 1 .. Len(slots) \/ i = Len(slots) + 1
    BY <1>1, <2>5
  <2>7. \A i \in 1 .. Len(slots) : i \in 1 .. Len(t) /\ slots[i] \in active
    BY <1>1, <2>5 DEF ArrayOK, ToSet
  <2>8. Len(slots) + 1 \in 1 .. Len(t)
    BY <1>1, <2>5
  <2>9. e \notin active
    BY <1>4, <2>2 DEF Known, Entry
  <2>10. \A i, j \in 1 .. Len(t) : t[i] = t[j] => i = j
    BY <2>5, <2>6, <2>7, <2>9 DEF ArrayOK
  <2>11. \A a \in active \cup {e} : \E i \in 1 .. Len(t) : t[i] = a
    BY <1>1, <2>5, <2>7, <2>8 DEF ArrayOK, ToSet
  <2>12. \A i \in 1 .. Len(t) : t[i] \in active \cup {e}
    BY <2>5, <2>6, <2>7
  <2>13. ToSet(t) = active \cup {e}
    BY <2>5, <2>11, <2>12 DEF ToSet
  <2> QED BY <2>3, <2>4, <2>10, <2>13
<1> QED BY <1>3, <1>4

(* Compacting the array is pruning the set.                                  *)
LEMMA ArrayFlushed ==
  ASSUME NEW s \in Seq(Entries), NEW g \in Int,
         \A i, j \in 1 .. Len(s) : s[i] = s[j] => i = j,
         slots' = Compacted(s, g), active' = Flushed(ToSet(s), g), ListOK'
  PROVE  ArrayOK'
<1>1. ToSet(s) \subseteq Entries
  BY DEF ToSet
<1>2. {a \in ToSet(s) : ~ Outside(a, g)} = Flushed(ToSet(s), g)
  <2>1. \A a \in ToSet(s) : a.start \in Int /\ a.end \in Int
    BY <1>1 DEF Entries, Event
  <2> QED BY <2>1 DEF Flushed, Outside
<1>3. /\ slots' \in Seq(Entries)
      /\ ToSet(slots') = {a \in ToSet(s) : ~ Outside(a, g)}
      /\ \A i, j \in 1 .. Len(slots') : slots'[i] = slots'[j] => i = j
  BY CompactedIs
<1> QED BY <1>2, <1>3 DEF ArrayOK, ToSet

LEMMA ArrayInit == ListInit => ArrayOK
<1> SUFFICES ASSUME ListInit PROVE ArrayOK
  OBVIOUS
<1>1. Init /\ slots = <<>> /\ active = {}
  BY DEF ListInit, Init
<1>2. ListOK
  BY <1>1, ListOKInit
<1>3. slots \in Seq(Entries) /\ Len(slots) = 0 /\ ToSet(slots) = {}
  BY <1>1 DEF ToSet
<1> QED BY <1>1, <1>2, <1>3 DEF ArrayOK

LEMMA ArrayStep == ArrayOK /\ [ListNext]_listVars => ArrayOK'
<1> SUFFICES ASSUME ArrayOK, [ListNext]_listVars PROVE ArrayOK'
  OBVIOUS
<1>1. ListOK'
  BY ListOKStep DEF ArrayOK, ListNext, DeliverToList, LeaveList, SeekInList, PacketIn, Next,
                    listVars
<1>2. ASSUME NEW p \in Packets, DeliverToList(p) PROVE ArrayOK'
  <2>1. active' = Flushed(Registered(active, p), p.start)
    BY <1>2 DEF DeliverToList, DecodeText, DecodeRepeat, Deliver
  <2>2. slots' = Compacted(Added(slots, p), p.start)
    BY <1>2 DEF DeliverToList
  <2>3. p.start \in Int
    BY PacketsAssumption
  <2> QED BY <1>1, <2>1, <2>2, <2>3, AddedIs, ArrayFlushed
<1>3. ASSUME NEW p \in Packets, LeaveList(p) PROVE ArrayOK'
  BY <1>1, <1>3 DEF LeaveList, IgnoreRepeat, DecodeFails, DecodeOther, ArrayOK
<1>4. CASE SeekInList
  <2>1. active' = Flushed(ToSet(slots), -1) /\ slots' = Compacted(slots, -1)
    BY <1>4 DEF SeekInList, Seek, ArrayOK
  <2> QED BY <1>1, <2>1, ArrayFlushed DEF ArrayOK
<1>5. CASE UNCHANGED listVars
  BY <1>1, <1>5 DEF listVars, vars, ArrayOK
<1> QED BY <1>2, <1>3, <1>4, <1>5 DEF ListNext

(* The array that is compacted in place, while entries move about in it,     *)
(* holds every active event and no other, and none of them twice.            *)
THEOREM ArrayHoldsActive == ListSpec => []SlotsAreActive
<1>1. ArrayOK => SlotsAreActive
  BY DEF ArrayOK, ListOK, SlotsAreActive
<1> QED BY <1>1, ArrayInit, ArrayStep, PTL DEF ListSpec

(* The decoder with the array is the decoder with the set.                   *)
THEOREM ArrayImplementsSet == ListSpec => Spec
<1>1. ListInit => Init
  BY DEF ListInit
<1>2. [ListNext]_listVars => [Next]_vars
  BY DEF ListNext, DeliverToList, LeaveList, SeekInList, PacketIn, Next, listVars
<1> QED BY <1>1, <1>2, PTL DEF ListSpec, Spec

(* The list of the decoder that has the array is pruned, too.                *)
THEOREM ArrayActiveTogether == ListSpec => [](ActiveTogether /\ ActiveOnce)
BY ArrayImplementsSet, ListSound, PTL

-----------------------------------------------------------------------------
(* The header phase is sound for every number of headers and every pattern   *)
(* of losses, failures and restarts, as long as the ID header arrives        *)
(* undamaged: it may still fail for lack of memory.                          *)

(* A stream is recognised by its ID header: without it nothing is decoded.   *)
IdHeaderArrives == 0 \notin Losable /\ Misread = {}

(* The headers up to k, with header k after them, are those up to k + 1.     *)
LEMMA NextHeader ==
  ASSUME NEW k \in Nat
  PROVE  Append(FirstHeaders(k), k) = FirstHeaders(k + 1)
<1>1. FirstHeaders(k) \in Seq(Nat) /\ Len(FirstHeaders(k)) = k
  BY DEF FirstHeaders
<1>2. QED
  BY <1>1 DEF FirstHeaders

(* The decoder starts with the invariant.                                    *)
LEMMA InitHeaders == HeadersInit => HeadersInvariant
<1> SUFFICES ASSUME HeadersInit PROVE HeadersInvariant
  OBVIOUS
<1>1. HeadersTypeOK
  <2>1. /\ intact \in BOOLEAN /\ heard \in BOOLEAN
        /\ taken \in Seq(Nat)
    <3>1. <<>> \in Seq(Nat)
      OBVIOUS
    <3>2. intact = TRUE /\ heard = FALSE /\ taken = <<>>
      BY DEF HeadersInit
    <3>3. intact \in BOOLEAN /\ heard \in BOOLEAN
      BY <3>2, Zenon
    <3>4. QED
      BY <3>1, <3>2, <3>3
  <2>2. announced \in Announcements /\ announced \in Nat
    BY HeadersAssumption DEF HeadersInit
  <2>3. QED
    BY <2>1, <2>2, HeadersAssumption DEF HeadersInit, HeadersTypeOK
<1>2. CountKnown /\ NotMissed /\ (heard => ~Probing)
  BY DEF HeadersInit, CountKnown, NotMissed, Probing
<1>3. ProbeCounts
  <2>1. FirstHeaders(0) = <<>>
    BY DEF FirstHeaders
  <2>2. QED
    BY <2>1, HeadersAssumption DEF HeadersInit, ProbeCounts, Probing
<1>4. QED
  BY <1>1, <1>2, <1>3 DEF HeadersInvariant

(* A header that is taken is the one that is due, and one the decoder knows. *)
LEMMA TakenIsDue ==
  ASSUME HeadersInvariant, NEW n \in 0 .. announced - 1, TakeHeader(n)
  PROVE  n = probe /\ n < KnownHeaders
<1> USE HeadersAssumption DEF HeadersInvariant, HeadersTypeOK
<1>1. n = position /\ probe \in Nat /\ (n < numHeaders => probe = n)
  BY DEF TakeHeader, Arrives, Probing, InTurn
<1>2. CASE numHeaders = announced
  BY <1>1, <1>2 DEF ProbeCounts, Probing
<1>3. CASE numHeaders = 0 /\ probe = 0 /\ position = 0
  BY <1>1, <1>3
<1>4. QED
  BY <1>2, <1>3 DEF CountKnown

(* Taking the header that is due keeps the invariant: the next one is due,   *)
(* or the last one opens the data phase.                                     *)
LEMMA TakeStep ==
  ASSUME HeadersInvariant, NEW n \in 0 .. announced - 1, TakeHeader(n)
  PROVE  HeadersInvariant'
<1>1. n = probe /\ n < KnownHeaders /\ n \in Nat
  BY TakenIsDue
<1>2. /\ n = position /\ position' = position + 1 /\ announced' = announced
      /\ probe' = IF n = KnownHeaders - 1 THEN -1 ELSE n + 1
      /\ numHeaders' = IF n = 0 THEN announced ELSE numHeaders
      /\ taken' = Append(taken, n)
      /\ UNCHANGED <<intact, heard, losses, restarts>>
  BY <1>1 DEF TakeHeader, Arrives, IsLast
<1>3. HeadersTypeOK'
  BY <1>1, <1>2, HeadersAssumption DEF HeadersInvariant, HeadersTypeOK
<1>4. CountKnown'
  BY <1>1, <1>2, HeadersAssumption DEF HeadersInvariant, CountKnown, HeadersTypeOK
<1>5. ProbeCounts'
  <2>1. taken = FirstHeaders(n)
    BY <1>1 DEF HeadersInvariant, ProbeCounts, Probing
  <2>2. taken' = FirstHeaders(n + 1)
    BY <1>1, <1>2, <2>1, NextHeader
  <2>3. QED
    BY <1>1, <1>2, <2>2, HeadersAssumption DEF ProbeCounts, Probing
<1>6. NotMissed'
  BY <1>1, <1>2 DEF HeadersInvariant, NotMissed, Probing
<1>7. (heard => ~Probing)'
  BY <1>1, <1>2 DEF HeadersInvariant, Probing
<1>8. QED
  BY <1>3, <1>4, <1>5, <1>6, <1>7 DEF HeadersInvariant

(* A header that goes by and changes nothing in the decoder keeps the        *)
(* invariant, when it is lost or was not due.                                *)
LEMMA PassedBy ==
  ASSUME HeadersInvariant, NEW n \in 0 .. announced - 1, Arrives(n),
         UNCHANGED <<probe, taken, heard, restarts>>,
         numHeaders' = announced,
         losses' \in 0 .. MaxLosses, intact' \in BOOLEAN,
         intact' /\ Probing => position # probe /\ intact
  PROVE  HeadersInvariant'
<1>1. n = position /\ position' = position + 1 /\ announced' = announced
  BY DEF Arrives
<1>2. HeadersTypeOK'
  BY <1>1, HeadersAssumption DEF HeadersInvariant, HeadersTypeOK
<1>3. CountKnown'
  BY <1>1 DEF CountKnown
<1>4. ProbeCounts'
  BY DEF HeadersInvariant, ProbeCounts, Probing
<1>5. NotMissed'
  BY <1>1 DEF HeadersInvariant, NotMissed, Probing, HeadersTypeOK
<1>6. (heard => ~Probing)'
  BY DEF HeadersInvariant, Probing
<1>7. QED
  BY <1>2, <1>3, <1>4, <1>5, <1>6 DEF HeadersInvariant

(* Every step keeps the invariant.                                           *)
LEMMA HeadersStep ==
  ASSUME IdHeaderArrives, HeadersInvariant, [HeadersNext]_headersVars
  PROVE  HeadersInvariant'
<1>1. ASSUME NEW n \in 0 .. announced - 1, TakeHeader(n)
      PROVE  HeadersInvariant'
  BY <1>1, TakeStep
<1>2. ASSUME NEW n \in 0 .. announced - 1, RefuseHeader(n)
      PROVE  HeadersInvariant'
  <2>1. n = position /\ n < numHeaders /\ probe # n
    BY <1>2 DEF RefuseHeader, InTurn, Arrives
  <2>2. numHeaders = announced
    BY <2>1 DEF HeadersInvariant, CountKnown
  <2>3. QED
    BY <1>2, <2>1, <2>2, PassedBy DEF RefuseHeader, HeadersInvariant, HeadersTypeOK
<1>3. ASSUME NEW n \in 0 .. announced - 1, FailHeader(n)
      PROVE  HeadersInvariant'
  <2>1. numHeaders' = announced
    <3>1. CASE n = 0
      BY <1>3, <3>1 DEF FailHeader, IdHeaderArrives
    <3>2. CASE n # 0
      BY <1>3, <3>2 DEF FailHeader, Arrives, HeadersInvariant, CountKnown
    <3>3. QED
      BY <3>1, <3>2
  <2>2. losses' \in 0 .. MaxLosses /\ intact' = FALSE
    BY <1>3, HeadersAssumption DEF FailHeader, Missed, HeadersInvariant, HeadersTypeOK
  <2>3. QED
    BY <1>3, <2>1, <2>2, PassedBy DEF FailHeader
<1>4. ASSUME NEW n \in 0 .. announced - 1, IgnoreHeader(n)
      PROVE  HeadersInvariant'
  <2>1. numHeaders = announced
    BY <1>4 DEF IgnoreHeader, Probing, HeadersInvariant, CountKnown
  <2>2. QED
    BY <1>4, <2>1, PassedBy DEF IgnoreHeader, HeadersInvariant, HeadersTypeOK
<1>5. ASSUME NEW n \in 0 .. announced - 1, LoseHeader(n)
      PROVE  HeadersInvariant'
  <2>1. numHeaders' = announced
    BY <1>5 DEF LoseHeader, Arrives, IdHeaderArrives, HeadersInvariant, CountKnown
  <2>2. losses' \in 0 .. MaxLosses /\ intact' = FALSE
    BY <1>5, HeadersAssumption DEF LoseHeader, Missed, HeadersInvariant, HeadersTypeOK
  <2>3. QED
    BY <1>5, <2>1, <2>2, PassedBy DEF LoseHeader
<1>6. ASSUME UNCHANGED headersVars PROVE HeadersInvariant'
  BY <1>6 DEF headersVars, HeadersInvariant, HeadersTypeOK, CountKnown, ProbeCounts,
     NotMissed, Probing
<1>7. CASE DecodeData
  BY <1>7 DEF DecodeData, stream, HeadersInvariant, HeadersTypeOK, CountKnown,
     ProbeCounts, NotMissed, Probing
<1>8. CASE StartOver
  <2>1. HeadersTypeOK'
    BY <1>8, HeadersAssumption DEF StartOver, HeadersInvariant, HeadersTypeOK
  <2>2. CountKnown' /\ ProbeCounts' /\ (heard => ~Probing)'
    BY <1>8 DEF StartOver, HeadersInvariant, CountKnown, ProbeCounts, Probing
  <2>3. NotMissed'
    BY <1>8 DEF StartOver, HeadersInvariant, NotMissed, Probing, HeadersTypeOK
  <2>4. QED
    BY <2>1, <2>2, <2>3 DEF HeadersInvariant
<1>9. CASE RefuseData
  BY <1>6, <1>9 DEF RefuseData
<1>10. QED
  BY <1>1, <1>2, <1>3, <1>4, <1>5, <1>6, <1>7, <1>8, <1>9 DEF HeadersNext, HeaderIn

(* The invariant gives the two properties.                                   *)
LEMMA HeadersInvariantSuffices ==
  HeadersInvariant => DataNeedsHeaders /\ CleanPassOpens
BY HeadersAssumption DEF HeadersInvariant, HeadersTypeOK, ProbeCounts, NotMissed,
   Probing, DataNeedsHeaders, CleanPassOpens

(* No data packet is decoded before every header was, in order and once; and *)
(* a pass over the stream in which nothing is lost leads to the data,        *)
(* whatever happened before it.                                              *)
THEOREM HeadersComeFirst ==
  ASSUME IdHeaderArrives
  PROVE  HeadersSpec => [](HeadersInvariant /\ DataNeedsHeaders /\ CleanPassOpens)
<1>1. HeadersInit => HeadersInvariant
  BY InitHeaders
<1>2. HeadersInvariant /\ [HeadersNext]_headersVars => HeadersInvariant'
  BY HeadersStep
<1>3. HeadersInvariant => DataNeedsHeaders /\ CleanPassOpens
  BY HeadersInvariantSuffices
<1>4. QED
  BY <1>1, <1>2, <1>3, PTL DEF HeadersSpec
=============================================================================
