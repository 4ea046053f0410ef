-------------------------- MODULE KateParamsProofs --------------------------
(* What the parameters of an event are for every client, and every choice   *)
(* of the predefined items, of the motions and of the metadata.              *)
EXTENDS KateParams, TLAPS

(* The invariant without what only a client that makes the headers first,    *)
(* after the last of the items, can count on.                                *)
Sound ==
  /\ TypeOK /\ ArraysCover /\ OneMotionEach /\ TakenIsListed
  /\ OneWay /\ ItemsExist /\ AllAnnounced /\ UnsetIsEarly

-----------------------------------------------------------------------------
LEMMA ArraysAreListed ==
  /\ \A k \in Kinds : ArrayOf[k] \in Listed
  /\ \A n \in 1 .. Len(Headers) : Headers[n] \in Listed
  /\ Len(Headers) \in Nat /\ Len(Headers) > 0
BY ParamsAssumption DEF Listed

(* Events without index carry none that a decoder might not find.            *)
LEMMA NoEventDecodable == event' = NoEvent => EventIsDecodable'
<1> SUFFICES ASSUME event' = NoEvent PROVE EventIsDecodable'
  OBVIOUS
<1>1. \A k \in Kinds : event'.of[k] = Default
  BY DEF NoEvent
<1>2. event'.motions = <<>> /\ event'.bitmaps = <<>>
  BY DEF NoEvent
<1> QED BY <1>1, <1>2 DEF EventIsDecodable, Found, Default

LEMMA BitmapsType ==
  TypeOK => \A n \in 1 .. Len(bitmaps) :
              bitmaps[n] \in Override /\ bitmaps[n].item \in Nat
<1> SUFFICES ASSUME TypeOK PROVE \A n \in 1 .. Len(bitmaps) : bitmaps[n] \in Override
  BY DEF Override
<1> QED BY DEF TypeOK

LEMMA AppendType ==
  ASSUME NEW S, NEW s \in Seq(S), NEW x \in S
  PROVE  /\ Append(s, x) \in Seq(S)
         /\ Len(Append(s, x)) = Len(s) + 1
         /\ \A n \in 1 .. Len(s) : Append(s, x)[n] = s[n]
         /\ Append(s, x)[Len(s) + 1] = x
OBVIOUS

-----------------------------------------------------------------------------
(* The steps.                                                                *)

LEMMA InitSound == Init => Sound
<1> SUFFICES ASSUME Init PROVE Sound
  OBVIOUS
<1>1. TypeOK
  <2>1. made \in 0 .. Len(Headers)
    BY ArraysAreListed DEF Init
  <2> QED BY <2>1 DEF Init, TypeOK
<1>2. OneWay
  <2>1. \A k \in Kinds : index[k] = -1 /\ own[k] = Null
    BY DEF Init
  <2>2. \A k \in Kinds : items[ArrayOf[k]] = 0
    BY ArraysAreListed DEF Init
  <2>3. ASSUME NEW k \in Kinds PROVE index[k] < items[ArrayOf[k]]
    <3>1. -1 < 0 /\ index[k] = -1 /\ items[ArrayOf[k]] = 0
      BY <2>1, <2>2
    <3> QED BY <3>1, Zenon
  <2> QED BY <2>1, <2>3 DEF OneWay
<1>3. TakenIsListed
  <2>1. \A m \in Motions : owner[m] = "client"
    BY DEF Init, Blocks
  <2> QED BY <2>1 DEF Init, TakenIsListed
<1>4. ArraysCover /\ OneMotionEach /\ ItemsExist /\ AllAnnounced /\ UnsetIsEarly
  BY DEF Init, ArraysCover, OneMotionEach, ItemsExist, AllAnnounced, UnsetIsEarly
<1> QED BY <1>1, <1>2, <1>3, <1>4 DEF Sound

(* A kate_info grows while the encoder keeps what it has.                    *)
LEMMA AddItemSound ==
  ASSUME Sound, NEW a \in Listed, AddItem(a) PROVE Sound'
<1>1. items \in [Listed -> Nat] /\ items' = [items EXCEPT ![a] = items[a] + 1]
  BY DEF Sound, TypeOK, AddItem
<1>2. items' \in [Listed -> Nat]
  BY <1>1
<1>3. \A b \in Listed : items[b] \in Nat /\ items'[b] \in Nat /\ items[b] <= items'[b]
  BY <1>1
<1>4. /\ UNCHANGED <<announced, made, index, own, plain, size, motions, destroy, indices>>
      /\ UNCHANGED <<bitmaps, meta, holds, owner, failures>>
      /\ event' = NoEvent
      /\ "items first" \in Promises => made = 0
  BY DEF AddItem, kes
<1>5. TypeOK'
  BY <1>2, <1>4 DEF Sound, TypeOK
<1>6. ArraysCover' /\ OneMotionEach' /\ TakenIsListed' /\ UnsetIsEarly'
  BY <1>4 DEF Sound, ArraysCover, OneMotionEach, SemanticsAt, TakenIsListed, TakenOver,
         UnsetIsEarly
<1>7. OneWay'
  <2>1. \A k \in Kinds : index[k] \in Nat \cup {-1} /\ ArrayOf[k] \in Listed
    BY ArraysAreListed DEF Sound, TypeOK
  <2>2. ASSUME NEW k \in Kinds PROVE index[k] < items'[ArrayOf[k]]
    BY <1>3, <2>1 DEF Sound, OneWay
  <2> QED BY <1>4, <2>2 DEF Sound, OneWay
<1>8. ItemsExist'
  <2>1. \A n \in 1 .. Len(motions) : indices[n] \in Nat
    BY DEF Sound, TypeOK, ArraysCover
  <2>2. \A n \in 1 .. Len(bitmaps) : bitmaps[n].item \in Nat
    BY BitmapsType DEF Sound
  <2>3. ASSUME NEW n \in 1 .. Len(motions), motions[n] = Null
        PROVE  "motions" \in Listed /\ indices[n] < items'["motions"]
    BY <1>3, <2>1, <2>3 DEF Sound, ItemsExist
  <2>4. ASSUME NEW n \in 1 .. Len(bitmaps), bitmaps[n].by = "index"
        PROVE  "bitmaps" \in Listed /\ bitmaps[n].item < items'["bitmaps"]
    BY <1>3, <2>2, <2>4 DEF Sound, ItemsExist
  <2> QED BY <1>4, <2>3, <2>4 DEF ItemsExist
<1>9. AllAnnounced'
  <2>1. \A n \in 1 .. 0 : FALSE
    OBVIOUS
  <2>2. "items first" \in Promises => made' = 0
    BY <1>4
  <2> QED BY <2>1, <2>2, Zenon DEF AllAnnounced
<1> QED BY <1>5, <1>6, <1>7, <1>8, <1>9 DEF Sound

(* What a step does not touch stays sound: the lists of motions...           *)
LEMMA MotionsKept ==
  ASSUME Sound, UNCHANGED <<size, motions, destroy, indices>>
  PROVE  /\ ArraysCover' /\ OneMotionEach'
         /\ (\A m \in Motions : owner'[m] = owner[m]) => TakenIsListed'
<1>1. ArraysCover' /\ OneMotionEach'
  BY DEF Sound, ArraysCover, OneMotionEach, SemanticsAt
<1>2. ASSUME \A m \in Motions : owner'[m] = owner[m] PROVE TakenIsListed'
  <2>1. \A n \in 1 .. Len(motions) : motions[n] # Null => motions[n] \in Motions
    BY DEF Sound, TypeOK
  <2>2. TakenOver' = TakenOver
    BY DEF TakenOver
  <2> QED BY <1>2, <2>1, <2>2 DEF Sound, TakenIsListed
<1> QED BY <1>1, <1>2

(* ... and what the headers announced.                                       *)
LEMMA AnnouncedKept ==
  ASSUME Sound, UNCHANGED <<items, announced, made>>
  PROVE  AllAnnounced' /\ (plain' = plain => UnsetIsEarly')
BY DEF Sound, AllAnnounced, UnsetIsEarly

LEMMA SetIndexSound ==
  ASSUME Sound, NEW k \in Kinds, NEW i \in Nat, SetIndex(k, i)
  PROVE  Sound'
<1> USE DEF SetIndex
<1>1. index' = [index EXCEPT ![k] = i] /\ index \in [Kinds -> Nat \cup {-1}]
  BY DEF Sound, TypeOK
<1>2. index' \in [Kinds -> Nat \cup {-1}]
  BY <1>1
<1>3. TypeOK'
  BY <1>2 DEF Sound, TypeOK
<1>4. OneWay'
  <2>1. own[k] = Null /\ i < items[ArrayOf[k]]
    BY DEF Named, InRange
  <2>2. \A l \in Kinds : index'[l] = IF l = k THEN i ELSE index[l]
    BY <1>1
  <2> QED BY <2>1, <2>2 DEF Sound, OneWay
<1>5. ItemsExist'
  BY DEF Sound, ItemsExist
<1> QED BY <1>3, <1>4, <1>5, MotionsKept, AnnouncedKept DEF Sound

LEMMA SetOwnSound ==
  ASSUME Sound, NEW k \in Kinds, SetOwn(k, "mine")
  PROVE  Sound'
<1> USE DEF SetOwn
<1>1. own' = [own EXCEPT ![k] = "mine"] /\ own \in [Kinds -> {"mine", Null}]
  BY DEF Sound, TypeOK
<1>2. own' \in [Kinds -> {"mine", Null}]
  BY <1>1
<1>3. TypeOK'
  BY <1>2 DEF Sound, TypeOK
<1>4. OneWay'
  <2>1. index[k] = -1
    BY DEF FreeForOwn, Sound, TypeOK
  <2>2. \A l \in Kinds : l # k => own'[l] = own[l]
    BY <1>1
  <2> QED BY <2>1, <2>2 DEF Sound, OneWay
<1>5. ItemsExist'
  BY DEF Sound, ItemsExist
<1> QED BY <1>3, <1>4, <1>5, MotionsKept, AnnouncedKept DEF Sound

LEMMA SetPlainSound ==
  ASSUME Sound, NEW p \in Plains, SetPlain(p, "other")
  PROVE  Sound'
<1> USE DEF SetPlain
<1>1. plain' = [plain EXCEPT ![p] = "other"] /\ plain \in [Plains -> {"unset", Null, "other"}]
  BY DEF Sound, TypeOK
<1>2. plain' \in [Plains -> {"unset", Null, "other"}]
  BY <1>1
<1>3. TypeOK'
  BY <1>2 DEF Sound, TypeOK
<1>4. OneWay' /\ ItemsExist'
  BY DEF Sound, OneWay, ItemsExist
<1>5. UnsetIsEarly'
  BY <1>1 DEF Sound, UnsetIsEarly
<1> QED BY <1>3, <1>4, <1>5, MotionsKept, AnnouncedKept DEF Sound

LEMMA AddBitmapSound ==
  ASSUME Sound, NEW b \in Override, AddBitmap(b)
  PROVE  Sound'
<1> USE DEF AddBitmap
<1>1. bitmaps' = Append(bitmaps, b) /\ bitmaps \in Seq(Override)
  BY DEF Sound, TypeOK
<1>2. /\ bitmaps' \in Seq(Override)
      /\ Len(bitmaps) \in Nat
      /\ Len(bitmaps') = Len(bitmaps) + 1
      /\ \A n \in 1 .. Len(bitmaps) : bitmaps'[n] = bitmaps[n]
      /\ bitmaps'[Len(bitmaps) + 1] = b
  BY <1>1, AppendType
<1>3. TypeOK'
  BY <1>2 DEF Sound, TypeOK
<1>4. ItemsExist'
  <2>1. \A n \in 1 .. Len(bitmaps') : bitmaps'[n] = b \/ n \in 1 .. Len(bitmaps)
    BY <1>2
  <2>2. b.by = "index" => "bitmaps" \in Listed /\ b.item < items["bitmaps"]
    BY DEF Named, InRange
  <2> QED BY <1>2, <2>1, <2>2 DEF Sound, ItemsExist
<1>5. OneWay'
  BY DEF Sound, OneWay
<1> QED BY <1>3, <1>4, <1>5, MotionsKept, AnnouncedKept DEF Sound

(* However far the arrays grow, they cover the motions there were.           *)
LEMMA GrownCovers ==
  ASSUME Sound, NEW a \in Arrays
  PROVE  /\ GrownUpTo(a) \in [Arrays -> Nat]
         /\ \A b \in Arrays : Len(motions) <= GrownUpTo(a)[b]
         /\ \A b \in Arrays : Len(motions) + 1 <= GrownUpTo("indices")[b]
<1>1. Len(motions) \in Nat /\ size \in [Arrays -> Nat]
  BY DEF Sound, TypeOK
<1>2. \A b \in Arrays : size[b] \in Nat /\ Len(motions) <= size[b]
  BY <1>1 DEF Sound, ArraysCover
<1>3. \A b \in Arrays :
        \/ GrownUpTo(a)[b] = Len(motions) + 1
        \/ GrownUpTo(a)[b] = size[b]
  BY DEF GrownUpTo
<1>4. GrownUpTo(a) \in [Arrays -> Nat]
  BY <1>1 DEF GrownUpTo
<1>5. \A b \in Arrays : GrownUpTo("indices")[b] = Len(motions) + 1
  BY DEF GrownUpTo, Arrays
<1> QED BY <1>1, <1>2, <1>3, <1>4, <1>5

LEMMA NoRoomSound ==
  ASSUME Sound, NEW s, NEW a \in Arrays, NoRoom(s, a)
  PROVE  Sound'
<1> USE DEF NoRoom, Fail
<1>1. /\ size' \in [Arrays -> Nat]
      /\ \A b \in Arrays : Len(motions) <= size'[b]
  <2>1. size \in [Arrays -> Nat] /\ \A b \in Arrays : Len(motions) <= size[b]
    BY DEF Sound, TypeOK, ArraysCover
  <2>2. size' = [GrownUpTo(a) EXCEPT ![a] = size[a]]
    OBVIOUS
  <2>3. size' \in [Arrays -> Nat]
    BY <2>1, <2>2, GrownCovers
  <2>4. \A b \in Arrays : size'[b] = IF b = a THEN size[a] ELSE GrownUpTo(a)[b]
    BY <2>2, GrownCovers
  <2> QED BY <2>1, <2>3, <2>4, GrownCovers
<1>2. failures' \in Nat
  BY DEF Sound, TypeOK
<1>3. TypeOK'
  BY <1>1, <1>2 DEF Sound, TypeOK
<1>4. ArraysCover'
  BY <1>1 DEF Sound, ArraysCover
<1>5. OneMotionEach' /\ TakenIsListed'
  BY DEF Sound, OneMotionEach, SemanticsAt, TakenIsListed, TakenOver
<1>6. OneWay' /\ ItemsExist'
  BY DEF Sound, OneWay, ItemsExist
<1> QED BY <1>3, <1>4, <1>5, <1>6, AnnouncedKept DEF Sound

(* A motion is put after those there are, and does what none of them does.   *)
LEMMA PutMotionSound ==
  ASSUME Sound, NEW m \in Motions \cup {Null}, NEW i \in Nat, NEW s,
         NEW taken \in BOOLEAN, PutMotion(m, i, s, taken),
         s = IF m = Null THEN Stored[i + 1] ELSE Semantics[m],
         m = Null => Named(i, "motions") /\ owner' = owner /\ taken = FALSE,
         m # Null => /\ owner[m] = "client"
                     /\ owner' = [owner EXCEPT ![m] = IF taken THEN "encoder" ELSE "client"]
  PROVE  Sound'
<1> USE DEF PutMotion
<1> PICK k \in Nat : k = Len(motions)
  BY DEF Sound, TypeOK
<1>1. /\ k \in Nat
      /\ Len(destroy) = k /\ Len(indices) = k
      /\ motions \in Seq(Motions \cup {Null}) /\ destroy \in Seq(BOOLEAN)
      /\ indices \in Seq(Nat)
  BY DEF Sound, TypeOK, ArraysCover
<1>2. /\ motions' \in Seq(Motions \cup {Null}) /\ Len(motions') = k + 1
      /\ \A n \in 1 .. k : motions'[n] = motions[n]
      /\ motions'[k + 1] = m
  BY <1>1, AppendType
<1>3. /\ destroy' \in Seq(BOOLEAN) /\ Len(destroy') = k + 1
      /\ \A n \in 1 .. k : destroy'[n] = destroy[n]
      /\ destroy'[k + 1] = taken
  BY <1>1, AppendType
<1>4. /\ indices' \in Seq(Nat) /\ Len(indices') = k + 1
      /\ \A n \in 1 .. k : indices'[n] = indices[n]
      /\ indices'[k + 1] = i
  BY <1>1, AppendType
<1>5. \A n \in 1 .. k + 1 : n = k + 1 \/ n \in 1 .. k
  BY <1>1
<1>6. k + 1 \in 1 .. k + 1 /\ \A n \in 1 .. k : n \in 1 .. k + 1
  BY <1>1
<1>7. owner' \in [Blocks -> {"client", "encoder", "gone", "nobody"}]
  BY DEF Sound, TypeOK, Blocks
<1>8. size' \in [Arrays -> Nat] /\ \A a \in Arrays : size'[a] >= k + 1
  <2>1. size' = GrownUpTo("indices") /\ "indices" \in Arrays
    BY DEF Arrays
  <2> QED BY <1>1, <2>1, GrownCovers
<1>9. TypeOK'
  BY <1>2, <1>3, <1>4, <1>7, <1>8 DEF Sound, TypeOK
<1>10. ArraysCover'
  BY <1>2, <1>3, <1>4, <1>8 DEF ArraysCover
<1>11. \A n \in 1 .. k : SemanticsAt(n)' = SemanticsAt(n)
  BY <1>2, <1>4 DEF SemanticsAt
<1>12. SemanticsAt(k + 1)' = s
  BY <1>2, <1>4 DEF SemanticsAt
<1>13. \A n \in 1 .. k : SemanticsAt(n) # s
  BY DEF IsNew
<1>14. OneMotionEach'
  BY <1>2, <1>5, <1>11, <1>12, <1>13 DEF Sound, OneMotionEach
<1>15. \A n \in 1 .. k : motions[n] # Null => motions[n] # m
  <2>1. \A n \in 1 .. k : motions[n] # Null => SemanticsAt(n) = Semantics[motions[n]]
    BY DEF SemanticsAt
  <2> QED BY <1>13, <2>1
<1>16. \A n \in 1 .. k : motions[n] # Null =>
         motions[n] \in Motions /\ owner'[motions[n]] = owner[motions[n]]
  <2>1. \A n \in 1 .. k : motions[n] # Null => motions[n] \in Motions
    BY <1>1
  <2>2. \A x \in Motions : x # m => owner'[x] = owner[x]
    BY DEF Sound, TypeOK, Blocks
  <2> QED BY <1>15, <2>1, <2>2
<1>17. m # Null => owner'[m] = IF taken THEN "encoder" ELSE "client"
  BY DEF Sound, TypeOK, Blocks
<1>18. TakenIsListed'
  <2>1. ASSUME NEW n \in 1 .. k + 1, motions'[n] # Null
        PROVE  owner'[motions'[n]] = IF destroy'[n] THEN "encoder" ELSE "client"
    <3>1. CASE n = k + 1
      BY <1>2, <1>3, <1>17, <2>1, <3>1
    <3>2. CASE n \in 1 .. k
      BY <1>2, <1>3, <1>16, <2>1, <3>2 DEF Sound, TakenIsListed
    <3> QED BY <1>5, <3>1, <3>2
  <2>2. ASSUME NEW x \in Motions, owner'[x] = "encoder"
        PROVE  \E n \in 1 .. k + 1 : destroy'[n] /\ motions'[n] = x
    <3>1. CASE x = m /\ m # Null
      BY <1>2, <1>3, <1>6, <1>17, <2>2, <3>1
    <3>2. CASE ~(x = m /\ m # Null)
      <4>1. owner[x] = "encoder"
        BY <2>2, <3>2, ParamsAssumption DEF Sound, TypeOK, Blocks
      <4>2. PICK n \in 1 .. k : destroy[n] /\ motions[n] = x
        BY <4>1 DEF Sound, TakenIsListed, TakenOver
      <4> QED BY <1>2, <1>3, <1>6, <4>2
    <3> QED BY <3>1, <3>2
  <2>3. ASSUME NEW x \in Motions, owner'[x] = "encoder" PROVE x \in TakenOver'
    <3>1. PICK n \in 1 .. k + 1 : destroy'[n] /\ motions'[n] = x
      BY <2>2, <2>3
    <3>2. n \in {j \in 1 .. Len(motions') : destroy'[j]}
      BY <1>2, <3>1
    <3> QED BY <3>1, <3>2 DEF TakenOver
  <2> QED BY <1>2, <2>1, <2>3 DEF TakenIsListed
<1>19. ItemsExist'
  <2>1. m = Null => "motions" \in Listed /\ i < items["motions"]
    BY DEF Named, InRange
  <2> QED BY <1>2, <1>4, <1>5, <2>1 DEF Sound, ItemsExist
<1>20. OneWay'
  BY DEF Sound, OneWay
<1> QED BY <1>9, <1>10, <1>14, <1>18, <1>19, <1>20, AnnouncedKept DEF Sound

LEMMA AddMotionSound ==
  ASSUME Sound, NEW m \in Motions, NEW taken \in BOOLEAN, AddMotion(m, taken)
  PROVE  Sound'
<1>1. m # Null
  BY ParamsAssumption
<1> QED BY <1>1, PutMotionSound DEF AddMotion

LEMMA AddMotionIndexSound ==
  ASSUME Sound, NEW i \in Nat, AddMotionIndex(i)
  PROVE  Sound'
<1>1. PutMotion(Null, i, Stored[i + 1], FALSE) /\ Named(i, "motions") /\ owner' = owner
  BY DEF AddMotionIndex
<1> QED BY <1>1, PutMotionSound

-----------------------------------------------------------------------------
(* The metadata have owners of their own.                                    *)
LEMMA MetaSound ==
  ASSUME Sound, NEW m \in Metas, meta' \in Seq(Leaves), holds' \in [Metas -> Seq(Leaves)],
         UNCHANGED <<items, announced, made, index, own, plain, size, motions, destroy>>,
         UNCHANGED <<indices, bitmaps, failures>>,
         \/ owner' = owner
         \/ \E o \in {"client", "gone", "nobody"} : owner' = [owner EXCEPT ![m] = o]
  PROVE  Sound'
<1>1. owner' \in [Blocks -> {"client", "encoder", "gone", "nobody"}]
  BY DEF Sound, TypeOK, Blocks
<1>2. \A x \in Motions : owner'[x] = owner[x]
  BY ParamsAssumption DEF Sound, TypeOK, Blocks
<1>3. TypeOK'
  BY <1>1 DEF Sound, TypeOK
<1>4. OneWay' /\ ItemsExist'
  BY DEF Sound, OneWay, ItemsExist
<1> QED BY <1>2, <1>3, <1>4, MotionsKept, AnnouncedKept DEF Sound

LEMMA AddLeafSound ==
  ASSUME Sound, NEW m \in Metas, NEW leaf \in Leaves, AddLeaf(m, leaf)
  PROVE  Sound'
<1>1. holds \in [Metas -> Seq(Leaves)] /\ meta \in Seq(Leaves)
  BY DEF Sound, TypeOK
<1>2. holds' \in [Metas -> Seq(Leaves)]
  BY <1>1 DEF AddLeaf
<1> QED BY <1>1, <1>2, MetaSound DEF AddLeaf, kes

LEMMA RemoveLeafSound ==
  ASSUME Sound, NEW m \in Metas, NEW i \in Nat, RemoveLeaf(m, i)
  PROVE  Sound'
<1>1. holds \in [Metas -> Seq(Leaves)] /\ meta \in Seq(Leaves)
  BY DEF Sound, TypeOK
<1>2. PICK s \in Seq(Leaves) : s = holds[m]
  BY <1>1
<1>3. i \in 1 .. Len(s)
  BY <1>2 DEF RemoveLeaf
<1>4. SubSeq(s, 1, i - 1) \in Seq(Leaves) /\ SubSeq(s, i + 1, Len(s)) \in Seq(Leaves)
  BY <1>3
<1>5. SubSeq(s, 1, i - 1) \o SubSeq(s, i + 1, Len(s)) \in Seq(Leaves)
  BY <1>4
<1>6. holds' = [holds EXCEPT ![m] = SubSeq(s, 1, i - 1) \o SubSeq(s, i + 1, Len(s))]
  BY <1>2 DEF RemoveLeaf
<1>7. holds' \in [Metas -> Seq(Leaves)]
  BY <1>1, <1>5, <1>6
<1> QED BY <1>1, <1>7, MetaSound DEF RemoveLeaf, kes

LEMMA TakeMetaSound ==
  ASSUME Sound, NEW m \in Metas, MergeMeta(m) \/ AddMeta(m)
  PROVE  Sound'
<1>1. holds \in [Metas -> Seq(Leaves)] /\ meta \in Seq(Leaves)
  BY DEF Sound, TypeOK
<1>2. Extended(holds[m]) \in Seq(Leaves)
  BY <1>1 DEF Extended
<1> QED BY <1>1, <1>2, MetaSound DEF MergeMeta, AddMeta

-----------------------------------------------------------------------------
(* An encoder with nothing chosen is sound, when no motion is its own.       *)
LEMMA NothingLeft ==
  ASSUME Sound, index' = [k \in Kinds |-> -1], own' = [k \in Kinds |-> Null],
         plain' \in [Plains -> {"unset", Null, "other"}],
         size' = [a \in Arrays |-> 0],
         motions' = <<>>, destroy' = <<>>, indices' = <<>>, bitmaps' = <<>>, meta' = <<>>,
         owner' \in [Blocks -> {"client", "encoder", "gone", "nobody"}],
         \A m \in Motions : owner'[m] # "encoder",
         items' = items, announced' \in [Listed -> Nat], made' \in 0 .. Len(Headers),
         holds' = holds, failures' \in Nat
  PROVE  /\ TypeOK' /\ ArraysCover' /\ OneMotionEach' /\ TakenIsListed'
         /\ OneWay' /\ ItemsExist'
<1>1. index' \in [Kinds -> Nat \cup {-1}] /\ own' \in [Kinds -> {"mine", Null}]
  OBVIOUS
<1>2. size' \in [Arrays -> Nat] /\ \A a \in Arrays : size'[a] >= 0
  OBVIOUS
<1>3. TypeOK'
  BY <1>1, <1>2 DEF Sound, TypeOK
<1>4. ArraysCover' /\ OneMotionEach' /\ TakenIsListed'
  BY <1>2 DEF ArraysCover, OneMotionEach, TakenIsListed
<1>5. OneWay'
  <2>1. \A k \in Kinds : items'[ArrayOf[k]] \in Nat
    BY ArraysAreListed DEF Sound, TypeOK
  <2>2. \A n \in Nat : -1 < n
    OBVIOUS
  <2>3. \A k \in Kinds : index'[k] = -1 /\ own'[k] = Null
    OBVIOUS
  <2> QED BY <2>1, <2>2, <2>3, Zenon DEF OneWay
<1>6. ItemsExist'
  BY DEF ItemsExist
<1> QED BY <1>3, <1>4, <1>5, <1>6

LEMMA ClearedSound ==
  ASSUME Sound, Cleared, items' = items, holds' = holds, failures' \in Nat,
         announced' \in [Listed -> Nat], made' \in 0 .. Len(Headers)
  PROVE  /\ TypeOK' /\ ArraysCover' /\ OneMotionEach' /\ TakenIsListed'
         /\ OneWay' /\ ItemsExist' /\ UnsetIsEarly'
<1> USE DEF Cleared
<1>1. owner' = [b \in Blocks |-> IF b \in Destroyed THEN "gone" ELSE owner[b]]
  OBVIOUS
<1>2. owner' \in [Blocks -> {"client", "encoder", "gone", "nobody"}]
  BY <1>1 DEF Sound, TypeOK
<1>3. \A m \in Motions : owner'[m] # "encoder"
  BY <1>1 DEF Sound, TakenIsListed, Destroyed, Blocks
<1>4. \A p \in Plains : plain'[p] = Null
  OBVIOUS
<1>5. plain' \in [Plains -> {"unset", Null, "other"}]
  OBVIOUS
<1>6. UnsetIsEarly'
  BY <1>4 DEF UnsetIsEarly, Null
<1> QED BY <1>2, <1>3, <1>5, <1>6, NothingLeft

LEMMA EncodeHeaderSound ==
  ASSUME Sound, EncodeHeader PROVE Sound'
<1> USE DEF EncodeHeader
<1>1. /\ items \in [Listed -> Nat] /\ announced \in [Listed -> Nat]
      /\ made \in 0 .. Len(Headers) /\ failures \in Nat
  BY DEF Sound, TypeOK
<1>2. made' \in 0 .. Len(Headers) /\ made + 1 \in 1 .. Len(Headers)
  BY <1>1, ArraysAreListed
<1>3. PICK h \in Listed : h = Headers[made + 1]
  BY <1>2, ArraysAreListed
<1>4. announced' = [announced EXCEPT ![h] = items[h]]
  BY <1>3
<1>5. announced' \in [Listed -> Nat]
  BY <1>1, <1>4
<1>6. AllAnnounced'
  <2>1. \A n \in 1 .. made' : n = made + 1 \/ n \in 1 .. made
    BY <1>1
  <2>2. \A n \in 1 .. made' : Headers[n] \in Listed
    BY <1>2, ArraysAreListed
  <2>3. \A a \in Listed : announced'[a] = IF a = h THEN items[h] ELSE announced[a]
    BY <1>1, <1>4
  <2> QED BY <1>3, <2>1, <2>2, <2>3, Zenon DEF Sound, AllAnnounced, EncodeHeader
<1>7. Cleared
  BY DEF Finalized
<1> QED BY <1>1, <1>2, <1>5, <1>6, <1>7, ClearedSound DEF Sound

LEMMA EncodeSound ==
  ASSUME Sound, EncodeOther \/ EncodeText \/ EncodeTextNotSaved PROVE Sound'
<1>1. /\ Cleared /\ UNCHANGED <<items, announced, made, holds>>
      /\ failures' = failures \/ failures' = failures + 1
      /\ failures \in Nat
  <2>1. CASE EncodeOther
    BY <2>1 DEF EncodeOther, Finalized, Sound, TypeOK
  <2>2. CASE EncodeText
    BY <2>2 DEF EncodeText, Finalized, Sound, TypeOK
  <2>3. CASE EncodeTextNotSaved
    BY <2>3 DEF EncodeTextNotSaved, Fail, Finalized, Sound, TypeOK
  <2> QED BY <2>1, <2>2, <2>3
<1>2. announced' \in [Listed -> Nat] /\ made' \in 0 .. Len(Headers)
  BY <1>1 DEF Sound, TypeOK
<1> QED BY <1>1, <1>2, ClearedSound, AnnouncedKept DEF Sound

LEMMA ClearSound ==
  ASSUME Sound, Clear PROVE Sound'
<1> USE DEF Clear
<1>1. owner' = [b \in Blocks |-> IF owner[b] = "encoder" THEN "nobody" ELSE owner[b]]
  OBVIOUS
<1>2. owner' \in [Blocks -> {"client", "encoder", "gone", "nobody"}]
  BY <1>1 DEF Sound, TypeOK
<1>3. \A m \in Motions : owner'[m] # "encoder"
  BY <1>1 DEF Blocks
<1>4. plain' \in [Plains -> {"unset", Null, "other"}]
  OBVIOUS
<1>5. made' \in 0 .. Len(Headers) /\ announced' \in [Listed -> Nat] /\ failures' \in Nat
  BY ArraysAreListed DEF Sound, TypeOK
<1>6. AllAnnounced' /\ UnsetIsEarly'
  BY DEF AllAnnounced, UnsetIsEarly
<1> QED BY <1>2, <1>3, <1>4, <1>5, <1>6, NothingLeft DEF Sound

LEMMA StepSound == Sound /\ [Next]_vars => Sound'
<1> SUFFICES ASSUME Sound, [Next]_vars PROVE Sound'
  OBVIOUS
<1>1. ASSUME NEW a \in Listed, AddItem(a) PROVE Sound'
  BY <1>1, AddItemSound
<1>2. ASSUME NEW k \in Kinds, NEW i \in 0 .. MaxItems, SetIndex(k, i) PROVE Sound'
  BY <1>2, SetIndexSound
<1>3. ASSUME NEW k \in Kinds, SetOwn(k, "mine") PROVE Sound'
  BY <1>3, SetOwnSound
<1>4. ASSUME NEW p \in Plains, SetPlain(p, "other") PROVE Sound'
  BY <1>4, SetPlainSound
<1>5. ASSUME NEW b \in {ByValue("mine")} \cup {ByIndex(i) : i \in 0 .. MaxItems},
             AddBitmap(b)
      PROVE  Sound'
  <2>1. b \in Override
    BY <1>5 DEF ByValue, ByIndex, Override, Null
  <2> QED BY <1>5, <2>1, AddBitmapSound
<1>6. ASSUME NEW m \in Motions, NEW taken \in BOOLEAN, AddMotion(m, taken) PROVE Sound'
  BY <1>6, AddMotionSound
<1>7. ASSUME NEW i \in 0 .. Len(Stored) - 1, AddMotionIndex(i) PROVE Sound'
  <2>1. i \in Nat
    BY ParamsAssumption
  <2> QED BY <1>7, <2>1, AddMotionIndexSound
<1>8. ASSUME NEW m \in Motions, NEW a \in Arrays, NoRoom(Semantics[m], a) PROVE Sound'
  BY <1>8, NoRoomSound
<1>9. ASSUME NEW m \in Metas, NEW leaf \in Leaves, AddLeaf(m, leaf) PROVE Sound'
  BY <1>9, AddLeafSound
<1>10. ASSUME NEW m \in Metas, NEW i \in 1 .. MaxItems, RemoveLeaf(m, i) PROVE Sound'
  BY <1>10, RemoveLeafSound
<1>11. ASSUME NEW m \in Metas, MergeMeta(m) \/ AddMeta(m) PROVE Sound'
  BY <1>11, TakeMetaSound
<1>12. CASE EncodeHeader
  BY <1>12, EncodeHeaderSound
<1>13. CASE EncodeOther \/ EncodeText \/ EncodeTextNotSaved
  BY <1>13, EncodeSound
<1>14. CASE Clear
  BY <1>14, ClearSound
<1>15. CASE UNCHANGED vars
  <2>1. TypeOK'
    BY <1>15 DEF vars, Sound, TypeOK
  <2>2. OneWay' /\ ItemsExist'
    BY <1>15 DEF vars, Sound, OneWay, ItemsExist
  <2> QED BY <1>15, <2>1, <2>2, MotionsKept, AnnouncedKept DEF vars, Sound
<1> QED BY <1>1, <1>2, <1>3, <1>4, <1>5, <1>6, <1>7, <1>8, <1>9, <1>10, <1>11, <1>12,
           <1>13, <1>14, <1>15 DEF Next

(* Whatever a client does, whatever fails, and whether or not it makes the   *)
(* headers first: no motion is lost or destroyed twice, no array is read     *)
(* past its end, no choice is made in two ways, and the indices chosen are   *)
(* those of items of the kate_info.                                          *)
THEOREM ChoicesSound ==
  Spec => [](ArraysCover /\ OneMotionEach /\ TakenIsListed /\ OneWay /\ ItemsExist)
<1>1. Sound => ArraysCover /\ OneMotionEach /\ TakenIsListed /\ OneWay /\ ItemsExist
  BY DEF Sound
<1> QED BY <1>1, InitSound, StepSound, PTL DEF Spec

-----------------------------------------------------------------------------
(* Events.                                                                   *)

Careful == {"headers first", "items first"} \subseteq Promises

(* With all of the headers made, after the last of the items, the indices of *)
(* an event are those of items the headers announced.                        *)
LEMMA EncodedDecodable ==
  ASSUME Sound, Careful, Began, event' = Encoded,
         announced' = announced
  PROVE  EventIsDecodable'
<1>1. \A a \in Listed : announced[a] = items[a]
  <2>1. \A n \in 1 .. Len(Headers) : announced[Headers[n]] = items[Headers[n]]
    BY DEF Sound, AllAnnounced, Began, Careful
  <2> QED BY <2>1 DEF Listed
<1>2. ASSUME NEW k \in Kinds PROVE Found(event.of[k], ArrayOf[k])'
  <2>1. event'.of[k] = Chosen(k)
    BY DEF Encoded
  <2>2. ArrayOf[k] \in Listed
    BY ArraysAreListed
  <2>3. index[k] < items[ArrayOf[k]]
    BY DEF Sound, OneWay
  <2>4. Chosen(k).by = "index" => Chosen(k).item = index[k]
    BY DEF Chosen, ByIndex, ByValue, Default
  <2> QED BY <1>1, <2>1, <2>2, <2>3, <2>4 DEF Found
<1>3. Len(motions) \in Nat
  BY DEF Sound, TypeOK
<1>4. ASSUME NEW n \in 1 .. Len(event'.motions)
      PROVE  Found(event.motions[n], "motions")'
  <2>1. event'.motions = [i \in 1 .. Len(motions) |-> MotionAt(i)]
    BY DEF Encoded
  <2>2. n \in 1 .. Len(motions) /\ event'.motions[n] = MotionAt(n)
    BY <1>3, <2>1
  <2>3. MotionAt(n).by = "index" => motions[n] = Null /\ MotionAt(n).item = indices[n]
    BY DEF MotionAt, ByIndex, ByValue
  <2> QED BY <1>1, <2>2, <2>3 DEF Found, Sound, ItemsExist
<1>5. ASSUME NEW n \in 1 .. Len(event'.bitmaps)
      PROVE  Found(event.bitmaps[n], "bitmaps")'
  <2>1. event'.bitmaps = bitmaps
    BY DEF Encoded
  <2> QED BY <1>1, <2>1 DEF Found, Sound, ItemsExist
<1> QED BY <1>2, <1>4, <1>5 DEF EventIsDecodable

(* Every call but the one that makes an event leaves none behind.            *)
LEMMA OtherSteps == Next => event' = NoEvent \/ EncodeText
BY DEF Next, AddItem, SetIndex, SetOwn, SetPlain, AddBitmap, AddMotion, AddMotionIndex,
       PutMotion, NoRoom, AddLeaf, RemoveLeaf, MergeMeta, AddMeta, EncodeHeader, EncodeOther,
       EncodeTextNotSaved, Clear

LEMMA InitInvariant == Init => ParamsInvariant
<1> SUFFICES ASSUME Init PROVE ParamsInvariant
  OBVIOUS
<1>1. \A k \in Kinds : event.of[k] = Default
  BY DEF Init, NoEvent
<1>2. event.motions = <<>> /\ event.bitmaps = <<>>
  BY DEF Init, NoEvent
<1>3. EventIsDecodable
  BY <1>1, <1>2 DEF EventIsDecodable, Found, Default
<1> QED BY <1>3, InitSound DEF ParamsInvariant, Sound

LEMMA StepInvariant == Careful /\ ParamsInvariant /\ [Next]_vars => ParamsInvariant'
<1> SUFFICES ASSUME Careful, ParamsInvariant, [Next]_vars PROVE ParamsInvariant'
  OBVIOUS
<1>1. Sound /\ Sound'
  BY StepSound DEF ParamsInvariant, Sound
<1>2. EventIsDecodable'
  <2>1. CASE event' = NoEvent
    BY <2>1, NoEventDecodable
  <2>2. CASE EncodeText
    <3>1. Began /\ event' = Encoded /\ announced' = announced
      BY <2>2 DEF EncodeText, Careful
    <3> QED BY <1>1, <3>1, EncodedDecodable
  <2>3. CASE UNCHANGED vars
    BY <2>3 DEF vars, ParamsInvariant, EventIsDecodable, Found
  <2> QED BY <2>1, <2>2, <2>3, OtherSteps
<1> QED BY <1>1, <1>2 DEF ParamsInvariant, Sound

(* What the encoder keeps for the next event is sound, with what it knows of *)
(* the headers.                                                              *)
THEOREM KeptForNextEvent == Careful => (Spec => []ParamsInvariant)
<1> SUFFICES ASSUME Careful PROVE Spec => []ParamsInvariant
  OBVIOUS
<1>1. ParamsInvariant /\ [Next]_vars => ParamsInvariant'
  BY StepInvariant
<1> QED BY <1>1, InitInvariant, PTL DEF Spec

(* A decoder that has heard the headers finds every item an event names by   *)
(* index, for a client that makes the headers before the events and adds no  *)
(* item after them.                                                          *)
THEOREM EventsDecodable == Careful => (Spec => []EventIsDecodable)
<1> SUFFICES ASSUME Careful PROVE Spec => []EventIsDecodable
  OBVIOUS
<1>1. ParamsInvariant => EventIsDecodable
  BY DEF ParamsInvariant
<1>2. Spec => []ParamsInvariant
  BY KeptForNextEvent
<1> QED BY <1>1, <1>2, PTL

-----------------------------------------------------------------------------
(* The client's view.                                                        *)

(* What the client has chosen, of one thing and of the motions.              *)
PendingOf(k) ==
  IF k \in Kinds THEN (IF Chosen(k) = ByValue("unset") THEN Default ELSE Chosen(k))
  ELSE (IF ValueOf(k) = ByValue("unset") THEN Default ELSE ValueOf(k))

PendingOfs == [k \in Kinds \cup Plains |-> PendingOf(k)]
PendingMotions == [n \in 1 .. Len(motions) |-> MotionAt(n)]
PendingParts ==
  [of |-> PendingOfs, motions |-> PendingMotions, bitmaps |-> bitmaps, meta |-> meta]

LEMMA PendingIs == Pending = PendingParts
<1>1. ASSUME NEW k \in Kinds \cup Plains
      PROVE  PendingOf(k) = IF Encoded.of[k] = ByValue("unset") THEN Default
                            ELSE Encoded.of[k]
  BY DEF Encoded, PendingOf
<1>2. PendingOfs = [k \in Kinds \cup Plains |->
                      IF Encoded.of[k] = ByValue("unset") THEN Default ELSE Encoded.of[k]]
  BY <1>1 DEF PendingOfs
<1>3. Encoded = [of |-> Encoded.of, motions |-> PendingMotions,
                 bitmaps |-> bitmaps, meta |-> meta]
  BY DEF Encoded, PendingMotions
<1>4. Pending = [Encoded EXCEPT !.of = PendingOfs]
  BY <1>2 DEF Pending
<1> QED BY <1>3, <1>4 DEF PendingParts

LEMMA PendingIsThen == (Pending = PendingParts)'
BY PendingIs, PTL

LEMMA NoEventIsNothing == NoEvent = Choices!Nothing
BY DEF NoEvent, Choices!Nothing, Default, Choices!Default, Null

(* One thing is chosen, and nothing else changes.                            *)
LEMMA ChooseOne ==
  ASSUME NEW k \in Kinds \cup Plains, event' = NoEvent,
         \A l \in Kinds \cup Plains : l # k => PendingOf(l)' = PendingOf(l),
         UNCHANGED <<motions, indices, bitmaps, meta>>,
         k \in Kinds => PendingOf(k).by \in {"default", PendingOf(k)'.by}
  PROVE  Choices!Choose(k)
<1>1. PendingMotions' = PendingMotions
  BY DEF PendingMotions, MotionAt
<1>2. PendingOfs' = [PendingOfs EXCEPT ![k] = PendingOfs'[k]]
  BY DEF PendingOfs
<1>3. PendingParts' = [PendingParts EXCEPT !.of[k] = PendingParts'.of[k]]
  BY <1>1, <1>2 DEF PendingParts
<1>4. PendingParts.of[k] = PendingOf(k) /\ PendingParts'.of[k] = PendingOf(k)'
  BY DEF PendingParts, PendingOfs
<1> QED BY <1>3, <1>4, PendingIs, PendingIsThen, NoEventIsNothing DEF Choices!Choose

LEMMA NothingChosen ==
  ASSUME event' = NoEvent, UNCHANGED <<index, own, plain, motions, indices, bitmaps, meta>>
  PROVE  Choices!Refuse
<1>1. PendingOfs' = PendingOfs
  BY DEF PendingOfs, PendingOf, Chosen, ValueOf
<1>2. PendingMotions' = PendingMotions
  BY DEF PendingMotions, MotionAt
<1>3. PendingParts' = PendingParts
  BY <1>1, <1>2 DEF PendingParts
<1> QED BY <1>3, PendingIs, PendingIsThen, NoEventIsNothing DEF Choices!Refuse

LEMMA ConcatLengthens ==
  ASSUME NEW S, NEW s \in Seq(S), NEW t \in Seq(S)
  PROVE  /\ s \o t \in Seq(S)
         /\ Len(s \o t) = Len(s) + Len(t)
         /\ SubSeq(s \o t, 1, Len(s)) = s
OBVIOUS

LEMMA AppendLengthens ==
  ASSUME NEW S, NEW s \in Seq(S), NEW x \in S
  PROVE  SubSeq(Append(s, x), 1, Len(s)) = s
OBVIOUS

LEMMA BitmapsChanged ==
  ASSUME PendingOfs' = PendingOfs, PendingMotions' = PendingMotions, meta' = meta
  PROVE  PendingParts' = [PendingParts EXCEPT !["bitmaps"] = bitmaps']
BY SMTT(30) DEF PendingParts

LEMMA MetaChanged ==
  ASSUME PendingOfs' = PendingOfs, PendingMotions' = PendingMotions, bitmaps' = bitmaps
  PROVE  PendingParts' = [PendingParts EXCEPT !["meta"] = meta']
BY SMTT(30) DEF PendingParts

(* A bitmap or metadata come after the others.                               *)
LEMMA AddOne ==
  ASSUME event' = NoEvent, UNCHANGED <<index, own, plain, motions, indices>>,
         NEW S, bitmaps \in Seq(S), NEW R, meta \in Seq(R),
         \/ meta' = meta /\ \E b \in S : bitmaps' = Append(bitmaps, b)
         \/ bitmaps' = bitmaps /\ \E m \in Seq(R) : m # <<>> /\ meta' = meta \o m
  PROVE  \E l \in Choices!Lists : Choices!Add(l)
<1>1. PendingOfs' = PendingOfs
  BY DEF PendingOfs, PendingOf, Chosen, ValueOf
<1>2. PendingMotions' = PendingMotions
  BY DEF PendingMotions, MotionAt
<1>3. ASSUME NEW b \in S, bitmaps' = Append(bitmaps, b), meta' = meta
      PROVE  Choices!Add("bitmaps")
  <2>1. Len(bitmaps') > Len(bitmaps) /\ SubSeq(bitmaps', 1, Len(bitmaps)) = bitmaps
    BY <1>3, AppendLengthens
  <2>2. PendingParts' = [PendingParts EXCEPT !["bitmaps"] = bitmaps']
    BY <1>1, <1>2, <1>3, BitmapsChanged
  <2>3. PendingParts["bitmaps"] = bitmaps /\ PendingParts'["bitmaps"] = bitmaps'
    BY DEF PendingParts
  <2> QED BY <2>1, <2>2, <2>3, PendingIs, PendingIsThen, NoEventIsNothing DEF Choices!Add
<1>4. ASSUME NEW m \in Seq(R), m # <<>>, meta' = meta \o m, bitmaps' = bitmaps
      PROVE  Choices!Add("meta")
  <2>1. Len(meta') > Len(meta) /\ SubSeq(meta', 1, Len(meta)) = meta
    BY <1>4, ConcatLengthens
  <2>2. PendingParts' = [PendingParts EXCEPT !["meta"] = meta']
    BY <1>1, <1>2, <1>4, MetaChanged
  <2>3. PendingParts["meta"] = meta /\ PendingParts'["meta"] = meta'
    BY DEF PendingParts
  <2> QED BY <2>1, <2>2, <2>3, PendingIs, PendingIsThen, NoEventIsNothing DEF Choices!Add
<1> QED BY <1>3, <1>4 DEF Choices!Lists

(* A motion comes after the others.                                          *)
LEMMA AddOneMotion ==
  ASSUME Sound, NEW m \in Motions \cup {Null}, NEW i \in Nat, NEW s, NEW taken \in BOOLEAN,
         PutMotion(m, i, s, taken)
  PROVE  \E l \in Choices!Lists : Choices!Add(l)
<1>1. PendingOfs' = PendingOfs
  BY DEF PutMotion, PendingOfs, PendingOf, Chosen, ValueOf
<1>2. PICK k \in Nat : k = Len(motions)
  BY DEF Sound, TypeOK
<1>3. /\ motions \in Seq(Motions \cup {Null}) /\ indices \in Seq(Nat) /\ Len(indices) = k
      /\ motions' = Append(motions, m) /\ indices' = Append(indices, i)
  BY <1>2 DEF PutMotion, Sound, TypeOK, ArraysCover
<1>4. /\ Len(motions') = k + 1
      /\ \A n \in 1 .. k : motions'[n] = motions[n] /\ indices'[n] = indices[n]
  BY <1>2, <1>3, AppendType
<1>5. PendingMotions = [n \in 1 .. k |-> MotionAt(n)]
  BY <1>2 DEF PendingMotions
<1>6. PendingMotions' = [n \in 1 .. k + 1 |-> MotionAt(n)']
  BY <1>4 DEF PendingMotions
<1>7. \A n \in 1 .. k : MotionAt(n)' = MotionAt(n)
  BY <1>4 DEF MotionAt
<1>8. Len(PendingMotions) = k /\ Len(PendingMotions') = k + 1
  BY <1>5, <1>6
<1>9. SubSeq(PendingMotions', 1, k) = PendingMotions
  <2>1. SubSeq(PendingMotions', 1, k) = [n \in 1 .. k |-> PendingMotions'[n]]
    BY <1>6
  <2>2. \A n \in 1 .. k : PendingMotions'[n] = MotionAt(n)
    BY <1>6, <1>7
  <2> QED BY <1>5, <2>1, <2>2
<1>10. PendingParts' = [PendingParts EXCEPT !["motions"] = PendingMotions']
  BY <1>1 DEF PutMotion, PendingParts
<1>11. PendingParts["motions"] = PendingMotions /\ PendingParts'["motions"] = PendingMotions'
  BY DEF PendingParts
<1>12. event' = NoEvent
  BY DEF PutMotion
<1>13. Choices!Add("motions")
  <2>1. k + 1 > k
    OBVIOUS
  <2> QED BY <1>8, <1>9, <1>10, <1>11, <1>12, <2>1, PendingIs, PendingIsThen,
             NoEventIsNothing, Zenon DEF Choices!Add
<1> QED BY <1>13 DEF Choices!Lists

(* What is left after a packet, and at first, counts for nothing chosen.     *)
NothingSet ==
  /\ index = [k \in Kinds |-> -1] /\ own = [k \in Kinds |-> Null]
  /\ \A p \in Plains : plain[p] \in {Null, "unset"}
  /\ motions = <<>> /\ bitmaps = <<>> /\ meta = <<>>

LEMMA NothingPending == NothingSet => Pending = Choices!Nothing
<1> SUFFICES ASSUME NothingSet PROVE Pending = Choices!Nothing
  OBVIOUS
<1> USE DEF NothingSet
<1>1. \A k \in Kinds : Chosen(k) = Default
  <2>1. ~ (-1 >= 0)
    OBVIOUS
  <2> QED BY <2>1, Zenon DEF Chosen
<1>2. ASSUME NEW k \in Kinds \cup Plains PROVE PendingOf(k) = Default
  <2>1. CASE k \in Kinds
    BY <1>1, <2>1 DEF PendingOf
  <2>2. CASE k \notin Kinds
    BY <2>2 DEF PendingOf, ValueOf
  <2> QED BY <2>1, <2>2
<1>3. PendingOfs = [k \in Kinds \cup Plains |-> Default]
  BY <1>2 DEF PendingOfs
<1>4. PendingMotions = <<>>
  BY DEF PendingMotions
<1>5. PendingParts = NoEvent
  BY <1>3, <1>4 DEF PendingParts, NoEvent
<1> QED BY <1>5, PendingIs, NoEventIsNothing

LEMMA NothingPendingThen == NothingSet' => (Pending = Choices!Nothing)'
BY NothingPending, PTL

LEMMA InitChoices == Init => Choices!Init
<1> SUFFICES ASSUME Init PROVE Choices!Init
  OBVIOUS
<1>1. \A p \in Plains : plain[p] \in {Null, "unset"}
  BY DEF Init
<1>2. Pending = Choices!Nothing
  BY <1>1, NothingPending DEF Init, NothingSet
<1>3. event = Choices!Nothing
  BY NoEventIsNothing DEF Init
<1> QED BY <1>2, <1>3 DEF Choices!Init

LEMMA SetIndexChooses ==
  ASSUME Sound, NEW k \in Kinds, NEW i \in Nat, SetIndex(k, i)
  PROVE  Choices!Choose(k)
<1> USE DEF SetIndex
<1>1. \A l \in Kinds \cup Plains : l # k => PendingOf(l)' = PendingOf(l)
  <2>1. \A l \in Kinds : l # k => index'[l] = index[l]
    BY DEF Sound, TypeOK
  <2> QED BY <2>1 DEF PendingOf, Chosen, ValueOf
<1>2. index'[k] = i /\ own'[k] = Null /\ own[k] = Null
  BY DEF Sound, TypeOK
<1>3. PendingOf(k)'.by = "index"
  <2>1. Chosen(k)' = ByIndex(i)
    BY <1>2 DEF Chosen
  <2> QED BY <2>1 DEF PendingOf, ByIndex, ByValue
<1>4. PendingOf(k).by \in {"default", "index"}
  BY <1>2 DEF PendingOf, Chosen, ByIndex, ByValue, Default
<1> QED BY <1>1, <1>3, <1>4, ChooseOne

LEMMA SetOwnChooses ==
  ASSUME Sound, NEW k \in Kinds, SetOwn(k, "mine")
  PROVE  Choices!Choose(k)
<1> USE DEF SetOwn
<1>1. \A l \in Kinds \cup Plains : l # k => PendingOf(l)' = PendingOf(l)
  <2>1. \A l \in Kinds : l # k => own'[l] = own[l]
    BY DEF Sound, TypeOK
  <2> QED BY <2>1 DEF PendingOf, Chosen, ValueOf
<1>2. index[k] \in Int /\ index[k] < 0
  BY DEF Sound, TypeOK, FreeForOwn
<1>3. ~ (index[k] >= 0)
  BY <1>2
<1>4. index'[k] = index[k] /\ own'[k] = "mine" /\ own[k] \in {"mine", Null}
  BY DEF Sound, TypeOK
<1>5. PendingOf(k)'.by = "value"
  <2>1. Chosen(k)' = ByValue("mine")
    BY <1>3, <1>4 DEF Chosen, Null
  <2> QED BY <2>1 DEF PendingOf, ByValue
<1>6. PendingOf(k).by \in {"default", "value"}
  <2>1. Chosen(k) \in {ByValue("mine"), Default}
    BY <1>3, <1>4 DEF Chosen
  <2> QED BY <2>1 DEF PendingOf, ByValue, Default
<1> QED BY <1>1, <1>5, <1>6, ChooseOne

LEMMA SetPlainChooses ==
  ASSUME Sound, NEW p \in Plains, SetPlain(p, "other")
  PROVE  Choices!Choose(p)
<1> USE DEF SetPlain
<1>1. \A l \in Kinds \cup Plains : l # p => PendingOf(l)' = PendingOf(l)
  <2>1. \A l \in Plains : l # p => plain'[l] = plain[l]
    BY DEF Sound, TypeOK
  <2> QED BY <2>1 DEF PendingOf, Chosen, ValueOf
<1>2. p \notin Kinds
  BY ParamsAssumption
<1> QED BY <1>1, <1>2, ChooseOne

(* A packet takes all the choices; with the headers made, none is unset.     *)
HeadersFirst == "headers first" \in Promises

LEMMA PacketTells ==
  ASSUME Sound, HeadersFirst, EncodeText
  PROVE  Choices!Tell
<1>1. Began /\ event' = Encoded /\ Cleared
  BY DEF EncodeText, Finalized, HeadersFirst
<1>2. \A p \in Plains : plain[p] # "unset"
  <2>1. made > 0
    BY <1>1, ArraysAreListed DEF Began
  <2> QED BY <2>1 DEF Sound, UnsetIsEarly
<1>3. ASSUME NEW k \in Kinds \cup Plains PROVE Encoded.of[k] # ByValue("unset")
  <2>1. CASE k \in Kinds
    <3>1. own[k] # "unset"
      BY <2>1 DEF Sound, TypeOK, Null
    <3>2. Encoded.of[k] = Chosen(k)
      BY <2>1 DEF Encoded
    <3>3. own[k] = Null \/ ~ (index[k] >= 0)
      <4>1. ~ (-1 >= 0)
        OBVIOUS
      <4> QED BY <2>1, <4>1, Zenon DEF Sound, OneWay
    <3>4. Chosen(k) \in {ByValue(own[k]), ByIndex(index[k]), Default}
      BY <3>3 DEF Chosen
    <3>5. Chosen(k).value # "unset"
      BY <3>1, <3>4 DEF ByValue, ByIndex, Default, Null
    <3> QED BY <3>2, <3>5 DEF ByValue
  <2>2. CASE k \notin Kinds
    <3>1. plain[k] # "unset"
      BY <1>2, <2>2
    <3>2. Encoded.of[k] = ValueOf(k)
      BY <2>2 DEF Encoded
    <3>3. ValueOf(k) \in {ByValue(plain[k]), Default}
      BY DEF ValueOf
    <3>4. ValueOf(k).value # "unset"
      BY <3>1, <3>3 DEF ByValue, Default, Null
    <3> QED BY <3>2, <3>4 DEF ByValue
  <2> QED BY <2>1, <2>2
<1>4. Encoded = Pending
  <2>1. [k \in Kinds \cup Plains |->
           IF Encoded.of[k] = ByValue("unset") THEN Default ELSE Encoded.of[k]]
        = [k \in Kinds \cup Plains |-> Encoded.of[k]]
    BY <1>3
  <2>2. Encoded.of = [k \in Kinds \cup Plains |-> Encoded.of[k]]
    BY DEF Encoded
  <2>3. Pending = [Encoded EXCEPT !.of = Encoded.of]
    BY <2>1, <2>2 DEF Pending
  <2> QED BY <2>3 DEF Encoded
<1>5. Pending' = Choices!Nothing
  BY <1>1, NothingPendingThen DEF Cleared, NothingSet
<1> QED BY <1>1, <1>4, <1>5 DEF Choices!Tell

LEMMA OtherPackets ==
  ASSUME EncodeHeader \/ EncodeOther \/ EncodeTextNotSaved \/ Clear
  PROVE  Choices!Forget
<1>1. event' = NoEvent
  BY DEF EncodeHeader, EncodeOther, EncodeTextNotSaved, Clear
<1>2. Pending' = Choices!Nothing
  <2>1. CASE Cleared
    BY <2>1, NothingPendingThen DEF Cleared, NothingSet
  <2>2. CASE Clear
    <3>1. \A p \in Plains : plain'[p] \in {Null, "unset"}
      BY <2>2 DEF Clear
    <3> QED BY <2>2, <3>1, NothingPendingThen DEF Clear, NothingSet
  <2> QED BY <2>1, <2>2 DEF EncodeHeader, EncodeOther, EncodeTextNotSaved, Finalized
<1> QED BY <1>1, <1>2, NoEventIsNothing DEF Choices!Forget

LEMMA StepChoices ==
  ASSUME HeadersFirst, Sound, Next PROVE Choices!Next
<1>1. ASSUME NEW a \in Listed, AddItem(a) PROVE Choices!Next
  BY <1>1, NothingChosen DEF AddItem, kes, Choices!Next
<1>2. ASSUME NEW k \in Kinds, NEW i \in 0 .. MaxItems, SetIndex(k, i) PROVE Choices!Next
  BY <1>2, SetIndexChooses DEF Choices!Next
<1>3. ASSUME NEW k \in Kinds, SetOwn(k, "mine") PROVE Choices!Next
  BY <1>3, SetOwnChooses DEF Choices!Next
<1>4. ASSUME NEW p \in Plains, SetPlain(p, "other") PROVE Choices!Next
  BY <1>4, SetPlainChooses DEF Choices!Next
<1>5. ASSUME NEW b \in {ByValue("mine")} \cup {ByIndex(i) : i \in 0 .. MaxItems},
             AddBitmap(b)
      PROVE  Choices!Next
  <2>1. b \in Override
    BY <1>5 DEF ByValue, ByIndex, Override, Null
  <2>2. bitmaps \in Seq(Override) /\ meta \in Seq(Leaves)
    BY DEF Sound, TypeOK
  <2> QED BY <1>5, <2>1, <2>2, AddOne DEF AddBitmap, Choices!Next
<1>6. ASSUME NEW m \in Motions, NEW taken \in BOOLEAN, AddMotion(m, taken)
      PROVE  Choices!Next
  BY <1>6, AddOneMotion DEF AddMotion, Choices!Next
<1>7. ASSUME NEW i \in 0 .. Len(Stored) - 1, AddMotionIndex(i) PROVE Choices!Next
  <2>1. i \in Nat
    BY ParamsAssumption
  <2>2. PutMotion(Null, i, Stored[i + 1], FALSE)
    BY <1>7 DEF AddMotionIndex
  <2> QED BY <2>1, <2>2, AddOneMotion DEF Choices!Next
<1>8. ASSUME NEW m \in Motions, NEW a \in Arrays, NoRoom(Semantics[m], a) PROVE Choices!Next
  BY <1>8, NothingChosen DEF NoRoom, Choices!Next
<1>9. ASSUME NEW m \in Metas, NEW leaf \in Leaves, AddLeaf(m, leaf) PROVE Choices!Next
  BY <1>9, NothingChosen DEF AddLeaf, kes, Choices!Next
<1>10. ASSUME NEW m \in Metas, NEW i \in 1 .. MaxItems, RemoveLeaf(m, i) PROVE Choices!Next
  BY <1>10, NothingChosen DEF RemoveLeaf, kes, Choices!Next
<1>11. ASSUME NEW m \in Metas, MergeMeta(m) \/ AddMeta(m) PROVE Choices!Next
  <2>1. /\ meta' = meta \o holds[m] /\ event' = NoEvent
        /\ UNCHANGED <<index, own, plain, motions, indices, bitmaps>>
    BY <1>11 DEF MergeMeta, AddMeta, Extended
  <2>2. meta \in Seq(Leaves) /\ holds[m] \in Seq(Leaves) /\ bitmaps \in Seq(Override)
    BY DEF Sound, TypeOK
  <2>3. CASE holds[m] = <<>>
    <3>1. meta' = meta
      BY <2>1, <2>2, <2>3
    <3> QED BY <2>1, <3>1, NothingChosen DEF Choices!Next
  <2>4. CASE holds[m] # <<>>
    BY <2>1, <2>2, <2>4, AddOne DEF Choices!Next
  <2> QED BY <2>3, <2>4
<1>12. CASE EncodeHeader \/ EncodeOther \/ EncodeTextNotSaved \/ Clear
  BY <1>12, OtherPackets DEF Choices!Next
<1>13. CASE EncodeText
  BY <1>13, PacketTells DEF Choices!Next
<1> QED BY <1>1, <1>2, <1>3, <1>4, <1>5, <1>6, <1>7, <1>8, <1>9, <1>10, <1>11, <1>12,
           <1>13 DEF Next

(* An event carries all the choices a client made since the packet before    *)
(* it, and no other, in the order they were made, whatever calls fail; that  *)
(* the client makes the headers first is what settles what nothing set.      *)
THEOREM ChoicesAreCarried == HeadersFirst => (Spec => CarriesChoices)
<1> SUFFICES ASSUME HeadersFirst PROVE Spec => CarriesChoices
  OBVIOUS
<1>1. Sound /\ [Next]_vars => [Choices!Next]_<<Pending, event>>
  <2> SUFFICES ASSUME Sound, [Next]_vars PROVE [Choices!Next]_<<Pending, event>>
    OBVIOUS
  <2>1. CASE Next
    BY <2>1, StepChoices
  <2>2. CASE UNCHANGED vars
    BY <2>2 DEF vars, Pending, Encoded, Chosen, ValueOf, MotionAt
  <2> QED BY <2>1, <2>2
<1> QED BY <1>1, InitChoices, InitSound, StepSound, PTL DEF Spec, CarriesChoices, Choices!Spec
=============================================================================
