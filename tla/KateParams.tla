----------------------------- MODULE KateParams -----------------------------
(***************************************************************************)
(* The parameters of the event an encoder will make next, from the setters *)
(* of src/src/kate_encode.c and the arrays of src/src/kate_encode_state.c, *)
(* and the predefined items of a kate_info they refer to by index.         *)
(*                                                                         *)
(* Motions are kept in three arrays that grow one after the other; some    *)
(* are taken over by the encoder, others stay the client's.  Metadata are  *)
(* moved out of the client's object, or copied.  Making any packet but a   *)
(* repeat clears everything, and destroys the motions that were taken.     *)
(***************************************************************************)
EXTENDS Integers, Sequences

CONSTANTS
  Kinds,           (* of {"region", "style", "secondary_style", "palette",    *)
                   (* "bitmap"}, which are treated alike, those in play       *)
  Plains,          (* of {"text_encoding", "text_directionality",             *)
                   (* "text_markup_type", "language"}, those in play          *)
  Unset,           (* of Plains, those nothing sets before the first packet   *)
  Motions,         (* the client's motions                                    *)
  Semantics,       (* what a motion does, of each of Motions                  *)
  Stored,          (* what the predefined motions do, in the order of adding  *)
  Headers,         (* the arrays of a kate_info, in the order of their headers*)
  Metas,           (* the client's metadata objects                           *)
  Leaves,          (* the tag and value pairs in them                         *)
  MaxItems,        (* how many items an array of a kate_info, how many leaves *)
                   (* a client's object and how many bitmaps an event may     *)
                   (* hold (a bound)                                          *)
  MaxLeaves,       (* how many leaves an event may hold (a bound)             *)
  MaxFailures,     (* how many allocations may fail (a bound)                 *)
  Promises         (* which of "headers first", "items first" a client keeps  *)

(* The array of a kate_info that the index of each kind of choice is for.    *)
ArrayOf == [region |-> "regions", style |-> "styles",
            secondary_style |-> "styles", palette |-> "palettes",
            bitmap |-> "bitmaps"]

Null == "NULL"

ASSUME ParamsAssumption ==
  /\ Unset \subseteq Plains /\ Motions \cap Metas = {} /\ Null \notin Motions
  /\ Kinds \cap Plains = {}
  /\ Kinds \subseteq DOMAIN ArrayOf
  /\ Headers \in Seq({ArrayOf[k] : k \in DOMAIN ArrayOf} \cup {"motions"})
  /\ Headers # <<>>
  /\ \A k \in Kinds : \E n \in 1 .. Len(Headers) : Headers[n] = ArrayOf[k]
  /\ \A n, m \in 1 .. Len(Headers) : Headers[n] = Headers[m] => n = m
  /\ Semantics \in [Motions -> STRING]
  /\ Stored \in Seq(STRING)
  /\ MaxItems \in Nat /\ MaxLeaves \in Nat /\ MaxFailures \in Nat

VARIABLES
  items,           (* ki->nregions and the other counts of a kate_info        *)
  announced,       (* how many of them the headers announced                  *)
  made,            (* how many of Headers are made                            *)
  index,           (* kes->overrides.region_index and its like, or -1         *)
  own,             (* kes->overrides.region and its like, or NULL             *)
  plain,           (* kes->overrides.text_encoding and its like               *)
  size,            (* the lengths of the three arrays below                   *)
  motions,         (* kes->motions, what lies past nmotions left out          *)
  destroy,         (* kes->destroy_motions                                    *)
  indices,         (* kes->motion_indices                                     *)
  bitmaps,         (* kes->bitmaps and kes->bitmap_indices                    *)
  meta,            (* kes->meta, one without leaves being as good as none     *)
  holds,           (* what the client's metadata objects hold                 *)
  owner,           (* whose each motion and metadata object is                *)
  event,           (* the parameters in the text packet of the last call      *)
  failures

vars == <<items, announced, made, index, own, plain, size, motions, destroy, indices,
          bitmaps, meta, holds, owner, event, failures>>
kes == <<index, own, plain, size, motions, destroy, indices, bitmaps, meta>>

-----------------------------------------------------------------------------
ByIndex(i) == [by |-> "index", item |-> i, value |-> Null]
ByValue(v) == [by |-> "value", item |-> 0, value |-> v]
Default == [by |-> "default", item |-> 0, value |-> Null]
Listed == {Headers[n] : n \in 1 .. Len(Headers)}
Arrays == {"motions", "destroy", "indices"}
Blocks == Motions \cup Metas

(* What a packet says of a choice: an index, a value, or neither.            *)
Chosen(k) ==
  IF index[k] >= 0 /\ own[k] # Null
  THEN [by |-> "both", item |-> index[k], value |-> own[k]]
  ELSE IF own[k] # Null THEN ByValue(own[k])
  ELSE IF index[k] >= 0 THEN ByIndex(index[k])
  ELSE Default

ValueOf(p) == IF plain[p] = Null THEN Default ELSE ByValue(plain[p])

MotionAt(n) ==
  IF motions[n] = Null THEN ByIndex(indices[n]) ELSE ByValue(motions[n])

(* kate_encode_overrides, and the motions that come before it.               *)
Encoded ==
  [of |-> [k \in Kinds \cup Plains |->
             IF k \in Kinds THEN Chosen(k) ELSE ValueOf(k)],
   motions |-> [n \in 1 .. Len(motions) |-> MotionAt(n)],
   bitmaps |-> bitmaps,
   meta |-> meta]

(* What the setters return: no packet.                                       *)
NoEvent == [of |-> [k \in Kinds \cup Plains |-> Default],
            motions |-> <<>>, bitmaps |-> <<>>, meta |-> <<>>]

Init ==
  /\ items = [a \in Listed |-> 0]
  /\ announced = [a \in Listed |-> 0]
  /\ made = 0
  /\ index = [k \in Kinds |-> -1]
  /\ own = [k \in Kinds |-> Null]
  /\ plain = [p \in Plains |-> IF p \in Unset THEN "unset" ELSE Null]
  /\ size = [a \in Arrays |-> 0]
  /\ motions = <<>> /\ destroy = <<>> /\ indices = <<>>
  /\ bitmaps = <<>>
  /\ meta = <<>>
  /\ holds = [m \in Metas |-> <<>>]
  /\ owner = [b \in Blocks |-> "client"]
  /\ event = NoEvent
  /\ failures = 0

Fail == failures < MaxFailures /\ failures' = failures + 1

-----------------------------------------------------------------------------
(* The kate_info and the headers.                                            *)

(* kate_info_add_item, on one of the arrays.                                 *)
AddItem(a) ==
  /\ "items first" \in Promises => made = 0
  /\ items[a] < IF a = "motions" THEN Len(Stored) ELSE MaxItems
  /\ items' = [items EXCEPT ![a] = @ + 1]
  /\ event' = NoEvent
  /\ UNCHANGED <<announced, made, kes, holds, owner, failures>>

(* A slip: indices are checked against one more item than there is.          *)
InRangeByOne(i, n) == i <= n

InRange(i, n) == i < n

(* The item an index names is there: the test of every setter by index.      *)
Named(i, a) == a \in Listed /\ InRange(i, items[a])

-----------------------------------------------------------------------------
(* The setters.                                                              *)

(* kate_encode_set_region and its like refuse a value where there is an      *)
(* index; an older value is replaced.                                        *)
FreeForOwn(k) == index[k] < 0

(* kate_encode_set_region_index and its like.                                *)
SetIndex(k, i) ==
  /\ Named(i, ArrayOf[k])
  /\ own[k] = Null
  /\ index' = [index EXCEPT ![k] = i]
  /\ event' = NoEvent
  /\ UNCHANGED <<items, announced, made, own, plain, size, motions, destroy, indices,
                 bitmaps, meta, holds, owner, failures>>

SetOwn(k, v) ==
  /\ FreeForOwn(k)
  /\ own' = [own EXCEPT ![k] = v]
  /\ event' = NoEvent
  /\ UNCHANGED <<items, announced, made, index, plain, size, motions, destroy, indices,
                 bitmaps, meta, holds, owner, failures>>

SetPlain(p, v) ==
  /\ plain' = [plain EXCEPT ![p] = v]
  /\ event' = NoEvent
  /\ UNCHANGED <<items, announced, made, index, own, size, motions, destroy, indices,
                 bitmaps, meta, holds, owner, failures>>

(* kate_encode_state_add_bitmap_or_index: a bitmap may be added many times.  *)
AddBitmap(b) ==
  /\ Len(bitmaps) < MaxItems
  /\ b.by = "index" => Named(b.item, "bitmaps")
  /\ bitmaps' = Append(bitmaps, b)
  /\ event' = NoEvent
  /\ UNCHANGED <<items, announced, made, index, own, plain, size, motions, destroy,
                 indices, meta, holds, owner, failures>>

-----------------------------------------------------------------------------
(* Motions.                                                                  *)

SemanticsAt(n) ==
  IF motions[n] = Null THEN Stored[indices[n] + 1] ELSE Semantics[motions[n]]

(* A slip: only the last motion is looked at.                                *)
IsNewToLast(s) ==
  \A n \in 1 .. Len(motions) : n = Len(motions) => SemanticsAt(n) # s

(* No two motions of an event do the same thing: KATE_E_LIMIT.               *)
IsNew(s) == \A n \in 1 .. Len(motions) : SemanticsAt(n) # s

(* The arrays grow in turn, up to array a.                                   *)
GrownUpTo(a) ==
  [b \in Arrays |->
     IF \/ b = "motions"
        \/ b = "destroy" /\ a # "motions"
        \/ b = a
     THEN Len(motions) + 1 ELSE size[b]]

(* Memory runs out for array a: those before it have grown.                  *)
NoRoom(s, a) ==
  /\ Fail
  /\ IsNew(s)
  /\ size' = [GrownUpTo(a) EXCEPT ![a] = size[a]]
  /\ event' = NoEvent
  /\ UNCHANGED <<items, announced, made, index, own, plain, motions, destroy, indices,
                 bitmaps, meta, holds, owner>>

(* kate_encode_state_add_motion_or_index, of the motion m or of the i-th.    *)
PutMotion(m, i, s, taken) ==
  /\ IsNew(s)
  /\ size' = GrownUpTo("indices")
  /\ motions' = Append(motions, m)
  /\ destroy' = Append(destroy, taken)
  /\ indices' = Append(indices, i)
  /\ UNCHANGED <<items, announced, made, index, own, plain, bitmaps, meta, holds, failures>>
  /\ event' = NoEvent

(* kate_encode_add_motion: one that is not taken over must live on until the *)
(* event is made.                                                            *)
AddMotion(m, taken) ==
  /\ owner[m] = "client"
  /\ PutMotion(m, 0, Semantics[m], taken)
  /\ owner' = [owner EXCEPT ![m] = IF taken THEN "encoder" ELSE "client"]

AddMotionIndex(i) ==
  /\ Named(i, "motions")
  /\ PutMotion(Null, i, Stored[i + 1], FALSE)
  /\ UNCHANGED owner

-----------------------------------------------------------------------------
(* Metadata.                                                                 *)

(* kate_meta_add, to the client's object.                                    *)
AddLeaf(m, leaf) ==
  /\ owner[m] = "client"
  /\ Len(holds[m]) < MaxItems
  /\ holds' = [holds EXCEPT ![m] = Append(@, leaf)]
  /\ event' = NoEvent
  /\ UNCHANGED <<items, announced, made, kes, owner, failures>>

(* kate_meta_remove: the leaves after it move down.                          *)
RemoveLeaf(m, i) ==
  /\ owner[m] = "client"
  /\ i \in 1 .. Len(holds[m])
  /\ holds' = [holds EXCEPT ![m] = SubSeq(@, 1, i - 1)
                                   \o SubSeq(@, i + 1, Len(@))]
  /\ event' = NoEvent
  /\ UNCHANGED <<items, announced, made, kes, owner, failures>>

Extended(s) == meta \o s

(* kate_encode_state_merge_meta: the leaves move, and the object is freed;   *)
(* one without leaves is not, and nobody has it any more.                    *)
MergeMeta(m) ==
  /\ owner[m] = "client"
  /\ Len(Extended(holds[m])) <= MaxLeaves
  /\ meta' = Extended(holds[m])
  /\ owner' = [owner EXCEPT ![m] = IF holds[m] = <<>> THEN "nobody" ELSE "gone"]
  /\ event' = NoEvent
  /\ UNCHANGED <<items, announced, made, index, own, plain, size, motions, destroy,
                 indices, bitmaps, holds, failures>>

(* kate_encode_state_add_meta merges a copy.                                 *)
AddMeta(m) ==
  /\ owner[m] = "client"
  /\ Len(Extended(holds[m])) <= MaxLeaves
  /\ meta' = Extended(holds[m])
  /\ event' = NoEvent
  /\ UNCHANGED <<items, announced, made, index, own, plain, size, motions, destroy,
                 indices, bitmaps, holds, owner, failures>>

-----------------------------------------------------------------------------
(* Packets.                                                                  *)

TakenOver == {motions[n] : n \in {i \in 1 .. Len(motions) : destroy[i]}}

(* kate_motion_destroy, of what the packet took.                             *)
Destroyed == TakenOver

(* A slip: what only the text packets clear stays for another event.         *)
ClearedBitmapsLate ==
  /\ index' = [k \in Kinds |-> -1]
  /\ own' = [k \in Kinds |-> Null]
  /\ plain' = [p \in Plains |-> Null]
  /\ size' = [a \in Arrays |-> 0]
  /\ motions' = <<>> /\ destroy' = <<>> /\ indices' = <<>>
  /\ UNCHANGED <<bitmaps, meta>>
  /\ owner' = [b \in Blocks |-> IF b \in Destroyed THEN "gone" ELSE owner[b]]

(* kate_encode_state_clear_overrides: the text encoding and its like go back *)
(* to those of the kate_info.                                                *)
Cleared ==
  /\ index' = [k \in Kinds |-> -1]
  /\ own' = [k \in Kinds |-> Null]
  /\ plain' = [p \in Plains |-> Null]
  /\ size' = [a \in Arrays |-> 0]
  /\ motions' = <<>> /\ destroy' = <<>> /\ indices' = <<>>
  /\ bitmaps' = <<>>
  /\ meta' = <<>>
  /\ owner' = [b \in Blocks |-> IF b \in Destroyed THEN "gone" ELSE owner[b]]

(* kate_finalize_packet_buffer ends in kate_encode_state_clear_overrides.    *)
Finalized == Cleared

(* kate_encode_headers: the header that lists the next array.                *)
EncodeHeader ==
  /\ made < Len(Headers)
  /\ made' = made + 1
  /\ announced' = [announced EXCEPT ![Headers[made + 1]] = items[Headers[made + 1]]]
  /\ Finalized
  /\ event' = NoEvent
  /\ UNCHANGED <<items, holds, failures>>

Began == made = Len(Headers)

(* A keepalive, or the end of the stream.                                    *)
EncodeOther ==
  /\ "headers first" \in Promises => Began
  /\ Finalized
  /\ event' = NoEvent
  /\ UNCHANGED <<items, announced, made, holds, failures>>

EncodeText ==
  /\ "headers first" \in Promises => Began
  /\ event' = Encoded
  /\ Finalized
  /\ UNCHANGED <<items, announced, made, holds, failures>>

(* The packet is made and counted, and the copy for repeats is not: the      *)
(* client is told that the call failed.                                      *)
EncodeTextNotSaved ==
  /\ Fail
  /\ "headers first" \in Promises => Began
  /\ Finalized
  /\ event' = NoEvent
  /\ UNCHANGED <<items, announced, made, holds>>

(* kate_clear: what the encoder took over and has not used is nobody's.      *)
Clear ==
  /\ index' = [k \in Kinds |-> -1]
  /\ own' = [k \in Kinds |-> Null]
  /\ plain' = [p \in Plains |-> IF p \in Unset THEN "unset" ELSE Null]
  /\ size' = [a \in Arrays |-> 0]
  /\ motions' = <<>> /\ destroy' = <<>> /\ indices' = <<>>
  /\ bitmaps' = <<>>
  /\ meta' = <<>>
  /\ owner' = [b \in Blocks |-> IF owner[b] = "encoder" THEN "nobody" ELSE owner[b]]
  /\ announced' = [a \in Listed |-> 0]
  /\ made' = 0
  /\ event' = NoEvent
  /\ UNCHANGED <<items, holds, failures>>

Next ==
  \/ \E a \in Listed : AddItem(a)
  \/ \E k \in Kinds, i \in 0 .. MaxItems : SetIndex(k, i)
  \/ \E k \in Kinds : SetOwn(k, "mine")
  \/ \E p \in Plains : SetPlain(p, "other")
  \/ \E b \in {ByValue("mine")} \cup {ByIndex(i) : i \in 0 .. MaxItems} :
       AddBitmap(b)
  \/ \E m \in Motions : \E taken \in BOOLEAN : AddMotion(m, taken)
  \/ \E i \in 0 .. Len(Stored) - 1 : AddMotionIndex(i)
  \/ \E m \in Motions, a \in Arrays : NoRoom(Semantics[m], a)
  \/ \E m \in Metas, leaf \in Leaves : AddLeaf(m, leaf)
  \/ \E m \in Metas, i \in 1 .. MaxItems : RemoveLeaf(m, i)
  \/ \E m \in Metas : MergeMeta(m) \/ AddMeta(m)
  \/ EncodeHeader
  \/ EncodeOther
  \/ EncodeText
  \/ EncodeTextNotSaved
  \/ Clear

Spec == Init /\ [][Next]_vars
-----------------------------------------------------------------------------
(* Correctness.                                                              *)

Override == [by : {"index", "value"}, item : Nat, value : {"mine", Null}]

(* Every variable stays in the range of its C field.                         *)
TypeOK ==
  /\ items \in [Listed -> Nat]
  /\ announced \in [Listed -> Nat]
  /\ made \in 0 .. Len(Headers)
  /\ index \in [Kinds -> Nat \cup {-1}]
  /\ own \in [Kinds -> {"mine", Null}]
  /\ plain \in [Plains -> {"unset", Null, "other"}]
  /\ size \in [Arrays -> Nat]
  /\ motions \in Seq(Motions \cup {Null})
  /\ destroy \in Seq(BOOLEAN)
  /\ indices \in Seq(Nat)
  /\ bitmaps \in Seq(Override)
  /\ meta \in Seq(Leaves)
  /\ holds \in [Metas -> Seq(Leaves)]
  /\ owner \in [Blocks -> {"client", "encoder", "gone", "nobody"}]
  /\ failures \in Nat

(* Wherever the growth of the three arrays stops, none of them is shorter    *)
(* than the count that all of them are read up to.                           *)
ArraysCover ==
  /\ \A a \in Arrays : size[a] >= Len(motions)
  /\ Len(destroy) = Len(motions) /\ Len(indices) = Len(motions)

(* "check if we have that semantic already": no event has two motions that   *)
(* do the same thing, however they were named.                               *)
OneMotionEach ==
  \A i, j \in 1 .. Len(motions) : SemanticsAt(i) = SemanticsAt(j) => i = j

(* What the encoder was given is what it will destroy, once: it is in the    *)
(* list with its flag, and a motion in the list without the flag is still    *)
(* the client's.                                                             *)
TakenIsListed ==
  /\ \A n \in 1 .. Len(motions) : motions[n] # Null =>
       owner[motions[n]] = IF destroy[n] THEN "encoder" ELSE "client"
  /\ \A m \in Motions : owner[m] = "encoder" => m \in TakenOver

(* The items an event names by index were announced by the headers: a        *)
(* decoder finds them.                                                       *)
Found(c, a) == c.by = "index" => c.item < announced[a]

EventIsDecodable ==
  /\ \A k \in Kinds : Found(event.of[k], ArrayOf[k])
  /\ \A n \in 1 .. Len(event.motions) : Found(event.motions[n], "motions")
  /\ \A n \in 1 .. Len(event.bitmaps) : Found(event.bitmaps[n], "bitmaps")

(* No choice is made in two ways, and an index is that of an item.           *)
OneWay ==
  \A k \in Kinds : /\ own[k] = Null \/ index[k] = -1
                   /\ index[k] < items[ArrayOf[k]]

(* What a motion or a bitmap is known by is an item of the kate_info, too.   *)
ItemsExist ==
  /\ \A n \in 1 .. Len(motions) :
       motions[n] = Null =>
         "motions" \in Listed /\ indices[n] < items["motions"]
  /\ \A n \in 1 .. Len(bitmaps) :
       bitmaps[n].by = "index" =>
         "bitmaps" \in Listed /\ bitmaps[n].item < items["bitmaps"]

(* The headers made announce all there is, as no item comes after them.      *)
AllAnnounced ==
  "items first" \in Promises =>
    \A n \in 1 .. made : announced[Headers[n]] = items[Headers[n]]

(* Once a packet is made, the choices nothing set are like those not made.   *)
UnsetIsEarly == made > 0 => \A p \in Plains : plain[p] # "unset"

(* The inductive invariant: what the encoder keeps for the next event is     *)
(* sound, and so was the last event.                                         *)
ParamsInvariant ==
  /\ TypeOK /\ ArraysCover /\ OneMotionEach /\ TakenIsListed
  /\ OneWay /\ ItemsExist /\ EventIsDecodable /\ AllAnnounced /\ UnsetIsEarly

(* The choices of the next event: what nothing set counts for none.          *)
Pending ==
  [Encoded EXCEPT !.of =
     [k \in Kinds \cup Plains |->
        IF Encoded.of[k] = ByValue("unset") THEN Default ELSE Encoded.of[k]]]

(* The client's view: the choices, and what the last event carried.          *)
Choices == INSTANCE KateChoices WITH pending <- Pending, event <- event

(* An event carries all the choices made since the last packet and no other. *)
CarriesChoices == Choices!Spec
=============================================================================
