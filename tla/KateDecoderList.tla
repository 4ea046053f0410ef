-------------------------- MODULE KateDecoderList --------------------------
(***************************************************************************)
(* The list of active events of the decoder as it lies in memory: an array *)
(* whose entries kate_decode_state_flush_events removes by moving the last *)
(* entry into the hole, with an index that steps back to look at the entry *)
(* it has moved.  kate_encode_state_trim_events is the same loop.          *)
(*                                                                         *)
(* KateDecoder, whose list is a set, goes on beside it.                    *)
(***************************************************************************)
EXTENDS KateDecoder, Sequences, SequencesExt

VARIABLE
  slots            (* kds->active_events, up to n_active_events               *)

listVars == <<vars, slots>>

(* Slot n is overwritten with the last one, which is given up.               *)
Overwritten(s, n) ==
  [i \in 1 .. Len(s) - 1 |-> IF i = n THEN s[Len(s)] ELSE s[i]]

(* A slip: the loop goes on past the entry that was moved.                   *)
AgainPast(n) == n + 1

(* The n-- that the ++n of the loop undoes.                                  *)
Again(n) == n

Outside(a, g) == g < a.start \/ g > a.end

(* The array and the index after an iteration of the loop.                   *)
Looked(at, g) ==
  IF at.n > Len(at.slots) THEN at
  ELSE IF Outside(at.slots[at.n], g)
       THEN [slots |-> Overwritten(at.slots, at.n), n |-> Again(at.n)]
       ELSE [at EXCEPT !.n = @ + 1]

(* The loop of kate_decode_state_flush_events: each iteration either gives up*)
(* an entry or goes past one, so it ends after as many as there are entries. *)
Compacted(s, g) ==
  LET at[k \in Nat] ==
        IF k = 0 THEN [slots |-> s, n |-> 1] ELSE Looked(at[k - 1], g)
  IN at[Len(s)].slots

(* kate_decode_state_add_event puts an event whose id is new at the end.     *)
Added(s, p) ==
  IF p.id < 0 \/ \E n \in 1 .. Len(s) : s[n].id = p.id THEN s
  ELSE Append(s, Entry(p))

ListInit == Init /\ slots = <<>>

DeliverToList(p) ==
  /\ DecodeText(p) \/ DecodeRepeat(p)
  /\ slots' = Compacted(Added(slots, p), p.start)

LeaveList(p) ==
  /\ IgnoreRepeat(p) \/ DecodeFails(p) \/ DecodeOther(p)
  /\ UNCHANGED slots

SeekInList == Seek /\ slots' = Compacted(slots, -1)

ListNext ==
  \/ \E p \in Packets : DeliverToList(p) \/ LeaveList(p)
  \/ SeekInList

ListSpec == ListInit /\ [][ListNext]_listVars
-----------------------------------------------------------------------------
(* However entries move about as others are removed, the array holds every   *)
(* active event, no event that has ended, and none of them twice: what       *)
(* kate_decode_state.c:61 overwrites is what it should, and what it moves is *)
(* looked at too.                                                            *)
SlotsAreActive ==
  /\ TypeOK
  /\ ToSet(slots) = active
  /\ \A i, j \in 1 .. Len(slots) : slots[i] = slots[j] => i = j
=============================================================================
