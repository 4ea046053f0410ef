---------------------------- MODULE KateChoices ----------------------------
(***************************************************************************)
(* What the parameters of an event promise to the client of an encoder: a  *)
(* choice stays until the next packet that is made, an event carries all   *)
(* the choices made since the packet before it and no other, in the order  *)
(* they were made, and a call that fails chooses nothing.                  *)
(***************************************************************************)
EXTENDS Naturals, Sequences

CONSTANTS
  Kinds,           (* what is chosen by index or by value: region, style...   *)
  Plains           (* what is only set: text encoding, language...            *)

VARIABLES
  pending,         (* the choices of the next event                           *)
  event            (* the choices carried by the event of the last call       *)

Default == [by |-> "default", item |-> 0, value |-> "NULL"]

Lists == {"motions", "bitmaps", "meta"}

(* The choices of an event that has none.                                    *)
Nothing == [of |-> [k \in Kinds \cup Plains |-> Default],
            motions |-> <<>>, bitmaps |-> <<>>, meta |-> <<>>]

Init == pending = Nothing /\ event = Nothing

(* One thing is chosen anew: what is chosen by index stays so.               *)
Choose(k) ==
  /\ pending' = [pending EXCEPT !.of[k] = pending'.of[k]]
  /\ k \in Kinds => pending.of[k].by \in {"default", pending'.of[k].by}
  /\ event' = Nothing

(* Something comes after what is in one of the lists.                        *)
Add(l) ==
  /\ pending' = [pending EXCEPT ![l] = pending'[l]]
  /\ Len(pending'[l]) > Len(pending[l])
  /\ SubSeq(pending'[l], 1, Len(pending[l])) = pending[l]
  /\ event' = Nothing

(* An event carries the choices.                                             *)
Tell == event' = pending /\ pending' = Nothing

(* Another packet, or one that the client never gets, takes them away.       *)
Forget == pending' = Nothing /\ event' = Nothing

(* A call that fails, or that is about something else, chooses nothing.      *)
Refuse == pending' = pending /\ event' = Nothing

Next ==
  \/ \E k \in Kinds \cup Plains : Choose(k)
  \/ \E l \in Lists : Add(l)
  \/ Tell
  \/ Forget
  \/ Refuse

Spec == Init /\ [][Next]_<<pending, event>>
=============================================================================
