---------------------------- MODULE KateChannel ----------------------------
(***************************************************************************)
(* What a Kate stream promises to a client that encodes in time order and  *)
(* to a player that reads it from its start: each event is delivered,      *)
(* once, in the order the events were encoded.  Repeats, keepalives,       *)
(* headers and failed calls do not show.                                   *)
(***************************************************************************)
EXTENDS Integers, Sequences

CONSTANT
  Events           (* what a client encodes                                   *)

VARIABLES
  sent,            (* the events that were encoded, in order                  *)
  received         (* the events that were delivered, in order                *)

vars == <<sent, received>>

Init == sent = <<>> /\ received = <<>>

Send ==
  /\ sent' # <<>>
  /\ sent'[Len(sent')] \in Events
  /\ sent' = Append(sent, sent'[Len(sent')])
  /\ UNCHANGED received

Receive ==
  /\ Len(received) < Len(sent)
  /\ received' = Append(received, sent[Len(received) + 1])
  /\ UNCHANGED sent

Next == Send \/ Receive

Spec == Init /\ [][Next]_vars /\ WF_vars(Receive)
=============================================================================
