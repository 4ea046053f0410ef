---------------------------- MODULE KateDecoder ----------------------------
(***************************************************************************)
(* The data path of the Kate decoder: kate_decode_packetin and the state   *)
(* it keeps in src/src/kate_decode_state.c.                                *)
(*                                                                         *)
(* A text packet always makes an event.  A repeat packet makes one only    *)
(* when the decoder does not know its event, which it tells by looking for *)
(* the id in the list of active events.  The list is pruned each time an   *)
(* event is made, of the events that do not contain its start.             *)
(*                                                                         *)
(* The list is a set: where an entry lies in the array decides nothing;    *)
(* KateDecoderList has the array.                                          *)
(***************************************************************************)
EXTENDS Integers

CONSTANT
  Packets          (* the packets that may reach the decoder                  *)

(* first: the packet type in its first byte; clean: the rest of it parses;   *)
(* id: negative for an event without one; start, end: its times.             *)
ASSUME PacketsAssumption ==
  \A p \in Packets : /\ p.first \in STRING /\ p.clean \in BOOLEAN
                     /\ p.id \in Int /\ p.start \in Nat /\ p.end \in Nat
                     /\ p.start <= p.end

VARIABLES
  active,          (* kds->active_events[0 .. n_active_events-1]              *)
  event            (* kds->event, what kate_decode_eventout returns           *)

vars == <<active, event>>

EventOf(p) == [id |-> p.id, start |-> p.start, end |-> p.end]
Entry(p) == [id |-> p.id, start |-> p.start, end |-> p.end - 1]

NoEvent == [id |-> -1, start |-> -1, end |-> -1]

Known(S, i) == \E a \in S : a.id = i

(* kate_decode_state_add_event, of an event that has an id.                  *)
Registered(S, p) ==
  IF p.id < 0 \/ Known(S, p.id) THEN S ELSE S \cup {Entry(p)}

(* Slips: events that have not started yet are kept, or those at their last  *)
(* granule are not.                                                          *)
FlushedEnded(S, g) == {a \in S : g <= a.end}
FlushedEarly(S, g) == {a \in S : a.start <= g /\ g < a.end}

(* kate_decode_state_flush_events.                                           *)
Flushed(S, g) == {a \in S : a.start <= g /\ g <= a.end}

Init == active = {} /\ event = NoEvent

(* The packet is decoded to an event, which is registered.                   *)
Deliver(p) ==
  /\ p.clean
  /\ event' = EventOf(p)
  /\ active' = Flushed(Registered(active, p), p.start)

DecodeText(p) == p.first = "text" /\ Deliver(p)

IsKnown(p) == p.id >= 0 /\ Known(active, p.id)

DecodeRepeat(p) == p.first = "repeat" /\ ~IsKnown(p) /\ Deliver(p)

IgnoreRepeat(p) ==
  /\ p.first = "repeat" /\ IsKnown(p)
  /\ event' = NoEvent
  /\ UNCHANGED active

(* A slip: the event is registered before it is known to be sound.           *)
DecodeFailsLate(p) ==
  /\ p.first \in {"text", "repeat"}
  /\ event' = NoEvent
  /\ active' = Registered(active, p)

(* The packet does not parse, or memory runs out: the event is thrown away.  *)
DecodeFails(p) ==
  /\ p.first \in {"text", "repeat"}
  /\ event' = NoEvent
  /\ UNCHANGED active

(* Headers, keepalives, the end of the stream and unknown packets.           *)
DecodeOther(p) ==
  /\ p.first \notin {"text", "repeat"}
  /\ event' = NoEvent
  /\ UNCHANGED active

(* kate_decode_packetin, when nothing goes wrong.                            *)
PacketIn(p) ==
  \/ DecodeText(p)
  \/ DecodeRepeat(p)
  \/ IgnoreRepeat(p)
  \/ DecodeOther(p)

(* kate_decode_seek flushes with a granule no event contains.                *)
Seek == active' = Flushed(active, -1) /\ UNCHANGED event

Next ==
  \/ \E p \in Packets : PacketIn(p) \/ DecodeFails(p)
  \/ Seek

Spec == Init /\ [][Next]_vars
-----------------------------------------------------------------------------
Event == [id : Int, start : Int, end : Int]

(* The list and the event are well formed: only events that have an id and a *)
(* duration stay in the list.                                                *)
TypeOK ==
  /\ active \subseteq {e \in Event : e.id >= 0 /\ 0 <= e.start /\ e.start <= e.end}
  /\ event \in Event

(* Whatever packets arrive, the list never grows past what is active at one  *)
(* time: some granule lies within all of the events it holds.                *)
ActiveTogether ==
  \A a, b \in active : a.start <= b.end

(* The decoder never takes one event for two: no id is in the list twice,    *)
(* though streams that reuse an id may follow one another.                   *)
ActiveOnce ==
  \A a, b \in active : a.id = b.id => a = b
=============================================================================
