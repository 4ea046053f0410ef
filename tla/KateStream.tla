----------------------------- MODULE KateStream -----------------------------
(***************************************************************************)
(* A stream from its encoder to its decoder.  The client encodes, the      *)
(* player takes one packet after the other from the stream to the decoder, *)
(* some of which may be lost or damaged, and may seek: it lands on a packet*)
(* and resumes at the base of its granule position.                        *)
(*                                                                         *)
(* The encoder never leaves bytes of a failed call in its buffer here, so  *)
(* that every packet of the stream parses.                                 *)
(***************************************************************************)
EXTENDS KateEncoder, FiniteSets

CONSTANTS
  MaxSeeks,                          (* how many times the player seeks       *)
  MaxLosses                          (* how many packets are lost or damaged  *)

ASSUME StreamAssumption ==
  /\ MaxSeeks \in Nat
  /\ MaxLosses \in Nat
  /\ Faults \cap {"content", "packet"} = {}

VARIABLES
  active, event,   (* as in KateDecoder                                       *)
  texts,           (* where the text packets are in the stream, in order      *)
  position,        (* how much of the stream the player has gone past         *)
  delivered,       (* the events delivered since the start or the last seek   *)
  resumed,         (* where the player started from, or resumed after a seek  *)
  landed,          (* the packet the last seek landed on, 0 before any        *)
  lost,            (* the packets that were lost or damaged                   *)
  seeks            (* how many times the player has sought                    *)

decoder == <<active, event>>
player == <<position, delivered, resumed, landed, lost, seeks>>
streamVars == <<encoder, decoder, player, texts>>

Dec == INSTANCE KateDecoder WITH Packets <- {p \in Packet : p.start <= p.end}

-----------------------------------------------------------------------------
StreamInit ==
  /\ Init
  /\ Dec!Init
  /\ texts = <<>>
  /\ position = NumHeaders
  /\ delivered = <<>>
  /\ resumed = NumHeaders
  /\ landed = 0
  /\ lost = {}
  /\ seeks = 0

Encode ==
  /\ Next
  /\ texts' = IF stream' # stream /\ stream'[Len(stream')].op = "text"
              THEN Append(texts, Len(stream')) ELSE texts
  /\ UNCHANGED <<decoder, player>>

(* The player hands the next packet to kate_decode_packetin, and takes what  *)
(* kate_decode_eventout has.                                                 *)
Play ==
  /\ position < Len(stream)
  /\ Dec!PacketIn(stream[position + 1])
  /\ position' = position + 1
  /\ delivered' = IF event' = Dec!NoEvent THEN delivered
                  ELSE Append(delivered, event')
  /\ UNCHANGED <<encoder, texts, resumed, landed, lost, seeks>>

Skip ==
  /\ position < Len(stream)
  /\ Cardinality(lost) < MaxLosses
  /\ position' = position + 1
  /\ lost' = lost \cup {position + 1}
  /\ UNCHANGED <<encoder, texts, delivered, resumed, landed, seeks>>

(* The packet never reaches the decoder.                                     *)
Lose == Skip /\ UNCHANGED decoder

(* It reaches the decoder damaged.                                           *)
Damage == Skip /\ Dec!DecodeFails(stream[position + 1])

TimeOf(i) == BaseOf(stream[i].gp) + OffsetOf(stream[i].gp)

(* A slip: the list of active events survives a seek.                        *)
SeekUnnoticed == UNCHANGED decoder

(* The player tells the decoder.                                             *)
NoticeSeek == Dec!Seek

(* The player lands on packet i, and resumes at the first packet whose time  *)
(* is not before the base of i.                                              *)
SeekTo(i) ==
  /\ seeks < MaxSeeks
  /\ stream[i].op \in DataOps
  /\ NoticeSeek
  /\ \E k \in NumHeaders + 1 .. i :
       /\ TimeOf(k) >= BaseOf(stream[i].gp)
       /\ \A j \in NumHeaders + 1 .. k - 1 : TimeOf(j) < BaseOf(stream[i].gp)
       /\ position' = k - 1 /\ resumed' = k - 1
  /\ landed' = i
  /\ delivered' = <<>>
  /\ lost' = {}
  /\ seeks' = seeks + 1
  /\ UNCHANGED <<encoder, texts>>

StreamNext ==
  \/ Encode
  \/ Play
  \/ Lose
  \/ Damage
  \/ \E i \in 1 .. Len(stream) : SeekTo(i)

(* The player goes on as long as the stream does.                            *)
StreamSpec == StreamInit /\ [][StreamNext]_streamVars /\ WF_streamVars(Play)
-----------------------------------------------------------------------------
Delivered(i) == \E k \in 1 .. Len(delivered) : delivered[k].id = i

(* After a seek, by the time the player is back at the packet it landed on,  *)
(* it has been given every event that is active there.                       *)
SeekRecovers ==
  landed # 0 /\ position >= landed /\ lost = {} =>
    \A j \in 1 .. landed :
      (/\ stream[j].op = "text"
       /\ stream[j].start <= stream[landed].t
       /\ stream[landed].t < stream[j].end)
      => Delivered(stream[j].id)

(* A packet of an event that reached the decoder, text or repeat, since the  *)
(* player resumed, is enough for the event to have been delivered: what is   *)
(* lost is made good by the next repeat.                                     *)
HeardIsDelivered ==
  \A k \in resumed + 1 .. position :
    stream[k].op \in Carriers /\ k \notin lost => Delivered(stream[k].id)

(* "if this is a repeat, check if we have this event already": no event is   *)
(* delivered twice by a player that has not sought since.                    *)
DeliveredOnce ==
  \A j, k \in 1 .. Len(delivered) : delivered[j].id = delivered[k].id => j = k

-----------------------------------------------------------------------------
(* The inductive invariant of the player, for any client.                    *)

(* Every packet of the stream holds what its call wrote and nothing else.    *)
Parses ==
  /\ kpb = Empty
  /\ \A d \in timings : d.data \in {"none", "text"}
  /\ \A i \in 1 .. Len(stream) : stream[i].clean /\ stream[i].first = stream[i].op

(* The player goes past packets that are in the stream, from where it        *)
(* resumed on.                                                               *)
PlayerTypeOK ==
  /\ position \in Nat /\ resumed \in Nat /\ landed \in Nat
  /\ NumHeaders <= resumed /\ resumed <= position
  /\ position = resumed \/ position <= Len(stream)
  /\ landed <= Len(stream)
  /\ delivered \in Seq(Dec!Event)
  /\ active \subseteq Dec!Event
  /\ \A a \in active : a.start >= 0

(* What the decoder takes for a repeat of an event it knows has been given   *)
(* to the player since it last sought.                                       *)
ActiveIsDelivered == \A a \in active : Delivered(a.id)

HeardInvariant ==
  /\ TypeOK
  /\ Parses
  /\ PlayerTypeOK
  /\ ActiveIsDelivered
  /\ HeardIsDelivered

-----------------------------------------------------------------------------
(* What a seek adds to it, in a stream whose headers come first.             *)

HeadersLead ==
  /\ packetno < NumHeaders - 1 => Len(stream) = packetno + 1
  /\ packetno >= NumHeaders - 1 => Len(stream) >= NumHeaders
  /\ \A i \in 1 .. Len(stream) : stream[i].op # "header" => i > NumHeaders

(* No packet between the base of the packet the player landed on and that    *)
(* packet lies before the place where the player resumed.                    *)
ResumedInTime ==
  landed # 0 =>
    /\ stream[landed].op \in DataOps
    /\ \A k \in NumHeaders + 1 .. landed :
         TimeOf(k) >= BaseOf(stream[landed].gp) => k > resumed

SeekInvariant == HeardInvariant /\ HeadersLead /\ ResumedInTime

-----------------------------------------------------------------------------
(* What the stream promises of the events that are encoded.                  *)

SentEvents == [k \in 1 .. Len(texts) |-> Dec!EventOf(stream[texts[k]])]

Channel ==
  INSTANCE KateChannel WITH
    Events <- Dec!Event, sent <- SentEvents, received <- delivered

(* Read from its start, without a loss or a seek, the stream is a channel    *)
(* that delivers each event once and in order.                               *)
IsChannel == Channel!Spec

-----------------------------------------------------------------------------
(* The inductive invariant of that channel, for a client that keeps order.   *)

(* Packets are in the order of their times, the clock's being the last.      *)
TimesInOrder ==
  \A j \in 1 .. Len(stream) : stream[j].op \in DataOps =>
    /\ stream[j].t <= clock
    /\ \A i \in 1 .. j : stream[i].op \in DataOps => stream[i].t <= stream[j].t

TextsSound ==
  \A j \in 1 .. Len(stream) : stream[j].op = "text" =>
    /\ stream[j].id \in Nat
    /\ stream[j].start = stream[j].t /\ stream[j].start <= stream[j].end
    /\ \A i \in 1 .. j - 1 : stream[i].op = "text" => stream[i].id # stream[j].id

(* texts lists the text packets of the stream, in their order.               *)
TextsListed ==
  /\ texts \in Seq(1 .. Len(stream))
  /\ \A k \in 1 .. Len(texts) : stream[texts[k]].op = "text"
  /\ \A k, l \in 1 .. Len(texts) : k < l => texts[k] < texts[l]
  /\ \A i \in 1 .. Len(stream) : stream[i].op = "text" =>
       \E k \in 1 .. Len(texts) : texts[k] = i

(* The player has been given the events of the text packets it went past.    *)
GivenInOrder ==
  /\ Len(delivered) <= Len(texts)
  /\ \A k \in 1 .. Len(delivered) :
       texts[k] <= position /\ delivered[k] = Dec!EventOf(stream[texts[k]])
  /\ \A k \in Len(delivered) + 1 .. Len(texts) : position < texts[k]

(* The decoder knows every event that is active at the last text packet it   *)
(* was given, and no other.                                                  *)
ActiveIsKnown ==
  /\ \A a \in active :
       \E j \in 1 .. position :
         j <= Len(stream) /\ stream[j].op = "text" /\ a = Dec!Entry(stream[j])
  /\ \A j \in 1 .. Len(stream) :
       (/\ j <= position /\ stream[j].op = "text"
        /\ \A l \in 1 .. Len(stream) :
             l <= position /\ stream[l].op = "text" => stream[l].start < stream[j].end)
       => Dec!Known(active, stream[j].id)

ChannelInvariant ==
  /\ HeardInvariant
  /\ AnyOrderInvariant
  /\ HeadersLead
  /\ TimesInOrder
  /\ TextsSound
  /\ TextsListed
  /\ GivenInOrder
  /\ ActiveIsKnown
  /\ lost = {} /\ seeks = 0 /\ resumed = NumHeaders
=============================================================================
