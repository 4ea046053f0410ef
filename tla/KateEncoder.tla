---------------------------- MODULE KateEncoder ----------------------------
(***************************************************************************)
(* The data path of the Kate encoder: src/src/kate_encode.c and the event  *)
(* timings it keeps in src/src/kate_encode_state.c.  One kate_state is     *)
(* driven by one client thread, so every API call is one step.             *)
(*                                                                         *)
(* All times are granules.  A granule position packs the time of the       *)
(* earliest event still needed (the base, high bits) and the distance of   *)
(* the packet from it (the offset, granule_shift low bits); a player seeks *)
(* to the base and reads on.  The encoder keeps, for each event that is    *)
(* still active, the time its packet was last put in the stream.           *)
(*                                                                         *)
(* The timings array is a set here: two entries that agree on every field  *)
(* are interchangeable, and the one thing the order decides, which event   *)
(* kate_encode_repeat picks, is left open.                                 *)
(***************************************************************************)
EXTENDS Integers, Sequences

CONSTANTS
  MaxTime,         (* the last granule a client uses (a bound)                *)
  MaxPackets,      (* how many data packets a stream may hold (a bound)       *)
  MaxFailures,     (* how many calls may fail (a bound)                       *)
  NumHeaders,      (* NUM_HEADERS, the header packets of a stream             *)
  OffsetRange,     (* 1 << granule_shift                                      *)
  BitOr(_, _),     (* the C operator | on non negative integers               *)
  Thresholds,      (* the thresholds clients pass to kate_encode_repeat       *)
  Faults,          (* which of the failures in FaultKinds can happen          *)
  Promises         (* which of the rules in PromiseKinds the client follows   *)

(* The points where a call fails after it has changed the state: a header    *)
(* item or a motion that cannot be encoded, and the allocations of the       *)
(* timings array, of the packet, of the saved copy of an event packet and of *)
(* its repeat.                                                               *)
FaultKinds == {"content", "slot", "packet", "save", "repeat"}

(* "headers": all the headers are encoded before any data packet;            *)
(* "order": successive calls never go back in time;                          *)
(* "lifetime": no event outlives the lifetime granule_shift was chosen for.  *)
PromiseKinds == {"headers", "order", "lifetime"}

Times == 0 .. MaxTime

ASSUME ConstantsAssumption ==
  /\ MaxTime \in Nat
  /\ MaxPackets \in Nat
  /\ MaxFailures \in Nat
  /\ NumHeaders \in Nat \ {0}
  /\ OffsetRange \in Nat \ {0}
  /\ Thresholds \subseteq Nat
  /\ Faults \subseteq FaultKinds
  /\ Promises \subseteq PromiseKinds

ASSUME BitOrAssumption ==
  \A a, b \in Times : BitOr(a, b) \in Nat /\ BitOr(a, 0) = a

VARIABLES
  timings,         (* kes->timings[0 .. ntimings-1]                           *)
  id,              (* kes->id, the id of the next event                       *)
  granulepos,      (* kes->granulepos                                         *)
  packetno,        (* kes->packetno                                           *)
  eos,             (* kes->eos                                                *)
  kpb,             (* which packet the bytes left in kes->kpb start with      *)
  stream,          (* every packet handed to the client, in order             *)
  clock,           (* the latest time the client has passed to a call         *)
  failures         (* how many calls have failed, rejected ones included      *)

vars == <<timings, id, granulepos, packetno, eos, kpb, stream, clock, failures>>
(* The same, in the modules that have other variables beside these.          *)
encoder == vars

-----------------------------------------------------------------------------
(* Packets and timings.                                                      *)

PacketOps == {"header", "text", "keepalive", "repeat", "end"}
NoId == -1
Empty == "empty"

(* original_data: absent, an untouched text packet, a text packet with bytes *)
(* of an earlier failed call before it, or a packet that does not start with *)
(* the text packet type at all.                                              *)
SavedData == {"none", "text", "polluted", "other"}

Timing == [start : Times, end : Times, id : Nat, repeat : Times,
           data : SavedData]

(* op: the call that made the packet; first: the packet type in its first    *)
(* byte; clean: it holds nothing but what that call wrote.                   *)
Packet == [op : PacketOps, first : PacketOps, clean : BOOLEAN,
           id : Nat \cup {NoId}, start : Times, end : Times, t : Times,
           gp : Nat, no : Int]

PacketOf(op, i, start, end, t, gp, no) ==
  [op |-> op, first |-> IF kpb = Empty THEN op ELSE kpb, clean |-> kpb = Empty,
   id |-> i, start |-> start, end |-> end, t |-> t, gp |-> gp, no |-> no]

(* (base << granule_shift) | offset, for an offset that is not negative.     *)
Granule(base, offset) ==
  BitOr(base, offset \div OffsetRange) * OffsetRange + (offset % OffsetRange)

(* kate_granule_split_time. *)
BaseOf(gp) == gp \div OffsetRange
OffsetOf(gp) == gp % OffsetRange

(* Slips the runs are checked against: an event is trimmed one granule early, *)
(* or kept one too long.                                                     *)
TrimmedEarly(S, t) == {d \in S : d.end > t + 1}
TrimmedLate(S, t) == {d \in S : d.end >= t}

(* kate_encode_state_trim_events. *)
Trimmed(S, t) == {d \in S : d.end > t}

NewTiming(t0, t1, data) ==
  [start |-> t0, end |-> t1, id |-> id, repeat |-> t0, data |-> data]

IsEarliest(S, b) ==
  /\ \E d \in S : d.repeat = b
  /\ \A d \in S : b <= d.repeat

IsLatest(S, e) ==
  /\ \E d \in S : d.end = e
  /\ \A d \in S : d.end <= e

(* The base of a packet at time t that is not itself an event.               *)
IsBase(S, t, b) == IF S = {} THEN b = t ELSE IsEarliest(S, b)

(* A slip: the granule is not compared with the last one.                    *)
AcceptedUnchecked(b, t) == b <= t

(* The granule position packs, and does not go back from the last one.       *)
(* A negative offset sets the sign bit, and is refused as a negative granule. *)
Accepted(b, t) == b <= t /\ Granule(b, t - b) >= granulepos

-----------------------------------------------------------------------------
Init ==
  /\ timings = {}
  /\ id = 0
  /\ granulepos = 0
  /\ packetno = -1
  /\ eos = FALSE
  /\ kpb = Empty
  /\ stream = <<>>
  /\ clock = 0
  /\ failures = 0

Fail ==
  /\ failures < MaxFailures
  /\ failures' = failures + 1

Room == Len(stream) < NumHeaders + MaxPackets

(* A data call at time t that the library lets in and a client makes.        *)
Call(t) ==
  /\ ~eos
  /\ "headers" \in Promises => packetno >= NumHeaders - 1
  /\ "order" \in Promises => clock <= t
  /\ clock' = IF clock < t THEN t ELSE clock

Started(op) == kpb' = IF kpb = Empty THEN op ELSE kpb

Emit(p) == Room /\ stream' = Append(stream, p) /\ kpb' = Empty

(* kate_encode_headers emits the header after the last packet, if any.       *)
EncodeHeaders ==
  /\ ~eos
  /\ packetno + 1 < NumHeaders
  /\ Emit(PacketOf("header", NoId, 0, 0, 0, granulepos, packetno + 1))
  /\ packetno' = packetno + 1
  /\ UNCHANGED <<timings, id, granulepos, eos, clock, failures>>

(* A header that holds something the format cannot represent, as a canvas    *)
(* size, fails after part of it is written.                                  *)
EncodeHeadersFails ==
  /\ ~eos
  /\ packetno + 1 < NumHeaders
  /\ "content" \in Faults /\ Fail
  /\ Started("header")
  /\ UNCHANGED <<timings, id, granulepos, packetno, eos, stream, clock>>

(* kate_encode_text_raw_times(t0, t1), up to the check of the granule.       *)
TextCall(t0, t1) ==
  /\ Call(t0)
  /\ t0 <= t1
  /\ "lifetime" \in Promises => t1 - t0 <= OffsetRange

WithNew(t0, t1) == Trimmed(timings, t0) \cup {NewTiming(t0, t1, "none")}

(* KATE_E_BAD_GRANULE: the timing that was added stays behind.               *)
EncodeTextRejected(t0, t1) ==
  /\ TextCall(t0, t1) /\ Fail
  /\ \E b \in Times : IsEarliest(WithNew(t0, t1), b) /\ ~Accepted(b, t0)
  /\ timings' = WithNew(t0, t1)
  /\ UNCHANGED <<id, granulepos, packetno, eos, kpb, stream>>

(* The timings array could not grow: nothing but the trim happened.          *)
EncodeTextNoSlot(t0, t1) ==
  /\ "slot" \in Faults /\ Fail
  /\ TextCall(t0, t1)
  /\ timings' = Trimmed(timings, t0)
  /\ UNCHANGED <<id, granulepos, packetno, eos, kpb, stream>>

(* A motion cannot be encoded: the start of the packet stays in the buffer.  *)
EncodeTextBadMotion(t0, t1) ==
  /\ "content" \in Faults /\ Fail
  /\ TextCall(t0, t1)
  /\ \E b \in Times : IsEarliest(WithNew(t0, t1), b) /\ Accepted(b, t0)
  /\ timings' = WithNew(t0, t1)
  /\ Started("text")
  /\ UNCHANGED <<id, granulepos, packetno, eos, stream>>

(* No memory for the packet: the granule position has moved already.         *)
EncodeTextNoPacket(t0, t1) ==
  /\ "packet" \in Faults /\ Fail
  /\ TextCall(t0, t1)
  /\ \E b \in Times :
       /\ IsEarliest(WithNew(t0, t1), b)
       /\ Accepted(b, t0)
       /\ granulepos' = Granule(b, t0 - b)
  /\ timings' = WithNew(t0, t1)
  /\ Started("text")
  /\ UNCHANGED <<id, packetno, eos, stream>>

(* No memory for the saved copy: the packet is complete and numbered, but    *)
(* the client is told the call failed and does not use it.                   *)
EncodeTextNotSaved(t0, t1) ==
  /\ "save" \in Faults /\ Fail
  /\ TextCall(t0, t1)
  /\ id < MaxPackets
  /\ \E b \in Times :
       /\ IsEarliest(WithNew(t0, t1), b)
       /\ Accepted(b, t0)
       /\ granulepos' = Granule(b, t0 - b)
  /\ timings' = WithNew(t0, t1)
  /\ kpb' = Empty
  /\ packetno' = packetno + 1
  /\ id' = id + 1
  /\ UNCHANGED <<eos, stream>>

SavedAs == CASE kpb = Empty -> "text" [] kpb = "text" -> "polluted"
             [] OTHER -> "other"

EncodeText(t0, t1) ==
  /\ TextCall(t0, t1)
  /\ id < MaxPackets
  /\ \E b \in Times :
       /\ IsEarliest(WithNew(t0, t1), b)
       /\ Accepted(b, t0)
       /\ granulepos' = Granule(b, t0 - b)
       /\ Emit(PacketOf("text", id, t0, t1, t0, granulepos', packetno + 1))
  /\ timings' = Trimmed(timings, t0) \cup {NewTiming(t0, t1, SavedAs)}
  /\ packetno' = packetno + 1
  /\ id' = id + 1
  /\ UNCHANGED <<eos, failures>>

(* kate_encode_keepalive_raw_times(t).                                       *)
KeepaliveRejected(t) ==
  /\ Call(t) /\ Fail
  /\ \E b \in Times : IsBase(Trimmed(timings, t), t, b) /\ ~Accepted(b, t)
  /\ timings' = Trimmed(timings, t)
  /\ UNCHANGED <<id, granulepos, packetno, eos, kpb, stream>>

KeepaliveGranule(t) ==
  \E b \in Times :
    /\ IsBase(Trimmed(timings, t), t, b)
    /\ Accepted(b, t)
    /\ granulepos' = Granule(b, t - b)

KeepaliveNoSlot(t) ==
  /\ "slot" \in Faults /\ Fail
  /\ Call(t)
  /\ KeepaliveGranule(t)
  /\ timings' = Trimmed(timings, t)
  /\ UNCHANGED <<id, packetno, eos, kpb, stream>>

KeepaliveNoPacket(t) ==
  /\ "packet" \in Faults /\ Fail
  /\ Call(t)
  /\ KeepaliveGranule(t)
  /\ timings' = Trimmed(timings, t) \cup {NewTiming(t, t, "none")}
  /\ Started("keepalive")
  /\ UNCHANGED <<id, packetno, eos, stream>>

EncodeKeepalive(t) ==
  /\ Call(t)
  /\ KeepaliveGranule(t)
  /\ timings' = Trimmed(timings, t) \cup {NewTiming(t, t, "none")}
  /\ Emit(PacketOf("keepalive", NoId, t, t, t, granulepos', packetno + 1))
  /\ packetno' = packetno + 1
  /\ UNCHANGED <<id, eos, failures>>

(* kate_encode_repeat_raw_times(t, threshold).                               *)
Due(S, t, threshold) ==
  {d \in S : /\ IF threshold = 0 THEN d.repeat < t ELSE d.repeat <= t - threshold
             /\ d.data \in {"text", "polluted"}}

(* Nothing to repeat, or a granule that would go back.                       *)
RepeatNothing(t, threshold) ==
  /\ Call(t)
  /\ \E b \in Times :
       /\ IsBase(Trimmed(timings, t), t, b)
       /\ Accepted(b, t) => Due(Trimmed(timings, t), t, threshold) = {}
  /\ timings' = Trimmed(timings, t)
  /\ UNCHANGED <<id, granulepos, packetno, eos, kpb, stream, failures>>

(* A slip: every event is marked as repeated, not the one that is.           *)
RepeatedAll(S, d, t) == {[e EXCEPT !.repeat = t] : e \in S}

Repeated(S, d, t) == (S \ {d}) \cup {[d EXCEPT !.repeat = t]}

(* repeat_data is allocated by the first repeat of an event.                 *)
HasRepeatData(d) ==
  \E k \in 1 .. Len(stream) : stream[k].op = "repeat" /\ stream[k].id = d.id

RepeatNoMemory(t, threshold) ==
  /\ "repeat" \in Faults /\ Fail
  /\ Call(t)
  /\ \E b \in Times : IsBase(Trimmed(timings, t), t, b) /\ Accepted(b, t)
  /\ \E d \in Due(Trimmed(timings, t), t, threshold) :
       /\ ~HasRepeatData(d)
       /\ timings' = Repeated(Trimmed(timings, t), d, t)
  /\ UNCHANGED <<id, granulepos, packetno, eos, kpb, stream>>

(* The packet is a copy of the saved one: the bit buffer is not involved,    *)
(* and the packet number does not advance.                                   *)
RepeatOf(d, t, gp) ==
  [op |-> "repeat", first |-> "repeat", clean |-> d.data = "text",
   id |-> d.id, start |-> d.start, end |-> d.end, t |-> t, gp |-> gp,
   no |-> packetno]

EncodeRepeat(t, threshold) ==
  /\ Call(t)
  /\ Room
  /\ \E b \in Times :
       /\ IsBase(Trimmed(timings, t), t, b)
       /\ Accepted(b, t)
       /\ granulepos' = Granule(b, t - b)
  /\ \E d \in Due(Trimmed(timings, t), t, threshold) :
       /\ timings' = Repeated(Trimmed(timings, t), d, t)
       /\ stream' = Append(stream, RepeatOf(d, t, granulepos'))
  /\ UNCHANGED <<id, packetno, eos, kpb, failures>>

(* kate_encode_finish_raw_times(t), t negative asking for the end of the     *)
(* last event.                                                               *)
FinishCall(t) ==
  /\ ~eos
  /\ "headers" \in Promises => packetno >= NumHeaders - 1
  /\ "order" \in Promises => t < 0 \/ clock <= t
  /\ clock' = IF clock < t THEN t ELSE clock

IsEnd(t, e) ==
  IF t >= 0 THEN e = t
  ELSE IF timings = {} THEN e = 0
  ELSE IsLatest(timings, e)

FinishRejected(t) ==
  /\ FinishCall(t) /\ Fail
  /\ \E e \in Times : IsEnd(t, e) /\ e * OffsetRange < granulepos
  /\ timings' = Trimmed(timings, t)
  /\ UNCHANGED <<id, granulepos, packetno, eos, kpb, stream>>

FinishNoPacket(t) ==
  /\ "packet" \in Faults /\ Fail
  /\ FinishCall(t)
  /\ \E e \in Times :
       /\ IsEnd(t, e)
       /\ e * OffsetRange >= granulepos
       /\ granulepos' = e * OffsetRange
  /\ timings' = Trimmed(timings, t)
  /\ Started("end")
  /\ eos' = TRUE
  /\ UNCHANGED <<id, packetno, stream>>

EncodeFinish(t) ==
  /\ FinishCall(t)
  /\ \E e \in Times :
       /\ IsEnd(t, e)
       /\ e * OffsetRange >= granulepos
       /\ granulepos' = e * OffsetRange
       /\ Emit(PacketOf("end", NoId, e, e, e, granulepos', packetno + 1))
  /\ timings' = Trimmed(timings, t)
  /\ eos' = TRUE
  /\ packetno' = packetno + 1
  /\ UNCHANGED <<id, failures>>

TextStep(t0, t1) ==
  \/ EncodeTextRejected(t0, t1)
  \/ EncodeTextNoSlot(t0, t1)
  \/ EncodeTextBadMotion(t0, t1)
  \/ EncodeTextNoPacket(t0, t1)
  \/ EncodeTextNotSaved(t0, t1)
  \/ EncodeText(t0, t1)

KeepaliveStep(t) ==
  \/ KeepaliveRejected(t)
  \/ KeepaliveNoSlot(t)
  \/ KeepaliveNoPacket(t)
  \/ EncodeKeepalive(t)

RepeatStep(t, threshold) ==
  \/ RepeatNothing(t, threshold)
  \/ RepeatNoMemory(t, threshold)
  \/ EncodeRepeat(t, threshold)

FinishStep(t) ==
  \/ FinishRejected(t)
  \/ FinishNoPacket(t)
  \/ EncodeFinish(t)

Next ==
  \/ EncodeHeaders
  \/ EncodeHeadersFails
  \/ \E t0, t1 \in Times : TextStep(t0, t1)
  \/ \E t \in Times : KeepaliveStep(t)
  \/ \E t \in Times, threshold \in Thresholds : RepeatStep(t, threshold)
  \/ \E t \in Times \cup {-1} : FinishStep(t)

Spec == Init /\ [][Next]_vars
-----------------------------------------------------------------------------
(* Correctness.                                                              *)

(* Every variable stays in the range of its C field.                         *)
TypeOK ==
  /\ timings \subseteq Timing
  /\ id \in Nat
  /\ granulepos \in Nat
  /\ packetno \in Int /\ packetno >= -1
  /\ eos \in BOOLEAN
  /\ kpb \in PacketOps \cup {Empty}
  /\ stream \in Seq(Packet)
  /\ clock \in Times
  /\ failures \in Nat

DataOps == {"text", "keepalive", "repeat"}
Carriers == {"text", "repeat"}

(* A player that lands on any packet of the stream and goes back to the base *)
(* of its granule position meets, from there on, a packet that carries each  *)
(* event active at that time: its text packet, or a repeat of it.            *)
SeekCovers ==
  \A i \in 1 .. Len(stream) : stream[i].op \in DataOps =>
    \A j \in 1 .. i :
      (/\ stream[j].op = "text" /\ stream[j].clean
       /\ stream[j].start <= stream[i].t /\ stream[i].t < stream[j].end)
      => \E k \in 1 .. i :
           /\ stream[k].op \in Carriers /\ stream[k].clean
           /\ stream[k].id = stream[j].id
           /\ BaseOf(stream[i].gp) <= stream[k].t

(* However earlier calls ended, a call that does not go back in time is not  *)
(* refused with KATE_E_BAD_GRANULE: a failed call leaves nothing in the      *)
(* encoder that makes the granule of a later one decrease.                   *)
NoLateRejection ==
  ~eos => \A t \in clock .. MaxTime :
            /\ \A b \in Times : IsEarliest(WithNew(t, t), b) => Accepted(b, t)
            /\ \A b \in Times :
                 IsBase(Trimmed(timings, t), t, b) => Accepted(b, t)
            /\ t * OffsetRange >= granulepos

(* kate_granule_time of a packet's granule position is the packet's time.    *)
GranuleTimeExact ==
  \A i \in 1 .. Len(stream) : stream[i].op # "header" =>
    BaseOf(stream[i].gp) + OffsetOf(stream[i].gp) = stream[i].t

(* Two packets hold the same event, written the same way.                    *)
SameEvent(p, q) ==
  p.id = q.id /\ p.start = q.start /\ p.end = q.end /\ p.clean = q.clean

(* A repeat copies a text packet that was put in the stream before it, whose *)
(* event is still active, and comes later than every packet of that event.   *)
RepeatsAreLive ==
  \A i \in 1 .. Len(stream) : stream[i].op = "repeat" =>
    /\ \E j \in 1 .. i - 1 :
         /\ stream[j].op = "text"
         /\ SameEvent(stream[j], stream[i])
    /\ stream[i].t < stream[i].end
    /\ \A j \in 1 .. i - 1 :
         stream[j].op \in Carriers /\ stream[j].id = stream[i].id
         => stream[j].t < stream[i].t

(* "repeat will be either start, or later if a repeat has been emitted": the *)
(* time an event's packet was last emitted, by the encoder's own books, is   *)
(* the time of a packet in the stream.                                       *)
RepeatTimeIsEmitted ==
  \A d \in timings : d.data # "none" =>
    \E k \in 1 .. Len(stream) :
      /\ stream[k].op \in Carriers
      /\ stream[k].id = d.id
      /\ stream[k].t = d.repeat
      /\ stream[k].clean = (d.data = "text")

(* Granule positions never decrease within the stream, whatever the client   *)
(* asks for.                                                                 *)
StreamNonDecreasing ==
  \A i \in 2 .. Len(stream) : stream[i - 1].gp <= stream[i].gp

(* The base of a text packet is the time of a packet of an event that is     *)
(* still active when the text starts, or of the text itself.                 *)
BacklinkIsLive ==
  \A i \in 1 .. Len(stream) : stream[i].op = "text" =>
    \E j \in 1 .. i :
      /\ stream[j].op \in Carriers
      /\ stream[j].t = BaseOf(stream[i].gp)
      /\ j = i \/ stream[i].t < stream[j].end

(* ... as long as every call has succeeded.                                  *)
BacklinkIsLiveUntilFailure == failures = 0 => BacklinkIsLive

(* What a player reads of a granule position is right: its time, exactly,    *)
(* and, until a call fails, a base that is the start of an event to go back  *)
(* to (kate_encode.c:979).                                                   *)
PositionsAreRight == GranuleTimeExact /\ BacklinkIsLiveUntilFailure

(* Keepalive and end of stream packets are exactly one byte long.            *)
OneByteMarkers ==
  \A i \in 1 .. Len(stream) :
    stream[i].op \in {"keepalive", "end"} => stream[i].clean

(* A stream finished at a negative time ends no sooner than its last event.  *)
FinishesAfterLastEvent ==
  [][EncodeFinish(-1) =>
       \A i \in 1 .. Len(stream) :
         stream[i].op = "text" => stream[i].end <= BaseOf(granulepos')]_vars
-----------------------------------------------------------------------------
(* The inductive invariant of any client.                                    *)

(* The last granule position is behind no packet of the stream.              *)
StreamBehind ==
  \A i \in 1 .. Len(stream) : stream[i].gp <= granulepos

(* The id of the next event is not in the stream yet.                        *)
IdsAreUsed ==
  \A i \in 1 .. Len(stream) : stream[i].op \in Carriers => stream[i].id < id

(* A saved packet is the one of a text packet of the stream, and no packet   *)
(* of its event is later than its last repeat.                               *)
SavedIsEmitted ==
  \A d \in timings : d.data # "none" =>
    /\ d.id < id
    /\ \E j \in 1 .. Len(stream) :
         /\ stream[j].op = "text"
         /\ stream[j].id = d.id /\ stream[j].start = d.start
         /\ stream[j].end = d.end /\ stream[j].clean = (d.data = "text")
    /\ \A j \in 1 .. Len(stream) :
         stream[j].op \in Carriers /\ stream[j].id = d.id
         => stream[j].t <= d.repeat

(* An event has one saved packet.                                            *)
SavedOnce ==
  \A d, e \in timings :
    d.data # "none" /\ e.data # "none" /\ d.id = e.id => d = e

AnyOrderInvariant ==
  /\ TypeOK
  /\ StreamBehind
  /\ StreamNonDecreasing
  /\ IdsAreUsed
  /\ SavedIsEmitted
  /\ SavedOnce
  /\ RepeatsAreLive

-----------------------------------------------------------------------------
(* The inductive invariant of a client that keeps time order and lifetimes.  *)

(* What is kept of an event: it was last emitted in the past, after it       *)
(* started, and its lifetime fits the offset of a granule position.          *)
TimingsOrdered ==
  \A d \in timings :
    /\ d.start <= d.repeat /\ d.repeat <= clock
    /\ d.start <= d.end /\ d.end <= d.start + OffsetRange

(* The last granule position lies in the past, and no event that is kept was *)
(* last emitted before its base.                                             *)
BaseBehind ==
  ~eos => /\ BaseOf(granulepos) + OffsetOf(granulepos) <= clock
          /\ \A d \in timings : BaseOf(granulepos) <= d.repeat

(* Every event that has been put in the stream and has not ended is kept.    *)
LiveEventsKept ==
  \A j \in 1 .. Len(stream) :
    stream[j].op = "text" /\ stream[j].clean /\ clock < stream[j].end
    => \E d \in timings :
         d.data = "text" /\ d.id = stream[j].id /\ d.end = stream[j].end

(* While no call has failed, an event that is kept has been emitted at the   *)
(* time the books say, or has ended: a keepalive's, which lasts no time.     *)
KeptIsEmitted ==
  failures = 0 =>
    \A d \in timings :
      \/ d.end <= clock
      \/ \E k \in 1 .. Len(stream) :
           /\ stream[k].op \in Carriers
           /\ stream[k].t = d.repeat
           /\ stream[k].end = d.end

InOrderInvariant ==
  /\ TypeOK
  /\ TimingsOrdered
  /\ BaseBehind
  /\ RepeatTimeIsEmitted
  /\ LiveEventsKept
  /\ SeekCovers
=============================================================================
