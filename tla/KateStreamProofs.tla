-------------------------- MODULE KateStreamProofs --------------------------
(* About what is made of the packets of the encoder.  For KateStream: that   *)
(* what reaches a player is delivered, and that a seek recovers every event  *)
(* that is active, for every value of the constants.  For KateConvert: that  *)
(* the converter is the client the documentation of the encoder asks for,    *)
(* that the streams it makes keep the cadence of its thresholds, and that    *)
(* the cues of a file are in its stream: for files of every length, all      *)
(* thresholds, and every failure.                                            *)
EXTENDS KateStream, KateConvert, KateEncoderProofs, FiniteSetTheorems

-----------------------------------------------------------------------------
(* What the encoder does to the stream.                                      *)

LEMMA NoRemains == "content" \notin Faults /\ "packet" \notin Faults
BY StreamAssumption

(* A packet that holds what its call wrote and nothing else.                 *)
Parsing(p) == p.clean /\ p.first = p.op

LEMMA ParsesKept ==
  ASSUME TypeOK, Grown, Parses, kpb' = Empty,
         \A d \in timings' : d.data \in {"none", "text"},
         \A p \in Packet : stream' = Append(stream, p) => Parsing(p)
  PROVE  Parses'
<1>1. ASSUME NEW i \in 1 .. Len(stream')
      PROVE  stream'[i].clean /\ stream'[i].first = stream'[i].op
  <2>1. CASE i \in 1 .. Len(stream)
    <3>1. stream'[i] = stream[i]
      BY <2>1, Prefix
    <3> QED BY <2>1, <3>1 DEF Parses
  <2>2. CASE i \notin 1 .. Len(stream)
    <3>1. PICK p \in Packet : stream' = Append(stream, p)
      BY <2>2 DEF Grown
    <3>2. stream'[i] = p
      BY <2>2, <3>1, Prefix
    <3> QED BY <3>1, <3>2 DEF Parsing
  <2> QED BY <2>1, <2>2
<1> QED BY <1>1 DEF Parses

(* The timings a call other than a repeat leaves.                            *)
LEMMA PlainTimings ==
  ASSUME Parses
  PROVE  /\ \A t : \A d \in Trimmed(timings, t) : d.data \in {"none", "text"}
         /\ \A t0, t1 : \A d \in WithNew(t0, t1) : d.data \in {"none", "text"}
         /\ \A t0, t1 : \A d \in Trimmed(timings, t0) \cup {NewTiming(t0, t1, "none")} :
              d.data \in {"none", "text"}
         /\ \A t0, t1 : \A d \in Trimmed(timings, t0) \cup {NewTiming(t0, t1, SavedAs)} :
              d.data \in {"none", "text"}
<1>1. SavedAs = "text"
  <2>1. kpb = Empty
    BY DEF Parses
  <2> QED BY <2>1 DEF SavedAs, Empty
<1>2. \A t0, t1, s : NewTiming(t0, t1, s).data = s
  BY DEF NewTiming
<1>3. \A t : \A d \in Trimmed(timings, t) : d.data \in {"none", "text"}
  BY DEF Trimmed, Parses
<1> QED BY <1>1, <1>2, <1>3 DEF WithNew

LEMMA PacketParses ==
  ASSUME Parses, NEW op, NEW i, NEW s, NEW e, NEW t, NEW gp, NEW no
  PROVE  Parsing(PacketOf(op, i, s, e, t, gp, no))
BY DEF Parses, Parsing, PacketOf

LEMMA MarkerType ==
  ASSUME TypeOK, NEW op \in PacketOps, NEW t \in Times, NEW gp \in Nat
  PROVE  PacketOf(op, NoId, t, t, t, gp, packetno + 1) \in Packet
<1>1. NoId \in Nat \cup {NoId} /\ packetno + 1 \in Int
  BY DEF TypeOK
<1> QED BY <1>1, PacketType

(* No step of the encoder shortens or rewrites the stream, or leaves bytes   *)
(* in the buffer.                                                            *)
LEMMA EncoderSteps ==
  ASSUME TypeOK, TypeOK', Parses, [Next]_vars
  PROVE  Grown /\ Parses'
<1>1. Times \subseteq Nat /\ 0 \in Times /\ granulepos' \in Nat
  BY ConstantsAssumption DEF Times, TypeOK
<1> DEFINE Quietly ==
      stream' = stream /\ kpb' = kpb /\ \A d \in timings' : d.data \in {"none", "text"}
<1>2. ASSUME Quietly PROVE Grown /\ Parses'
  <2>1. Grown /\ \A p : stream' # Append(stream, p)
    BY <1>2 DEF Grown, TypeOK
  <2> QED BY <1>2, <2>1, ParsesKept DEF Parses
<1>3. ASSUME NEW p \in Packet, Emit(p), Parsing(p),
             \A d \in timings' : d.data \in {"none", "text"}
      PROVE  Grown /\ Parses'
  <2>1. stream' = Append(stream, p) /\ kpb' = Empty
    BY <1>3 DEF Emit
  <2>2. Grown
    BY <2>1 DEF Grown
  <2>3. \A q \in Packet : stream' = Append(stream, q) => q = p
    <3>1. \A q : stream' = Append(stream, q) => stream'[Len(stream) + 1] = q
      BY <2>2, Prefix, Zenon
    <3> QED BY <2>1, <3>1, Zenon
  <2> QED BY <1>3, <2>1, <2>2, <2>3, ParsesKept
<1> HIDE DEF Quietly
<1>4. CASE EncodeHeaders
  <2>1. PacketOf("header", NoId, 0, 0, 0, granulepos, packetno + 1) \in Packet
    BY <1>1, PacketType DEF TypeOK, PacketOps, NoId
  <2> QED BY <1>3, <1>4, <2>1, PacketParses DEF EncodeHeaders, Parses
<1>5. CASE EncodeHeadersFails
  BY <1>5, NoRemains DEF EncodeHeadersFails
<1>6. ASSUME NEW t0 \in Times, NEW t1 \in Times, TextStep(t0, t1)
      PROVE  Grown /\ Parses'
  <2>1. CASE EncodeTextRejected(t0, t1) \/ EncodeTextNoSlot(t0, t1)
    BY <1>2, <2>1, PlainTimings DEF EncodeTextRejected, EncodeTextNoSlot, Quietly
  <2>2. CASE EncodeTextBadMotion(t0, t1) \/ EncodeTextNoPacket(t0, t1)
    BY <2>2, NoRemains DEF EncodeTextBadMotion, EncodeTextNoPacket
  <2>3. CASE EncodeTextNotSaved(t0, t1)
    BY <1>2, <2>3, PlainTimings DEF EncodeTextNotSaved, Quietly, Parses
  <2>4. CASE EncodeText(t0, t1)
    <3>1. PacketOf("text", id, t0, t1, t0, granulepos', packetno + 1) \in Packet
      BY <1>1, PacketType DEF TypeOK, PacketOps, NoId
    <3> QED BY <1>3, <2>4, <3>1, PacketParses, PlainTimings DEF EncodeText
  <2> QED BY <1>6, <2>1, <2>2, <2>3, <2>4 DEF TextStep
<1>7. ASSUME NEW t \in Times, KeepaliveStep(t)
      PROVE  Grown /\ Parses'
  <2>1. CASE KeepaliveRejected(t) \/ KeepaliveNoSlot(t)
    BY <1>2, <2>1, PlainTimings DEF KeepaliveRejected, KeepaliveNoSlot, Quietly
  <2>2. CASE KeepaliveNoPacket(t)
    BY <2>2, NoRemains DEF KeepaliveNoPacket
  <2>3. CASE EncodeKeepalive(t)
    <3>1. PacketOf("keepalive", NoId, t, t, t, granulepos', packetno + 1) \in Packet
      BY <1>1, MarkerType DEF PacketOps
    <3>2. Parsing(PacketOf("keepalive", NoId, t, t, t, granulepos', packetno + 1))
      BY PacketParses
    <3>3. \A d \in timings' : d.data \in {"none", "text"}
      BY <2>3, PlainTimings DEF EncodeKeepalive
    <3> QED BY <1>3, <2>3, <3>1, <3>2, <3>3 DEF EncodeKeepalive
  <2> QED BY <1>7, <2>1, <2>2, <2>3 DEF KeepaliveStep
<1>8. ASSUME NEW t \in Times, NEW threshold \in Thresholds, RepeatStep(t, threshold)
      PROVE  Grown /\ Parses'
  <2>1. ASSUME NEW d \in Due(Trimmed(timings, t), t, threshold)
        PROVE  /\ d \in timings /\ d \in Timing /\ d.data = "text"
               /\ \A e \in Repeated(Trimmed(timings, t), d, t) : e.data \in {"none", "text"}
               /\ RepeatOf(d, t, granulepos') \in Packet
               /\ Parsing(RepeatOf(d, t, granulepos'))
    <3>1. d \in timings /\ d \in Timing /\ d.data = "text"
      BY DueIsSaved DEF Parses
    <3>2. [d EXCEPT !.repeat = t].data = d.data
      BY <3>1 DEF Timing
    <3>3. \A e \in Repeated(Trimmed(timings, t), d, t) : e.data \in {"none", "text"}
      BY <3>1, <3>2, PlainTimings DEF Repeated
    <3>4. RepeatOf(d, t, granulepos') \in Packet
      BY <1>1, <3>1 DEF RepeatOf, Timing, Packet, PacketOps, TypeOK
    <3>5. Parsing(RepeatOf(d, t, granulepos'))
      BY <3>1 DEF RepeatOf, Parsing
    <3> QED BY <3>1, <3>3, <3>4, <3>5
  <2>2. CASE RepeatNothing(t, threshold)
    BY <1>2, <2>2, PlainTimings DEF RepeatNothing, Quietly
  <2>3. CASE RepeatNoMemory(t, threshold)
    BY <1>2, <2>1, <2>3 DEF RepeatNoMemory, Quietly
  <2>4. CASE EncodeRepeat(t, threshold)
    <3>1. PICK d \in Due(Trimmed(timings, t), t, threshold) :
            /\ timings' = Repeated(Trimmed(timings, t), d, t)
            /\ stream' = Append(stream, RepeatOf(d, t, granulepos'))
      BY <2>4 DEF EncodeRepeat
    <3>2. Emit(RepeatOf(d, t, granulepos'))
      BY <2>4, <3>1 DEF EncodeRepeat, Emit, Parses
    <3> QED BY <1>3, <2>1, <3>1, <3>2
  <2> QED BY <1>8, <2>2, <2>3, <2>4 DEF RepeatStep
<1>9. ASSUME NEW t \in Times \cup {-1}, FinishStep(t)
      PROVE  Grown /\ Parses'
  <2>1. CASE FinishRejected(t)
    BY <1>2, <2>1, PlainTimings DEF FinishRejected, Quietly
  <2>2. CASE FinishNoPacket(t)
    BY <2>2, NoRemains DEF FinishNoPacket
  <2>3. CASE EncodeFinish(t)
    <3>1. PICK e \in Times : Emit(PacketOf("end", NoId, e, e, e, granulepos', packetno + 1))
      BY <2>3 DEF EncodeFinish
    <3>2. PacketOf("end", NoId, e, e, e, granulepos', packetno + 1) \in Packet
      BY <1>1, MarkerType DEF PacketOps
    <3>3. Parsing(PacketOf("end", NoId, e, e, e, granulepos', packetno + 1))
      BY PacketParses
    <3>4. \A d \in timings' : d.data \in {"none", "text"}
      BY <2>3, PlainTimings DEF EncodeFinish
    <3> QED BY <1>3, <3>1, <3>2, <3>3, <3>4
  <2> QED BY <1>9, <2>1, <2>2, <2>3 DEF FinishStep
<1>10. CASE UNCHANGED vars
  BY <1>2, <1>10 DEF vars, Quietly, Parses
<1> QED BY <1>4, <1>5, <1>6, <1>7, <1>8, <1>9, <1>10 DEF Next

-----------------------------------------------------------------------------
(* The player.                                                               *)

(* What has been played since the player resumed lies in the stream, which   *)
(* only grows.                                                               *)
LEMMA PlayedKept ==
  ASSUME TypeOK, PlayerTypeOK, Grown,
         position' = position, resumed' = resumed, landed' = landed
  PROVE  /\ \A k \in resumed + 1 .. position :
              k \in 1 .. Len(stream) /\ stream'[k] = stream[k]
         /\ \A k \in 1 .. landed : k \in 1 .. Len(stream) /\ stream'[k] = stream[k]
         /\ Len(stream) <= Len(stream') /\ Len(stream) \in Nat /\ Len(stream') \in Nat
<1>1. Len(stream) \in Nat /\ Len(stream') \in Nat /\ Len(stream) <= Len(stream')
  <2>1. CASE stream' = stream
    BY <2>1, Prefix
  <2>2. ASSUME NEW p \in Packet, stream' = Append(stream, p)
        PROVE  Len(stream) \in Nat /\ Len(stream') = Len(stream) + 1
    BY <2>2, Prefix
  <2> QED BY <2>1, <2>2, Prefix DEF Grown
<1>2. ASSUME NEW k \in resumed + 1 .. position PROVE k \in 1 .. Len(stream)
  BY <1>1 DEF PlayerTypeOK
<1>3. ASSUME NEW k \in 1 .. landed PROVE k \in 1 .. Len(stream)
  BY <1>1 DEF PlayerTypeOK
<1> QED BY <1>1, <1>2, <1>3, Prefix

LEMMA EncodeHeard ==
  ASSUME HeardInvariant, Encode
  PROVE  HeardInvariant' /\ Grown
<1>1. TypeOK /\ TypeOK' /\ Grown /\ Parses'
  <2>1. [Next]_vars
    BY DEF Encode
  <2>2. TypeOK /\ TypeOK'
    BY <2>1, TypeStep DEF HeardInvariant
  <2> QED BY <2>1, <2>2, EncoderSteps DEF HeardInvariant
<1>2. UNCHANGED <<active, event, position, delivered, resumed, landed, lost>>
  BY DEF Encode, decoder, player
<1>3. PlayerTypeOK'
  BY <1>1, <1>2, PlayedKept DEF HeardInvariant, PlayerTypeOK
<1>4. ActiveIsDelivered'
  BY <1>2 DEF HeardInvariant, ActiveIsDelivered, Delivered
<1>5. HeardIsDelivered'
  BY <1>1, <1>2, PlayedKept DEF HeardInvariant, HeardIsDelivered, Delivered
<1> QED BY <1>1, <1>3, <1>4, <1>5 DEF HeardInvariant

(* A step of the player or of the transport leaves the encoder alone.        *)
LEMMA EncoderKept ==
  ASSUME HeardInvariant, UNCHANGED encoder
  PROVE  TypeOK' /\ Parses' /\ stream' = stream /\ Len(stream) \in Nat
<1>1. UNCHANGED vars
  BY DEF encoder
<1>2. TypeOK'
  BY <1>1, TypeStep DEF HeardInvariant
<1> QED BY <1>1, <1>2 DEF vars, HeardInvariant, Parses, TypeOK

(* Going past one packet.                                                    *)
DeliveredNow(i) == \E k \in 1 .. Len(delivered') : delivered'[k].id = i

LEMMA Passing ==
  ASSUME HeardInvariant, UNCHANGED <<encoder, resumed, landed>>,
         position < Len(stream), position' = position + 1,
         lost \subseteq lost',
         delivered' \in Seq(Dec!Event),
         active' \subseteq Dec!Event, \A a \in active' : a.start >= 0,
         \A i : Delivered(i) => DeliveredNow(i),
         \A a \in active' : DeliveredNow(a.id),
         stream[position + 1].op \in Carriers /\ position + 1 \notin lost'
           => DeliveredNow(stream[position + 1].id)
  PROVE  HeardInvariant'
<1>1. TypeOK' /\ Parses' /\ stream' = stream /\ Len(stream) \in Nat
  BY EncoderKept
<1>2. PlayerTypeOK'
  BY <1>1 DEF HeardInvariant, PlayerTypeOK
<1>3. ActiveIsDelivered'
  BY DEF ActiveIsDelivered, Delivered, DeliveredNow
<1>4. HeardIsDelivered'
  <2> SUFFICES ASSUME NEW k \in resumed + 1 .. position + 1,
                      stream[k].op \in Carriers, k \notin lost'
               PROVE  DeliveredNow(stream[k].id)
    BY <1>1 DEF HeardIsDelivered, Delivered, DeliveredNow
  <2>1. k \in resumed + 1 .. position \/ k = position + 1
    BY DEF HeardInvariant, PlayerTypeOK
  <2>2. CASE k \in resumed + 1 .. position
    BY <2>2 DEF HeardInvariant, HeardIsDelivered
  <2>3. CASE k = position + 1
    BY <2>3
  <2> QED BY <2>1, <2>2, <2>3
<1> QED BY <1>1, <1>2, <1>3, <1>4 DEF HeardInvariant

LEMMA PlayHeard ==
  ASSUME HeardInvariant, Play
  PROVE  HeardInvariant'
<1> DEFINE p == stream[position + 1]
<1>1. /\ position < Len(stream) /\ position' = position + 1 /\ lost' = lost
      /\ UNCHANGED <<encoder, resumed, landed>>
      /\ Dec!PacketIn(p)
      /\ delivered' = IF event' = Dec!NoEvent THEN delivered ELSE Append(delivered, event')
  BY DEF Play
<1>2. p \in Packet /\ p.clean /\ p.first = p.op
  <2>1. position + 1 \in 1 .. Len(stream)
    BY <1>1 DEF HeardInvariant, PlayerTypeOK, TypeOK
  <2> QED BY <2>1 DEF HeardInvariant, TypeOK, Parses
<1> HIDE DEF p
<1>3. delivered \in Seq(Dec!Event) /\ active \subseteq Dec!Event /\ \A a \in active : a.start >= 0
  BY DEF HeardInvariant, PlayerTypeOK
<1>4. \A a \in active : Delivered(a.id)
  BY DEF HeardInvariant, ActiveIsDelivered
<1>5. CASE Dec!Deliver(p)
  <2>1. p.id \in Int /\ p.start \in Nat /\ p.end \in Nat
    BY <1>2, ConstantsAssumption DEF Packet, Times, NoId
  <2>2. /\ event' = Dec!EventOf(p) /\ event' \in Dec!Event /\ event'.id = p.id
        /\ event' # Dec!NoEvent
    <3>1. event' = Dec!EventOf(p)
      BY <1>5 DEF Dec!Deliver
    <3>2. event'.start = p.start /\ event'.id = p.id /\ event' \in Dec!Event
      BY <2>1, <3>1 DEF Dec!EventOf, Dec!Event
    <3>3. Dec!NoEvent.start = -1
      BY DEF Dec!NoEvent
    <3> QED BY <2>1, <3>1, <3>2, <3>3
  <2>3. PICK e \in Dec!Event : e = event'
    BY <2>2
  <2>4. delivered' = Append(delivered, e)
    BY <1>1, <2>2, <2>3
  <2>5. /\ delivered' \in Seq(Dec!Event)
        /\ Len(delivered') = Len(delivered) + 1 /\ Len(delivered) \in Nat
        /\ \A k \in 1 .. Len(delivered) : delivered'[k] = delivered[k]
        /\ delivered'[Len(delivered) + 1] = e
    BY <1>3, <2>4
  <2>6. \A i : Delivered(i) => DeliveredNow(i)
    BY <2>5 DEF Delivered, DeliveredNow
  <2>7. DeliveredNow(p.id)
    <3>1. Len(delivered) + 1 \in 1 .. Len(delivered')
      BY <2>5
    <3> QED BY <2>2, <2>3, <2>5, <3>1 DEF DeliveredNow
  <2>8. \A a \in active' : a \in active \/ a = Dec!Entry(p)
    BY <1>5 DEF Dec!Deliver, Dec!Flushed, Dec!Registered
  <2>9. /\ Dec!Entry(p) \in Dec!Event /\ Dec!Entry(p).id = p.id
        /\ Dec!Entry(p).start >= 0
    BY <2>1 DEF Dec!Entry, Dec!Event
  <2>10. \A a \in active' : DeliveredNow(a.id)
    BY <1>4, <2>6, <2>7, <2>8, <2>9
  <2>11. active' \subseteq Dec!Event /\ \A a \in active' : a.start >= 0
    BY <1>3, <2>8, <2>9
  <2> QED BY <1>1, <2>5, <2>6, <2>7, <2>10, <2>11, Passing DEF p
<1>6. ASSUME event' = Dec!NoEvent, active' = active,
             p.op \in Carriers => Dec!IsKnown(p)
      PROVE  HeardInvariant'
  <2>1. delivered' = delivered
    BY <1>1, <1>6
  <2>2. \A i : Delivered(i) <=> DeliveredNow(i)
    BY <2>1 DEF Delivered, DeliveredNow
  <2>3. p.op \in Carriers => DeliveredNow(p.id)
    BY <1>4, <1>6, <2>2 DEF Dec!IsKnown, Dec!Known
  <2> QED BY <1>1, <1>3, <1>4, <1>6, <2>1, <2>2, <2>3, Passing DEF p
<1>7. CASE Dec!IgnoreRepeat(p)
  BY <1>6, <1>7 DEF Dec!IgnoreRepeat
<1>8. CASE Dec!DecodeOther(p)
  BY <1>2, <1>6, <1>8 DEF Dec!DecodeOther, Carriers
<1> QED BY <1>1, <1>5, <1>7, <1>8 DEF Dec!PacketIn, Dec!DecodeText, Dec!DecodeRepeat

LEMMA SkipHeard ==
  ASSUME HeardInvariant, Lose \/ Damage
  PROVE  HeardInvariant'
<1>1. /\ position < Len(stream) /\ position' = position + 1
      /\ lost \subseteq lost' /\ position + 1 \in lost'
      /\ UNCHANGED <<encoder, delivered, resumed, landed>>
      /\ active' = active
  BY DEF Lose, Damage, Skip, Dec!DecodeFails, decoder
<1>2. \A i : Delivered(i) <=> DeliveredNow(i)
  BY <1>1 DEF Delivered, DeliveredNow
<1>3. /\ delivered' \in Seq(Dec!Event) /\ active' \subseteq Dec!Event
      /\ \A a \in active' : a.start >= 0
  BY <1>1 DEF HeardInvariant, PlayerTypeOK
<1>4. \A a \in active' : DeliveredNow(a.id)
  BY <1>1, <1>2 DEF HeardInvariant, ActiveIsDelivered
<1> QED BY <1>1, <1>2, <1>3, <1>4, Passing

(* A seek starts afresh: the granule the decoder flushes with lies in no     *)
(* event.                                                                    *)
LEMMA SeekHeard ==
  ASSUME HeardInvariant, NEW i \in 1 .. Len(stream), SeekTo(i)
  PROVE  HeardInvariant'
<1>1. TypeOK' /\ Parses' /\ stream' = stream /\ Len(stream) \in Nat
  BY EncoderKept DEF SeekTo
<1>2. active' = {}
  BY DEF SeekTo, NoticeSeek, Dec!Seek, Dec!Flushed, HeardInvariant, PlayerTypeOK, Dec!Event
<1>3. PICK k \in NumHeaders + 1 .. i : position' = k - 1 /\ resumed' = k - 1
  BY DEF SeekTo
<1>4. PlayerTypeOK'
  <2>1. landed' = i /\ delivered' = << >>
    BY DEF SeekTo
  <2>2. k - 1 \in Nat /\ NumHeaders <= k - 1
    BY ConstantsAssumption
  <2>3. << >> \in Seq(Dec!Event)
    OBVIOUS
  <2> QED BY <1>1, <1>2, <1>3, <2>1, <2>2, <2>3 DEF PlayerTypeOK
<1>5. ActiveIsDelivered'
  BY <1>2 DEF ActiveIsDelivered
<1>6. HeardIsDelivered'
  <2>1. resumed' + 1 .. position' = {}
    BY <1>3, ConstantsAssumption
  <2> QED BY <2>1 DEF HeardIsDelivered
<1> QED BY <1>1, <1>4, <1>5, <1>6 DEF HeardInvariant

LEMMA HeardInit == StreamInit => HeardInvariant
<1> SUFFICES ASSUME StreamInit PROVE HeardInvariant
  OBVIOUS
<1>1. Init /\ TypeOK
  BY TypeInit DEF StreamInit
<1>2. /\ timings = {} /\ stream = << >> /\ kpb = Empty /\ active = {}
      /\ position = NumHeaders /\ resumed = NumHeaders /\ landed = 0
      /\ delivered = << >>
  BY <1>1, Zenon DEF StreamInit, Init, Dec!Init
<1>3. Len(stream) = 0 /\ 1 .. Len(stream) = {} /\ << >> \in Seq(Dec!Event)
  BY <1>2
<1>4. Parses
  BY <1>2, <1>3 DEF Parses
<1>5. PlayerTypeOK
  BY <1>2, <1>3, ConstantsAssumption DEF PlayerTypeOK
<1>6. resumed + 1 .. position = {}
  BY <1>2, ConstantsAssumption
<1> QED BY <1>1, <1>2, <1>4, <1>5, <1>6
        DEF HeardInvariant, ActiveIsDelivered, HeardIsDelivered

LEMMA HeardStep == HeardInvariant /\ [StreamNext]_streamVars => HeardInvariant'
<1> SUFFICES ASSUME HeardInvariant, [StreamNext]_streamVars PROVE HeardInvariant'
  OBVIOUS
<1>1. CASE Encode
  BY <1>1, EncodeHeard
<1>2. CASE Play
  BY <1>2, PlayHeard
<1>3. CASE Lose \/ Damage
  BY <1>3, SkipHeard
<1>4. CASE \E i \in 1 .. Len(stream) : SeekTo(i)
  BY <1>4, SeekHeard
<1>5. CASE UNCHANGED streamVars
  <2>1. UNCHANGED <<encoder, active, position, delivered, resumed, landed, lost>>
    BY <1>5 DEF streamVars, decoder, player
  <2>2. TypeOK' /\ Parses' /\ stream' = stream
    BY <2>1, EncoderKept
  <2> QED BY <2>1, <2>2
          DEF HeardInvariant, PlayerTypeOK, ActiveIsDelivered, HeardIsDelivered, Delivered
<1> QED BY <1>1, <1>2, <1>3, <1>4, <1>5 DEF StreamNext

(* Whatever the client promises, whatever is lost, and wherever the player   *)
(* seeks: each packet of an event that reaches the decoder has its event     *)
(* delivered, by that packet or by an earlier one.                           *)
THEOREM HeardSuffices == StreamSpec => []HeardIsDelivered
<1>1. StreamInit => HeardInvariant
  BY HeardInit
<1>2. HeardInvariant /\ [StreamNext]_streamVars => HeardInvariant'
  BY HeardStep
<1>3. HeardInvariant => HeardIsDelivered
  BY DEF HeardInvariant
<1> QED BY <1>1, <1>2, <1>3, PTL DEF StreamSpec

-----------------------------------------------------------------------------
(* Seeking.                                                                  *)

(* A client that encodes all the headers first.                              *)
HeadersFirst == "headers" \in Promises

LEMMA DataCalls ==
  ASSUME HeadersFirst, Next
  PROVE  \/ EncodeHeaders
         \/ packetno' = packetno /\ stream' = stream
         \/ /\ packetno >= NumHeaders - 1
            /\ packetno' = packetno \/ packetno' = packetno + 1
<1>1. \A t : Call(t) \/ FinishCall(t) => packetno >= NumHeaders - 1
  BY DEF Call, FinishCall, HeadersFirst
<1>2. CASE EncodeHeaders \/ EncodeHeadersFails
  BY <1>2 DEF EncodeHeadersFails
<1>3. ASSUME NEW t0 \in Times, NEW t1 \in Times, TextStep(t0, t1)
      PROVE  /\ packetno >= NumHeaders - 1
             /\ packetno' = packetno \/ packetno' = packetno + 1
  BY <1>1, <1>3
  DEF TextStep, TextCall, EncodeTextRejected, EncodeTextNoSlot, EncodeTextBadMotion,
      EncodeTextNoPacket, EncodeTextNotSaved, EncodeText
<1>4. ASSUME NEW t \in Times, KeepaliveStep(t)
      PROVE  /\ packetno >= NumHeaders - 1
             /\ packetno' = packetno \/ packetno' = packetno + 1
  BY <1>1, <1>4
  DEF KeepaliveStep, KeepaliveRejected, KeepaliveNoSlot, KeepaliveNoPacket, EncodeKeepalive
<1>5. ASSUME NEW t \in Times, NEW threshold \in Thresholds, RepeatStep(t, threshold)
      PROVE  /\ packetno >= NumHeaders - 1
             /\ packetno' = packetno \/ packetno' = packetno + 1
  BY <1>1, <1>5 DEF RepeatStep, RepeatNothing, RepeatNoMemory, EncodeRepeat
<1>6. ASSUME NEW t \in Times \cup {-1}, FinishStep(t)
      PROVE  /\ packetno >= NumHeaders - 1
             /\ packetno' = packetno \/ packetno' = packetno + 1
  BY <1>1, <1>6 DEF FinishStep, FinishRejected, FinishNoPacket, EncodeFinish
<1> QED BY <1>2, <1>3, <1>4, <1>5, <1>6 DEF Next

LEMMA HeadersStay ==
  ASSUME HeadersFirst, TypeOK, TypeOK', HeadersLead, Grown, [Next]_vars
  PROVE  HeadersLead'
<1>1. /\ packetno \in Int /\ NumHeaders \in Nat /\ Len(stream) \in Nat
  BY ConstantsAssumption DEF TypeOK
<1>2. ASSUME packetno' = packetno, stream' = stream
      PROVE  HeadersLead'
  BY <1>2 DEF HeadersLead
<1>3. \A i \in 1 .. Len(stream) : stream'[i] = stream[i]
  BY Prefix
<1>4. CASE EncodeHeaders
  <2> DEFINE p == PacketOf("header", NoId, 0, 0, 0, granulepos, packetno + 1)
  <2>1. packetno' = packetno + 1 /\ packetno + 1 < NumHeaders /\ stream' = Append(stream, p)
    BY <1>4 DEF EncodeHeaders, Emit
  <2>2. p.op = "header"
    BY DEF PacketOf
  <2> HIDE DEF p
  <2>3. Len(stream') = Len(stream) + 1 /\ stream'[Len(stream) + 1] = p
    BY <2>1, Prefix
  <2>4. Len(stream) = packetno + 1
    BY <1>1, <2>1 DEF HeadersLead
  <2>5. ASSUME NEW i \in 1 .. Len(stream'), stream'[i].op # "header"
        PROVE  i > NumHeaders
    <3>1. i \in 1 .. Len(stream)
      BY <1>1, <2>2, <2>3, <2>5
    <3> QED BY <1>3, <2>5, <3>1 DEF HeadersLead
  <2>6. /\ packetno' < NumHeaders - 1 => Len(stream') = packetno' + 1
        /\ packetno' >= NumHeaders - 1 => Len(stream') >= NumHeaders
    BY <1>1, <2>1, <2>3, <2>4
  <2> QED BY <2>5, <2>6 DEF HeadersLead
<1>5. ASSUME packetno >= NumHeaders - 1,
             packetno' = packetno \/ packetno' = packetno + 1
      PROVE  HeadersLead'
  <2>1. Len(stream) >= NumHeaders
    BY <1>5 DEF HeadersLead
  <2>2. Len(stream') \in Nat /\ Len(stream') >= NumHeaders
    <3>1. CASE stream' = stream
      BY <1>1, <2>1, <3>1
    <3>2. ASSUME NEW p \in Packet, stream' = Append(stream, p)
          PROVE  Len(stream') = Len(stream) + 1
      BY <3>2, Prefix
    <3> QED BY <1>1, <2>1, <3>1, <3>2 DEF Grown
  <2>3. packetno' >= NumHeaders - 1 /\ ~ (packetno' < NumHeaders - 1)
    BY <1>1, <1>5
  <2>4. ASSUME NEW i \in 1 .. Len(stream'), stream'[i].op # "header"
        PROVE  i > NumHeaders
    <3>1. CASE i \in 1 .. Len(stream)
      BY <1>3, <2>4, <3>1 DEF HeadersLead
    <3>2. CASE i \notin 1 .. Len(stream)
      BY <1>1, <2>1, <2>2, <3>2
    <3> QED BY <3>1, <3>2
  <2> QED BY <2>2, <2>3, <2>4 DEF HeadersLead
<1>6. CASE UNCHANGED vars
  BY <1>2, <1>6 DEF vars
<1> QED BY <1>2, <1>4, <1>5, <1>6, DataCalls

(* The time of a packet, and the base of one, as numbers.                    *)
LEMMA TimesAreNumbers ==
  ASSUME TypeOK, NEW i \in 1 .. Len(stream)
  PROVE  TimeOf(i) \in Nat /\ BaseOf(stream[i].gp) \in Nat
<1>1. stream[i] \in Packet
  BY DEF TypeOK
<1>2. stream[i].gp \in Nat
  BY <1>1 DEF Packet
<1>3. BaseOf(stream[i].gp) \in Nat /\ OffsetOf(stream[i].gp) \in Nat
  BY <1>2, SplitGranule
<1> QED BY <1>3 DEF TimeOf

LEMMA ResumedStays ==
  ASSUME HeardInvariant, ResumedInTime, Grown,
         UNCHANGED <<position, resumed, landed>>
  PROVE  ResumedInTime'
<1> SUFFICES ASSUME landed # 0
             PROVE  /\ stream'[landed].op \in DataOps
                    /\ \A k \in NumHeaders + 1 .. landed :
                         BaseOf(stream'[k].gp) + OffsetOf(stream'[k].gp)
                           >= BaseOf(stream'[landed].gp) => k > resumed
  BY DEF ResumedInTime, TimeOf, BaseOf, OffsetOf
<1>1. landed \in 1 .. landed /\ \A k \in NumHeaders + 1 .. landed : k \in 1 .. landed
  BY ConstantsAssumption DEF HeardInvariant, PlayerTypeOK
<1>2. \A k \in 1 .. landed : stream'[k] = stream[k]
  BY PlayedKept DEF HeardInvariant
<1> QED BY <1>1, <1>2 DEF ResumedInTime, TimeOf

LEMMA SeekResumes ==
  ASSUME HeardInvariant, NEW i \in 1 .. Len(stream), SeekTo(i)
  PROVE  ResumedInTime'
<1>1. stream' = stream /\ landed' = i /\ TypeOK /\ stream[i].op \in DataOps
  BY EncoderKept DEF SeekTo, HeardInvariant
<1>2. PICK m \in NumHeaders + 1 .. i :
        /\ \A j \in NumHeaders + 1 .. m - 1 : TimeOf(j) < BaseOf(stream[i].gp)
        /\ resumed' = m - 1
  BY DEF SeekTo
<1>3. ASSUME NEW k \in NumHeaders + 1 .. i, TimeOf(k) >= BaseOf(stream[i].gp)
      PROVE  k > m - 1
  <2>1. k \in 1 .. Len(stream) /\ k \in Int /\ m \in Int
    BY ConstantsAssumption, EncoderKept DEF SeekTo
  <2>2. TimeOf(k) \in Nat /\ BaseOf(stream[i].gp) \in Nat
    BY <1>1, <2>1, TimesAreNumbers
  <2>3. k \notin NumHeaders + 1 .. m - 1
    BY <1>2, <1>3, <2>2
  <2> QED BY <2>1, <2>3, ConstantsAssumption
<1> QED BY <1>1, <1>2, <1>3 DEF ResumedInTime, TimeOf, BaseOf, OffsetOf

LEMMA SeekStep ==
  ASSUME HeadersFirst
  PROVE  SeekInvariant /\ [StreamNext]_streamVars => SeekInvariant'
<1> SUFFICES ASSUME SeekInvariant, [StreamNext]_streamVars PROVE SeekInvariant'
  OBVIOUS
<1>1. HeardInvariant /\ HeardInvariant' /\ TypeOK /\ TypeOK'
  BY HeardStep DEF SeekInvariant, HeardInvariant
<1>2. ASSUME UNCHANGED <<encoder, resumed, landed>>
      PROVE  HeadersLead' /\ ResumedInTime'
  <2>1. UNCHANGED <<packetno, stream>>
    BY <1>2 DEF encoder, vars
  <2> QED BY <1>2, <2>1
          DEF SeekInvariant, HeadersLead, ResumedInTime, TimeOf, BaseOf, OffsetOf
<1>3. CASE Encode
  <2>1. Grown
    BY <1>1, <1>3, EncodeHeard
  <2>2. [Next]_vars /\ UNCHANGED <<position, resumed, landed>>
    BY <1>3 DEF Encode, player
  <2> QED BY <1>1, <2>1, <2>2, HeadersStay, ResumedStays DEF SeekInvariant
<1>4. CASE Play \/ Lose \/ Damage
  BY <1>1, <1>2, <1>4 DEF Play, Lose, Damage, Skip, SeekInvariant
<1>5. ASSUME NEW i \in 1 .. Len(stream), SeekTo(i)
      PROVE  SeekInvariant'
  <2>1. UNCHANGED <<packetno, stream>>
    BY <1>5 DEF SeekTo, encoder, vars
  <2>2. HeadersLead'
    BY <2>1 DEF SeekInvariant, HeadersLead
  <2> QED BY <1>1, <1>5, <2>2, SeekResumes DEF SeekInvariant
<1>6. CASE UNCHANGED streamVars
  BY <1>1, <1>2, <1>6 DEF streamVars, player, SeekInvariant
<1> QED BY <1>3, <1>4, <1>5, <1>6 DEF StreamNext

LEMMA SeekInit == StreamInit => SeekInvariant
<1> SUFFICES ASSUME StreamInit PROVE SeekInvariant
  OBVIOUS
<1>1. HeardInvariant
  BY HeardInit
<1>2. packetno = -1 /\ stream = << >> /\ landed = 0
  BY Zenon DEF StreamInit, Init
<1>3. Len(stream) = 0 /\ 1 .. Len(stream) = {}
  BY <1>2
<1>4. packetno < NumHeaders => Len(stream) = packetno + 1
  BY <1>2, <1>3
<1>5. HeadersLead
  BY <1>2, <1>3, <1>4, ConstantsAssumption DEF HeadersLead
<1> QED BY <1>1, <1>2, <1>5 DEF SeekInvariant, ResumedInTime

(* Each step of the whole is a step of the encoder, or leaves it alone.      *)
LEMMA EncoderWithin == [StreamNext]_streamVars => [Next]_vars
BY DEF StreamNext, streamVars, Encode, Play, Lose, Damage, Skip, SeekTo, encoder

LEMMA SeekSuffices ==
  ASSUME SeekInvariant, PositionsInvariant
  PROVE  SeekRecovers
<1> SUFFICES ASSUME landed # 0, position >= landed, lost = {},
                    NEW j \in 1 .. landed,
                    stream[j].op = "text",
                    stream[j].start <= stream[landed].t,
                    stream[landed].t < stream[j].end
             PROVE  Delivered(stream[j].id)
  BY DEF SeekRecovers
<1>1. /\ landed \in 1 .. Len(stream) /\ j \in 1 .. Len(stream) /\ TypeOK
      /\ position \in Nat /\ resumed \in Nat /\ landed \in Nat
      /\ Len(stream) \in Nat
  BY DEF SeekInvariant, HeardInvariant, PlayerTypeOK, TypeOK
<1>2. stream[landed].op \in DataOps /\ stream[j].clean
  BY <1>1 DEF SeekInvariant, HeardInvariant, ResumedInTime, Parses
<1>3. PICK k \in 1 .. landed :
        /\ stream[k].op \in Carriers
        /\ stream[k].id = stream[j].id
        /\ BaseOf(stream[landed].gp) <= stream[k].t
  BY <1>1, <1>2 DEF PositionsInvariant, InOrderInvariant, SeekCovers
<1>4. k \in 1 .. Len(stream) /\ stream[k].op # "header"
  BY <1>1, <1>3 DEF Carriers
<1>5. TimeOf(k) = stream[k].t
  BY <1>4 DEF PositionsInvariant, GranuleTimeExact, TimeOf
<1>6. TimeOf(k) >= BaseOf(stream[landed].gp)
  BY <1>1, <1>3, <1>4, <1>5, TimesAreNumbers
<1>7. k \in NumHeaders + 1 .. landed
  BY <1>3, <1>4, ConstantsAssumption DEF SeekInvariant, HeadersLead
<1>8. k > resumed
  BY <1>6, <1>7 DEF SeekInvariant, ResumedInTime
<1>9. k \in resumed + 1 .. position
  BY <1>1, <1>3, <1>8
<1> QED BY <1>3, <1>9 DEF SeekInvariant, HeardInvariant, HeardIsDelivered

(* A player that seeks in a stream encoded in time order, and loses nothing  *)
(* from there on, has been given every event that is active where it landed  *)
(* by the time it is back there.                                             *)
THEOREM SeeksRecover ==
  ASSUME InOrderClient, HeadersFirst
  PROVE  StreamSpec => []SeekRecovers
<1>1. StreamInit => SeekInvariant /\ PositionsInvariant
  BY SeekInit, PositionsInit DEF StreamInit
<1>2. SeekInvariant /\ PositionsInvariant /\ [StreamNext]_streamVars
        => SeekInvariant' /\ PositionsInvariant'
  BY SeekStep, EncoderWithin, PositionsNext
<1>3. SeekInvariant /\ PositionsInvariant => SeekRecovers
  BY SeekSuffices
<1> QED BY <1>1, <1>2, <1>3, PTL DEF StreamSpec

-----------------------------------------------------------------------------
(* The channel.                                                              *)

(* A client that keeps time order, and a player that reads on from the start *)
(* and is handed every packet.                                               *)
TimeOrder == "order" \in Promises

NothingMissed == MaxSeeks = 0 /\ MaxLosses = 0

LEMMA NothingSkipped ==
  ASSUME NothingMissed, lost = {}, seeks = 0
  PROVE  ~Lose /\ ~Damage /\ \A i : ~SeekTo(i)
<1>1. Cardinality(lost) = 0
  BY FS_EmptySet
<1> QED BY <1>1 DEF NothingMissed, Lose, Damage, Skip, SeekTo

(* What a packet says of the call that made it.                              *)
Timely(p) ==
  /\ p.op \in DataOps => p.t = clock'
  /\ p.op = "text" => p.id = id /\ p.start = p.t /\ p.start <= p.end

LEMMA OnlyPacket ==
  ASSUME TypeOK, NEW p \in Packet, stream' = Append(stream, p), Timely(p)
  PROVE  \A q \in Packet : stream' = Append(stream, q) => Timely(q)
<1>1. Grown
  BY DEF Grown
<1>2. \A q : stream' = Append(stream, q) => stream'[Len(stream) + 1] = q
  BY <1>1, Prefix, Zenon
<1>3. \A q \in Packet : stream' = Append(stream, q) => q = p
  BY <1>2, Zenon
<1> QED BY <1>3

LEMMA NoPacket ==
  ASSUME TypeOK, stream' = stream
  PROVE  \A q \in Packet : stream' = Append(stream, q) => Timely(q)
BY DEF TypeOK

LEMMA CallInOrder ==
  ASSUME TimeOrder, TypeOK, NEW t \in Times, Call(t)
  PROVE  clock' = t /\ clock <= clock'
<1>1. clock \in Nat /\ t \in Nat
  BY ConstantsAssumption DEF TypeOK, Times
<1> QED BY <1>1 DEF Call, TimeOrder

LEMMA Emission ==
  ASSUME TimeOrder, TypeOK, TypeOK', [Next]_vars
  PROVE  /\ clock <= clock'
         /\ \A p \in Packet : stream' = Append(stream, p) => Timely(p)
<1>1. /\ Times \subseteq Nat /\ 0 \in Times /\ granulepos' \in Nat /\ clock \in Nat
      /\ id \in Nat /\ packetno + 1 \in Int
  BY ConstantsAssumption DEF Times, TypeOK
<1>2. ASSUME NEW p \in Packet, p.op \notin DataOps, stream' = Append(stream, p)
      PROVE  \A q \in Packet : stream' = Append(stream, q) => Timely(q)
  BY <1>2, OnlyPacket DEF Timely, DataOps
<1>3. CASE EncodeHeaders
  <2> DEFINE p == PacketOf("header", NoId, 0, 0, 0, granulepos, packetno + 1)
  <2>1. p \in Packet
    BY <1>1, MarkerType DEF PacketOps, TypeOK
  <2>2. p.op \notin DataOps
    BY DEF PacketOf, DataOps
  <2>3. stream' = Append(stream, p) /\ clock' = clock
    BY <1>3 DEF EncodeHeaders, Emit
  <2> HIDE DEF p
  <2> QED BY <1>1, <1>2, <2>1, <2>2, <2>3
<1>4. CASE EncodeHeadersFails
  BY <1>1, <1>4, NoPacket DEF EncodeHeadersFails
<1>5. ASSUME NEW t0 \in Times, NEW t1 \in Times, TextStep(t0, t1)
      PROVE  /\ clock <= clock'
             /\ \A p \in Packet : stream' = Append(stream, p) => Timely(p)
  <2>1. TextCall(t0, t1)
    BY <1>5
    DEF TextStep, EncodeTextRejected, EncodeTextNoSlot, EncodeTextBadMotion,
        EncodeTextNoPacket, EncodeTextNotSaved, EncodeText
  <2>2. clock' = t0 /\ clock <= clock' /\ t0 <= t1
    BY <2>1, CallInOrder DEF TextCall
  <2>3. CASE stream' = stream
    BY <2>2, <2>3, NoPacket
  <2>4. CASE EncodeText(t0, t1)
    <3> DEFINE p == PacketOf("text", id, t0, t1, t0, granulepos', packetno + 1)
    <3>1. p \in Packet
      BY <1>1, PacketType DEF PacketOps, NoId
    <3>2. stream' = Append(stream, p)
      BY <2>4 DEF EncodeText, Emit
    <3>3. Timely(p)
      BY <2>2 DEF Timely, PacketOf
    <3> HIDE DEF p
    <3> QED BY <2>2, <3>1, <3>2, <3>3, OnlyPacket
  <2> QED BY <1>5, <2>3, <2>4
      DEF TextStep, EncodeTextRejected, EncodeTextNoSlot, EncodeTextBadMotion,
          EncodeTextNoPacket, EncodeTextNotSaved
<1>6. ASSUME NEW t \in Times, KeepaliveStep(t)
      PROVE  /\ clock <= clock'
             /\ \A p \in Packet : stream' = Append(stream, p) => Timely(p)
  <2>1. Call(t)
    BY <1>6
    DEF KeepaliveStep, KeepaliveRejected, KeepaliveNoSlot, KeepaliveNoPacket, EncodeKeepalive
  <2>2. clock' = t /\ clock <= clock'
    BY <2>1, CallInOrder
  <2>3. CASE stream' = stream
    BY <2>2, <2>3, NoPacket
  <2>4. CASE EncodeKeepalive(t)
    <3> DEFINE p == PacketOf("keepalive", NoId, t, t, t, granulepos', packetno + 1)
    <3>1. p \in Packet
      BY <1>1, MarkerType DEF PacketOps
    <3>2. stream' = Append(stream, p)
      BY <2>4 DEF EncodeKeepalive, Emit
    <3>3. Timely(p)
      BY <2>2 DEF Timely, PacketOf
    <3> HIDE DEF p
    <3> QED BY <2>2, <3>1, <3>2, <3>3, OnlyPacket
  <2> QED BY <1>6, <2>3, <2>4
      DEF KeepaliveStep, KeepaliveRejected, KeepaliveNoSlot, KeepaliveNoPacket
<1>7. ASSUME NEW t \in Times, NEW threshold \in Thresholds, RepeatStep(t, threshold)
      PROVE  /\ clock <= clock'
             /\ \A p \in Packet : stream' = Append(stream, p) => Timely(p)
  <2>1. Call(t)
    BY <1>7 DEF RepeatStep, RepeatNothing, RepeatNoMemory, EncodeRepeat
  <2>2. clock' = t /\ clock <= clock'
    BY <2>1, CallInOrder
  <2>3. CASE stream' = stream
    BY <2>2, <2>3, NoPacket
  <2>4. CASE EncodeRepeat(t, threshold)
    <3>1. PICK d \in Due(Trimmed(timings, t), t, threshold) :
            stream' = Append(stream, RepeatOf(d, t, granulepos'))
      BY <2>4 DEF EncodeRepeat
    <3> DEFINE p == RepeatOf(d, t, granulepos')
    <3>2. p \in Packet
      <4>1. d \in Timing
        BY DueIsSaved
      <4> QED BY <1>1, <4>1 DEF RepeatOf, Timing, Packet, PacketOps, TypeOK
    <3>3. Timely(p)
      BY <2>2 DEF Timely, RepeatOf
    <3> HIDE DEF p
    <3> QED BY <2>2, <3>1, <3>2, <3>3, OnlyPacket DEF p
  <2> QED BY <1>7, <2>3, <2>4 DEF RepeatStep, RepeatNothing, RepeatNoMemory
<1>8. ASSUME NEW t \in Times \cup {-1}, FinishStep(t)
      PROVE  /\ clock <= clock'
             /\ \A p \in Packet : stream' = Append(stream, p) => Timely(p)
  <2>1. clock <= clock'
    <3>1. clock' = IF clock < t THEN t ELSE clock
      BY <1>8 DEF FinishStep, FinishRejected, FinishNoPacket, EncodeFinish, FinishCall
    <3> QED BY <1>1, <3>1
  <2>2. CASE stream' = stream
    BY <2>1, <2>2, NoPacket
  <2>3. CASE EncodeFinish(t)
    <3>1. PICK e \in Times : Emit(PacketOf("end", NoId, e, e, e, granulepos', packetno + 1))
      BY <2>3 DEF EncodeFinish
    <3> DEFINE p == PacketOf("end", NoId, e, e, e, granulepos', packetno + 1)
    <3>2. p \in Packet
      BY <1>1, MarkerType DEF PacketOps
    <3>3. p.op \notin DataOps
      BY DEF PacketOf, DataOps
    <3>4. stream' = Append(stream, p)
      BY <3>1 DEF Emit
    <3> HIDE DEF p
    <3> QED BY <1>2, <2>1, <3>2, <3>3, <3>4
  <2> QED BY <1>8, <2>2, <2>3 DEF FinishStep, FinishRejected, FinishNoPacket
<1>9. CASE UNCHANGED vars
  BY <1>1, <1>9, NoPacket DEF vars
<1> QED BY <1>3, <1>4, <1>5, <1>6, <1>7, <1>8, <1>9 DEF Next

(* What a packet is, when the stream has grown by one.                       *)
LEMMA Before ==
  ASSUME TypeOK, TypeOK', Grown, NEW j \in 1 .. Len(stream')
  PROVE  \/ j \in 1 .. Len(stream) /\ stream'[j] = stream[j]
         \/ /\ j = Len(stream) + 1 /\ Len(stream') = j
            /\ \E p \in Packet : stream' = Append(stream, p) /\ stream'[j] = p
<1>1. CASE stream' = stream
  BY <1>1
<1>2. ASSUME NEW p \in Packet, stream' = Append(stream, p)
      PROVE  /\ Len(stream') = Len(stream) + 1 /\ Len(stream) \in Nat
             /\ stream'[Len(stream) + 1] = p
  BY <1>2, Prefix
<1> QED BY <1>1, <1>2, Prefix DEF Grown

LEMMA TimesStay ==
  ASSUME TypeOK, TypeOK', Grown, TimesInOrder, clock <= clock',
         \A p \in Packet : stream' = Append(stream, p) => Timely(p)
  PROVE  TimesInOrder'
<1>1. clock \in Nat /\ clock' \in Nat
  BY ConstantsAssumption DEF TypeOK, Times
<1>2. \A j \in 1 .. Len(stream) : stream[j].t \in Nat
  <2>1. \A j \in 1 .. Len(stream) : stream[j] \in Packet
    BY DEF TypeOK
  <2> QED BY <2>1, ConstantsAssumption DEF Packet, Times
<1>3. ASSUME NEW j \in 1 .. Len(stream'), stream'[j].op \in DataOps
      PROVE  /\ stream'[j].t <= clock'
             /\ \A i \in 1 .. j : stream'[i].op \in DataOps => stream'[i].t <= stream'[j].t
  <2>1. CASE j \in 1 .. Len(stream) /\ stream'[j] = stream[j]
    <3>1. \A i \in 1 .. j : stream'[i] = stream[i]
      BY <2>1, Prefix
    <3> QED BY <1>1, <1>2, <1>3, <2>1, <3>1 DEF TimesInOrder
  <2>2. CASE /\ j = Len(stream) + 1
             /\ \E p \in Packet : stream' = Append(stream, p) /\ stream'[j] = p
    <3>1. stream'[j].t = clock'
      BY <1>3, <2>2 DEF Timely
    <3>2. \A i \in 1 .. j : i = j \/ (i \in 1 .. Len(stream) /\ stream'[i] = stream[i])
      BY <2>2, Prefix
    <3>3. \A i \in 1 .. Len(stream) : stream[i].op \in DataOps => stream[i].t <= clock'
      BY <1>1, <1>2 DEF TimesInOrder
    <3> QED BY <1>1, <3>1, <3>2, <3>3
  <2> QED BY <2>1, <2>2, Before
<1> QED BY <1>3 DEF TimesInOrder

(* Text packets of one stream have ids of their own.                         *)
LEMMA TextsStay ==
  ASSUME TypeOK, TypeOK', Grown, TextsSound, IdsAreUsed,
         \A p \in Packet : stream' = Append(stream, p) => Timely(p)
  PROVE  TextsSound'
<1>1. ASSUME NEW j \in 1 .. Len(stream'), stream'[j].op = "text"
      PROVE  /\ stream'[j].id \in Nat
             /\ stream'[j].start = stream'[j].t /\ stream'[j].start <= stream'[j].end
             /\ \A i \in 1 .. j - 1 :
                  stream'[i].op = "text" => stream'[i].id # stream'[j].id
  <2>1. CASE j \in 1 .. Len(stream) /\ stream'[j] = stream[j]
    <3>1. \A i \in 1 .. j - 1 : stream'[i] = stream[i]
      BY <2>1, Prefix
    <3> QED BY <1>1, <2>1, <3>1 DEF TextsSound
  <2>2. CASE /\ j = Len(stream) + 1
             /\ \E p \in Packet : stream' = Append(stream, p) /\ stream'[j] = p
    <3>1. /\ stream'[j].id = id /\ stream'[j].start = stream'[j].t
          /\ stream'[j].start <= stream'[j].end
      BY <1>1, <2>2 DEF Timely
    <3>2. \A i \in 1 .. j - 1 : i \in 1 .. Len(stream) /\ stream'[i] = stream[i]
      BY <2>2, Prefix
    <3>3. \A i \in 1 .. Len(stream) : stream[i].op = "text" => stream[i].id # id
      <4>1. \A i \in 1 .. Len(stream) : stream[i] \in Packet
        BY DEF TypeOK
      <4>2. \A i \in 1 .. Len(stream) : stream[i].id \in Int
        BY <4>1 DEF Packet, NoId
      <4>3. id \in Int
        BY DEF TypeOK
      <4> QED BY <4>2, <4>3 DEF IdsAreUsed, Carriers
    <3> QED BY <3>1, <3>2, <3>3 DEF TypeOK
  <2> QED BY <2>1, <2>2, Before
<1> QED BY <1>1 DEF TextsSound

LEMMA Appended ==
  ASSUME NEW S, NEW s \in Seq(S), NEW e \in S
  PROVE  /\ Append(s, e) \in Seq(S)
         /\ Len(Append(s, e)) = Len(s) + 1 /\ Len(s) \in Nat
         /\ \A k \in 1 .. Len(s) : Append(s, e)[k] = s[k]
         /\ Append(s, e)[Len(s) + 1] = e
OBVIOUS

(* The list of text packets grows with the stream.                           *)
LEMMA ListStays ==
  ASSUME TypeOK, TypeOK', Grown, TextsListed,
         texts' = IF stream' # stream /\ stream'[Len(stream')].op = "text"
                  THEN Append(texts, Len(stream')) ELSE texts
  PROVE  /\ TextsListed'
         /\ Len(texts) \in Nat
         /\ \A k \in 1 .. Len(texts) : texts'[k] = texts[k] /\ texts[k] \in 1 .. Len(stream)
         /\ \/ texts' = texts
            \/ /\ texts' = Append(texts, Len(stream) + 1)
               /\ Len(texts') = Len(texts) + 1 /\ texts'[Len(texts) + 1] = Len(stream) + 1
               /\ Len(stream) + 1 \in 1 .. Len(stream')
<1>1. Len(stream) \in Nat /\ Len(stream') \in Nat /\ Len(texts) \in Nat
  BY DEF TypeOK, TextsListed
<1>2. \A k \in 1 .. Len(texts) : texts[k] \in 1 .. Len(stream)
  BY DEF TextsListed
<1>3. CASE stream' = stream
  BY <1>1, <1>2, <1>3 DEF TextsListed
<1>4. ASSUME NEW p \in Packet, stream' = Append(stream, p)
      PROVE  /\ TextsListed'
             /\ \A k \in 1 .. Len(texts) : texts'[k] = texts[k]
             /\ \/ texts' = texts
                \/ /\ texts' = Append(texts, Len(stream) + 1)
                   /\ Len(texts') = Len(texts) + 1
                   /\ texts'[Len(texts) + 1] = Len(stream) + 1
                   /\ Len(stream) + 1 \in 1 .. Len(stream')
  <2>1. /\ Len(stream') = Len(stream) + 1 /\ stream'[Len(stream) + 1] = p
        /\ \A k \in 1 .. Len(stream) : stream'[k] = stream[k]
        /\ stream' # stream
    <3>1. Len(stream') = Len(stream) + 1
      BY <1>4, Prefix
    <3> QED BY <1>1, <1>4, <3>1, Prefix
  <2>2. texts \in Seq(1 .. Len(stream')) /\ texts \in Seq(Int)
    <3>1. 1 .. Len(stream) \subseteq 1 .. Len(stream')
      BY <1>1, <2>1
    <3> QED BY <3>1 DEF TextsListed
  <2>3. CASE p.op = "text"
    <3>1. texts' = Append(texts, Len(stream) + 1)
      BY <2>1, <2>3
    <3>2. /\ texts' \in Seq(1 .. Len(stream')) /\ Len(texts') = Len(texts) + 1
          /\ \A k \in 1 .. Len(texts) : texts'[k] = texts[k]
          /\ texts'[Len(texts) + 1] = Len(stream) + 1
      <4>1. PICK n \in 1 .. Len(stream') : n = Len(stream) + 1
        BY <1>1, <2>1
      <4>2. texts' = Append(texts, n)
        BY <3>1, <4>1
      <4>3. /\ texts' \in Seq(1 .. Len(stream')) /\ Len(texts') = Len(texts) + 1
            /\ \A k \in 1 .. Len(texts) : texts'[k] = texts[k]
            /\ texts'[Len(texts) + 1] = n
        <5>1. /\ Append(texts, n) \in Seq(1 .. Len(stream'))
              /\ Len(Append(texts, n)) = Len(texts) + 1
              /\ \A k \in 1 .. Len(texts) : Append(texts, n)[k] = texts[k]
              /\ Append(texts, n)[Len(texts) + 1] = n
          BY <2>2, Appended
        <5> QED BY <4>2, <5>1, Zenon
      <4> QED BY <4>1, <4>3, Zenon
    <3>3. \A k \in 1 .. Len(texts') :
            \/ k \in 1 .. Len(texts) /\ texts'[k] = texts[k]
            \/ k = Len(texts) + 1 /\ texts'[k] = Len(stream) + 1
      BY <1>1, <3>2
    <3>4. \A k \in 1 .. Len(texts') : stream'[texts'[k]].op = "text"
      BY <1>2, <2>1, <2>3, <3>3 DEF TextsListed
    <3>5. \A k, l \in 1 .. Len(texts') : k < l => texts'[k] < texts'[l]
      BY <1>1, <1>2, <3>3 DEF TextsListed
    <3>6. ASSUME NEW i \in 1 .. Len(stream'), stream'[i].op = "text"
          PROVE  \E k \in 1 .. Len(texts') : texts'[k] = i
      <4>1. CASE i \in 1 .. Len(stream)
        <5>1. PICK k \in 1 .. Len(texts) : texts[k] = i
          BY <2>1, <3>6, <4>1 DEF TextsListed
        <5>2. k \in 1 .. Len(texts') /\ texts'[k] = i
          BY <1>1, <3>2, <5>1
        <5> QED BY <5>2
      <4>2. CASE i = Len(stream) + 1
        BY <1>1, <3>2, <4>2
      <4> QED BY <1>1, <2>1, <4>1, <4>2
    <3> QED BY <1>1, <2>1, <3>1, <3>2, <3>4, <3>5, <3>6 DEF TextsListed
  <2>4. CASE p.op # "text"
    <3>1. texts' = texts
      BY <2>1, <2>4
    <3>2. \A k \in 1 .. Len(texts) : stream'[texts[k]].op = "text"
      BY <1>2, <2>1 DEF TextsListed
    <3>3. ASSUME NEW i \in 1 .. Len(stream'), stream'[i].op = "text"
          PROVE  \E k \in 1 .. Len(texts) : texts[k] = i
      <4>1. i \in 1 .. Len(stream)
        BY <1>1, <2>1, <2>4, <3>3
      <4> QED BY <2>1, <3>3, <4>1 DEF TextsListed
    <3> QED BY <2>2, <3>1, <3>2, <3>3 DEF TextsListed
  <2> QED BY <2>3, <2>4
<1> QED BY <1>1, <1>2, <1>3, <1>4 DEF Grown

(* The events of the packets that a list names.                              *)
EventsAt(s, l) == [k \in 1 .. Len(l) |-> Dec!EventOf(s[l[k]])]

LEMMA EventsListed ==
  ASSUME NEW s \in Seq(Packet), NEW l \in Seq(1 .. Len(s))
  PROVE  /\ EventsAt(s, l) \in Seq(Dec!Event)
         /\ Len(EventsAt(s, l)) = Len(l) /\ Len(l) \in Nat
         /\ \A k \in 1 .. Len(l) :
              /\ EventsAt(s, l)[k] = Dec!EventOf(s[l[k]])
              /\ EventsAt(s, l)[k] \in Dec!Event
<1>1. Len(l) \in Nat /\ \A k \in 1 .. Len(l) : l[k] \in 1 .. Len(s)
  OBVIOUS
<1>2. \A k \in 1 .. Len(l) : s[l[k]] \in Packet
  BY <1>1
<1>3. \A p \in Packet : Dec!EventOf(p) \in Dec!Event
  BY ConstantsAssumption DEF Dec!EventOf, Dec!Event, Packet, Times, NoId
<1>4. EventsAt(s, l) \in [1 .. Len(l) -> Dec!Event]
  BY <1>2, <1>3 DEF EventsAt
<1>5. EventsAt(s, l) \in Seq(Dec!Event) /\ Len(EventsAt(s, l)) = Len(l)
  BY <1>1, <1>4
<1> QED BY <1>1, <1>2, <1>3, <1>5 DEF EventsAt

LEMMA SentListed ==
  /\ SentEvents = EventsAt(stream, texts)
  /\ SentEvents' = EventsAt(stream', texts')
BY DEF SentEvents, EventsAt

(* The player has not gone past a text packet that is yet to come.           *)
LEMMA AheadOfPlayer ==
  ASSUME TypeOK, TypeOK', Grown, PlayerTypeOK, HeadersLead', resumed = NumHeaders,
         NEW j \in 1 .. Len(stream'), stream'[j].op = "text", j \notin 1 .. Len(stream)
  PROVE  position < j
<1>1. j = Len(stream) + 1 /\ j > NumHeaders
  BY Before DEF HeadersLead
<1> QED BY <1>1, ConstantsAssumption DEF PlayerTypeOK, TypeOK

LEMMA EncodeGiven ==
  ASSUME ChannelInvariant, Encode, TypeOK', Grown, HeadersLead', TextsListed'
  PROVE  GivenInOrder'
<1>1. /\ UNCHANGED <<delivered, position>> /\ TypeOK /\ TextsListed /\ PlayerTypeOK
      /\ resumed = NumHeaders /\ GivenInOrder
      /\ texts' = IF stream' # stream /\ stream'[Len(stream')].op = "text"
                  THEN Append(texts, Len(stream')) ELSE texts
  BY DEF Encode, player, ChannelInvariant, HeardInvariant
<1>2. /\ \A k \in 1 .. Len(texts) : texts'[k] = texts[k] /\ texts[k] \in 1 .. Len(stream)
      /\ Len(texts) \in Nat /\ Len(delivered) \in Nat
      /\ \/ texts' = texts
         \/ /\ Len(texts') = Len(texts) + 1 /\ texts'[Len(texts) + 1] = Len(stream) + 1
  BY <1>1, ListStays DEF PlayerTypeOK
<1>3. Len(delivered) <= Len(texts) /\ Len(texts) <= Len(texts')
  BY <1>1, <1>2 DEF GivenInOrder
<1>4. ASSUME NEW k \in 1 .. Len(delivered)
      PROVE  /\ texts'[k] <= position
             /\ delivered[k] = Dec!EventOf(stream'[texts'[k]])
  <2>1. k \in 1 .. Len(texts)
    BY <1>2, <1>3
  <2>2. texts'[k] = texts[k] /\ stream'[texts[k]] = stream[texts[k]]
    BY <1>1, <1>2, <2>1, Prefix
  <2> QED BY <1>1, <2>2 DEF GivenInOrder
<1>5. ASSUME NEW k \in Len(delivered) + 1 .. Len(texts')
      PROVE  position < texts'[k]
  <2>1. CASE k \in 1 .. Len(texts)
    BY <1>1, <1>2, <1>3, <2>1 DEF GivenInOrder
  <2>2. CASE k \notin 1 .. Len(texts)
    <3>1. k = Len(texts) + 1 /\ texts'[k] = Len(stream) + 1 /\ k \in 1 .. Len(texts')
      BY <1>2, <2>2
    <3>2. Len(stream) + 1 \in 1 .. Len(stream') /\ stream'[Len(stream) + 1].op = "text"
      <4>1. \A m \in 1 .. Len(texts') :
              texts'[m] \in 1 .. Len(stream') /\ stream'[texts'[m]].op = "text"
        BY DEF TextsListed
      <4> QED BY <3>1, <4>1
    <3>3. Len(stream) + 1 \notin 1 .. Len(stream)
      BY <1>1 DEF TypeOK
    <3> QED BY <1>1, <3>1, <3>2, <3>3, AheadOfPlayer
  <2> QED BY <2>1, <2>2
<1> QED BY <1>1, <1>2, <1>3, <1>4, <1>5 DEF GivenInOrder

LEMMA EncodeKnown ==
  ASSUME ChannelInvariant, Encode, TypeOK', Grown, HeadersLead'
  PROVE  ActiveIsKnown'
<1>1. /\ UNCHANGED <<active, position>> /\ TypeOK /\ PlayerTypeOK
      /\ resumed = NumHeaders /\ ActiveIsKnown
  BY DEF Encode, player, decoder, ChannelInvariant, HeardInvariant
<1>2. /\ \A k \in 1 .. Len(stream) : k \in 1 .. Len(stream') /\ stream'[k] = stream[k]
      /\ Len(stream) \in Nat /\ Len(stream') \in Nat /\ position \in Nat
  BY <1>1, Prefix DEF TypeOK, PlayerTypeOK
<1>3. ASSUME NEW a \in active
      PROVE  \E j \in 1 .. position :
               j <= Len(stream') /\ stream'[j].op = "text" /\ a = Dec!Entry(stream'[j])
  <2>1. PICK j \in 1 .. position :
          j <= Len(stream) /\ stream[j].op = "text" /\ a = Dec!Entry(stream[j])
    BY <1>1 DEF ActiveIsKnown
  <2>2. j \in 1 .. Len(stream)
    BY <1>2, <2>1
  <2> QED BY <1>2, <2>1, <2>2
<1>4. ASSUME NEW j \in 1 .. Len(stream'),
             j <= position, stream'[j].op = "text",
             \A l \in 1 .. Len(stream') :
               l <= position /\ stream'[l].op = "text" => stream'[l].start < stream'[j].end
      PROVE  Dec!Known(active, stream'[j].id)
  <2>1. j \in 1 .. Len(stream)
    <3>1. j \in Int
      BY <1>2
    <3> QED BY <1>1, <1>2, <1>4, <3>1, AheadOfPlayer
  <2>2. \A l \in 1 .. Len(stream) :
          l <= position /\ stream[l].op = "text" => stream[l].start < stream[j].end
    BY <1>2, <1>4, <2>1
  <2> QED BY <1>1, <1>2, <1>4, <2>1, <2>2 DEF ActiveIsKnown
<1> QED BY <1>1, <1>3, <1>4 DEF ActiveIsKnown, Dec!Known

(* To the channel, a call that makes a text packet is a send, and any other  *)
(* does not show.                                                            *)
LEMMA EncodeSends ==
  ASSUME ChannelInvariant, Encode, TypeOK', Grown, TextsListed'
  PROVE  [Channel!Next]_(Channel!vars)
<1>1. /\ delivered' = delivered /\ TypeOK /\ TextsListed
      /\ texts' = IF stream' # stream /\ stream'[Len(stream')].op = "text"
                  THEN Append(texts, Len(stream')) ELSE texts
  BY DEF Encode, player, ChannelInvariant, HeardInvariant
<1>2. /\ \A k \in 1 .. Len(texts) :
           texts'[k] = texts[k] /\ texts[k] \in 1 .. Len(stream)
           /\ stream'[texts[k]] = stream[texts[k]]
      /\ \/ texts' = texts
         \/ /\ Len(texts') = Len(texts) + 1 /\ texts'[Len(texts) + 1] = Len(stream) + 1
  BY <1>1, ListStays, Prefix
<1>3. /\ stream \in Seq(Packet) /\ texts \in Seq(1 .. Len(stream))
      /\ stream' \in Seq(Packet) /\ texts' \in Seq(1 .. Len(stream'))
  BY <1>1 DEF TypeOK, TextsListed
<1>4. /\ SentEvents \in Seq(Dec!Event) /\ Len(SentEvents) = Len(texts) /\ Len(texts) \in Nat
      /\ \A k \in 1 .. Len(texts) : SentEvents[k] = Dec!EventOf(stream[texts[k]])
  BY <1>3, EventsListed, SentListed
<1>5. /\ SentEvents' \in Seq(Dec!Event) /\ Len(SentEvents') = Len(texts')
      /\ \A k \in 1 .. Len(texts') :
           /\ SentEvents'[k] = Dec!EventOf(stream'[texts'[k]])
           /\ SentEvents'[k] \in Dec!Event
  BY <1>3, EventsListed, SentListed
<1>6. CASE texts' = texts
  <2>1. SentEvents' = SentEvents
    <3>1. \A k \in 1 .. Len(texts) : SentEvents'[k] = SentEvents[k]
      BY <1>2, <1>4, <1>5, <1>6
    <3> QED BY <1>4, <1>5, <1>6, <3>1
  <2> QED BY <1>1, <2>1 DEF Channel!vars
<1>7. CASE Len(texts') = Len(texts) + 1
  <2>1. PICK e \in Dec!Event : e = SentEvents'[Len(SentEvents')]
    BY <1>4, <1>5, <1>7
  <2>2. \A k \in 1 .. Len(texts) : SentEvents'[k] = SentEvents[k]
    BY <1>2, <1>4, <1>5, <1>7
  <2>3. SentEvents' = Append(SentEvents, e) /\ SentEvents' # << >>
    BY <1>4, <1>5, <1>7, <2>1, <2>2
  <2> QED BY <1>1, <2>1, <2>3 DEF Channel!Next, Channel!Send
<1> QED BY <1>2, <1>6, <1>7

(* What the player is about to hand to the decoder.                          *)
LEMMA NextPacket ==
  ASSUME ChannelInvariant, Play
  PROVE  /\ position + 1 \in 1 .. Len(stream) /\ position' = position + 1
         /\ position \in Nat /\ Len(stream) \in Nat
         /\ stream[position + 1] \in Packet
         /\ stream[position + 1].clean
         /\ stream[position + 1].first = stream[position + 1].op
         /\ UNCHANGED <<stream, texts, resumed, lost, seeks>>
         /\ Dec!PacketIn(stream[position + 1])
<1>1. /\ position < Len(stream) /\ position' = position + 1
      /\ UNCHANGED <<encoder, texts, resumed, lost, seeks>>
      /\ Dec!PacketIn(stream[position + 1])
  BY DEF Play
<1>2. position \in Nat /\ Len(stream) \in Nat /\ stream \in Seq(Packet) /\ Parses
  BY DEF ChannelInvariant, HeardInvariant, PlayerTypeOK, TypeOK
<1>3. position + 1 \in 1 .. Len(stream)
  BY <1>1, <1>2
<1>4. stream[position + 1] \in Packet
  BY <1>2, <1>3
<1>5. stream[position + 1].clean /\ stream[position + 1].first = stream[position + 1].op
  BY <1>2, <1>3 DEF Parses
<1>6. stream' = stream
  BY <1>1 DEF encoder, vars
<1> QED BY <1>1, <1>2, <1>3, <1>4, <1>5, <1>6

(* A packet that is no text packet tells the channel nothing.                *)
LEMMA PassOther ==
  ASSUME ChannelInvariant, Play, stream[position + 1].op # "text",
         active' = active, delivered' = delivered
  PROVE  GivenInOrder' /\ ActiveIsKnown' /\ UNCHANGED Channel!vars
<1>1. /\ position + 1 \in 1 .. Len(stream) /\ position' = position + 1
      /\ position \in Nat /\ Len(stream) \in Nat
      /\ UNCHANGED <<stream, texts>>
      /\ GivenInOrder /\ ActiveIsKnown /\ TextsListed
  BY NextPacket DEF ChannelInvariant
<1>2. /\ \A k \in 1 .. Len(texts) :
           texts[k] \in 1 .. Len(stream) /\ stream[texts[k]].op = "text"
      /\ Len(texts) \in Nat /\ Len(delivered) \in Nat
  BY <1>1 DEF TextsListed, ChannelInvariant, HeardInvariant, PlayerTypeOK
<1>3. GivenInOrder'
  <2>1. ASSUME NEW k \in Len(delivered) + 1 .. Len(texts)
        PROVE  position + 1 < texts[k]
    <3>1. k \in 1 .. Len(texts)
      BY <1>2
    <3>2. position < texts[k] /\ texts[k] # position + 1
      BY <1>1, <1>2, <3>1 DEF GivenInOrder
    <3> QED BY <1>1, <1>2, <3>1, <3>2
  <2>2. \A k \in 1 .. Len(delivered) : texts[k] <= position + 1
    <3>1. \A k \in 1 .. Len(delivered) : k \in 1 .. Len(texts) /\ texts[k] <= position
      BY <1>1, <1>2 DEF GivenInOrder
    <3> QED BY <1>1, <1>2, <3>1
  <2> QED BY <1>1, <2>1, <2>2 DEF GivenInOrder
<1>4. ActiveIsKnown'
  <2>1. \A j \in 1 .. Len(stream) :
          stream[j].op = "text" => (j <= position <=> j <= position + 1)
    BY <1>1
  <2>2. \A a \in active :
          \E j \in 1 .. position + 1 :
            j <= Len(stream) /\ stream[j].op = "text" /\ a = Dec!Entry(stream[j])
    <3>1. 1 .. position \subseteq 1 .. position + 1
      BY <1>1
    <3> QED BY <1>1, <3>1 DEF ActiveIsKnown
  <2> QED BY <1>1, <2>1, <2>2 DEF ActiveIsKnown, Dec!Known
<1>5. SentEvents' = SentEvents
  BY <1>1 DEF SentEvents
<1> QED BY <1>3, <1>4, <1>5 DEF Channel!vars

(* A repeat is of an event the decoder knows.                                *)
LEMMA RepeatIsKnown ==
  ASSUME ChannelInvariant, Play, stream[position + 1].op = "repeat"
  PROVE  Dec!IsKnown(stream[position + 1])
<1> DEFINE q == position + 1
<1>1. /\ q \in 1 .. Len(stream) /\ q = position + 1
      /\ position \in Nat /\ Len(stream) \in Nat
      /\ RepeatsAreLive /\ ActiveIsKnown /\ TimesInOrder /\ TextsSound
      /\ \A j \in 1 .. Len(stream) : stream[j] \in Packet
  BY NextPacket DEF ChannelInvariant, AnyOrderInvariant, TypeOK
<1>2. stream[q].op = "repeat"
  OBVIOUS
<1> HIDE DEF q
<1>3. PICK j \in 1 .. q - 1 : stream[j].op = "text" /\ SameEvent(stream[j], stream[q])
  BY <1>1, <1>2 DEF RepeatsAreLive
<1>4. /\ j \in 1 .. Len(stream) /\ j <= position
      /\ stream[j].id = stream[q].id /\ stream[j].end = stream[q].end
      /\ stream[q].t < stream[q].end
  BY <1>1, <1>2, <1>3 DEF SameEvent, RepeatsAreLive
<1>5. \A l \in 1 .. Len(stream) :
        l <= position /\ stream[l].op = "text" => stream[l].start < stream[j].end
  <2> SUFFICES ASSUME NEW l \in 1 .. Len(stream), l <= position, stream[l].op = "text"
               PROVE  stream[l].start < stream[j].end
    OBVIOUS
  <2>1. l \in 1 .. q
    BY <1>1
  <2>2. stream[l].t <= stream[q].t
    BY <1>1, <1>2, <2>1 DEF TimesInOrder, DataOps
  <2>3. stream[l].start = stream[l].t
    BY <1>1 DEF TextsSound
  <2>4. stream[l].t \in Nat /\ stream[q].t \in Nat /\ stream[q].end \in Nat
    BY <1>1, ConstantsAssumption DEF Packet, Times
  <2> QED BY <1>4, <2>2, <2>3, <2>4
<1>6. Dec!Known(active, stream[j].id)
  BY <1>1, <1>3, <1>4, <1>5 DEF ActiveIsKnown
<1>7. stream[q].id \in Nat
  BY <1>1, <1>3, <1>4 DEF TextsSound
<1> QED BY <1>4, <1>6, <1>7 DEF Dec!IsKnown, q

(* A text packet is the next one in the list.                                *)
LEMMA TextIsNext ==
  ASSUME ChannelInvariant, Play, stream[position + 1].op = "text"
  PROVE  /\ Len(delivered) \in Nat /\ Len(texts) \in Nat
         /\ Len(delivered) < Len(texts)
         /\ texts[Len(delivered) + 1] = position + 1
<1>1. /\ position + 1 \in 1 .. Len(stream) /\ position \in Nat
      /\ GivenInOrder /\ TextsListed
  BY NextPacket DEF ChannelInvariant
<1>2. /\ \A k \in 1 .. Len(texts) : texts[k] \in Nat
      /\ Len(texts) \in Nat /\ Len(delivered) \in Nat
  BY <1>1 DEF TextsListed, ChannelInvariant, HeardInvariant, PlayerTypeOK
<1>3. PICK k \in 1 .. Len(texts) : texts[k] = position + 1
  BY <1>1 DEF TextsListed
<1>4. k \notin 1 .. Len(delivered)
  BY <1>1, <1>2, <1>3 DEF GivenInOrder
<1>5. Len(delivered) + 1 \in 1 .. Len(texts) /\ k >= Len(delivered) + 1
  BY <1>2, <1>3, <1>4
<1>6. position < texts[Len(delivered) + 1]
  BY <1>1, <1>2, <1>5 DEF GivenInOrder
<1>7. k > Len(delivered) + 1 => texts[Len(delivered) + 1] < position + 1
  BY <1>1, <1>3, <1>5 DEF TextsListed
<1> QED BY <1>1, <1>2, <1>3, <1>5, <1>6, <1>7

LEMMA TextGiven ==
  ASSUME ChannelInvariant, Play, stream[position + 1].op = "text",
         delivered' = Append(delivered, Dec!EventOf(stream[position + 1]))
  PROVE  GivenInOrder' /\ [Channel!Next]_(Channel!vars)
<1>1. /\ position + 1 \in 1 .. Len(stream) /\ position' = position + 1
      /\ position \in Nat /\ UNCHANGED <<stream, texts>>
      /\ GivenInOrder /\ TextsListed /\ stream \in Seq(Packet)
      /\ delivered \in Seq(Dec!Event)
  BY NextPacket DEF ChannelInvariant, HeardInvariant, TypeOK, PlayerTypeOK
<1>2. /\ Len(delivered) \in Nat /\ Len(texts) \in Nat
      /\ Len(delivered) < Len(texts)
      /\ texts[Len(delivered) + 1] = position + 1
      /\ \A k \in 1 .. Len(texts) : texts[k] \in Nat
  BY <1>1, TextIsNext DEF TextsListed
<1>3. /\ Len(SentEvents) = Len(texts) /\ SentEvents' = SentEvents
      /\ \A k \in 1 .. Len(texts) :
           SentEvents[k] = Dec!EventOf(stream[texts[k]]) /\ SentEvents[k] \in Dec!Event
  <2>1. texts \in Seq(1 .. Len(stream))
    BY <1>1 DEF TextsListed
  <2> QED BY <1>1, <2>1, EventsListed, SentListed
<1>4. PICK e \in Dec!Event : e = Dec!EventOf(stream[position + 1])
  <2>1. Len(delivered) + 1 \in 1 .. Len(texts)
    BY <1>2
  <2> QED BY <1>2, <1>3, <2>1
<1>5. /\ delivered' = Append(delivered, e)
      /\ Len(delivered') = Len(delivered) + 1
      /\ \A k \in 1 .. Len(delivered) : delivered'[k] = delivered[k]
      /\ delivered'[Len(delivered) + 1] = e
  <2>1. delivered' = Append(delivered, e)
    BY <1>4
  <2> QED BY <1>1, <2>1
<1>6. Channel!Receive
  <2>1. SentEvents[Len(delivered) + 1] = e
    BY <1>2, <1>3, <1>4
  <2> QED BY <1>2, <1>3, <1>5, <2>1 DEF Channel!Receive
<1>7. GivenInOrder'
  <2>1. ASSUME NEW k \in 1 .. Len(delivered')
        PROVE  texts[k] <= position + 1 /\ delivered'[k] = Dec!EventOf(stream[texts[k]])
    <3>1. CASE k \in 1 .. Len(delivered)
      <4>1. texts[k] <= position /\ delivered[k] = Dec!EventOf(stream[texts[k]])
        BY <1>1, <3>1 DEF GivenInOrder
      <4>2. texts[k] \in Nat
        BY <1>2, <3>1
      <4> QED BY <1>1, <1>5, <3>1, <4>1, <4>2
    <3>2. CASE k = Len(delivered) + 1
      BY <1>1, <1>2, <1>4, <1>5, <3>2
    <3> QED BY <1>2, <1>5, <3>1, <3>2
  <2>2. ASSUME NEW k \in Len(delivered') + 1 .. Len(texts)
        PROVE  position + 1 < texts[k]
    <3>1. k \in 1 .. Len(texts) /\ Len(delivered) + 1 \in 1 .. Len(texts)
          /\ Len(delivered) + 1 < k
      BY <1>2, <1>5
    <3> QED BY <1>1, <1>2, <3>1 DEF TextsListed
  <2> QED BY <1>1, <1>2, <1>5, <2>1, <2>2 DEF GivenInOrder
<1> QED BY <1>6, <1>7 DEF Channel!Next

LEMMA TextKnown ==
  ASSUME ChannelInvariant, Play, stream[position + 1].op = "text",
         active' = Dec!Flushed(Dec!Registered(active, stream[position + 1]),
                               stream[position + 1].start)
  PROVE  ActiveIsKnown'
<1> DEFINE q == position + 1
           p == stream[q]
<1>1. /\ q \in 1 .. Len(stream) /\ q = position + 1 /\ position' = q /\ stream' = stream
      /\ position \in Nat /\ Len(stream) \in Nat
      /\ ActiveIsKnown /\ TimesInOrder /\ TextsSound
      /\ \A j \in 1 .. Len(stream) : stream[j] \in Packet
      /\ p.op = "text" /\ active' = Dec!Flushed(Dec!Registered(active, p), p.start)
      /\ p = stream[q]
  BY NextPacket DEF ChannelInvariant, HeardInvariant, TypeOK
<1> HIDE DEF p, q
<1>2. \A j \in 1 .. Len(stream) : stream[j].op = "text" =>
        /\ stream[j].id \in Nat /\ stream[j].start \in Nat /\ stream[j].end \in Nat
        /\ j < q => stream[j].id # p.id
        /\ j <= q => stream[j].start <= p.start
  <2> SUFFICES ASSUME NEW j \in 1 .. Len(stream), stream[j].op = "text"
               PROVE  /\ stream[j].id \in Nat /\ stream[j].start \in Nat
                      /\ stream[j].end \in Nat
                      /\ j < q => stream[j].id # p.id
                      /\ j <= q => stream[j].start <= p.start
    OBVIOUS
  <2>1. stream[j].start \in Nat /\ stream[j].end \in Nat
    BY <1>1, ConstantsAssumption DEF Packet, Times
  <2>2. stream[j].start = stream[j].t /\ p.start = p.t /\ stream[j].id \in Nat
    BY <1>1 DEF TextsSound
  <2>3. j < q => stream[j].id # p.id
    BY <1>1 DEF TextsSound
  <2>4. j <= q => stream[j].t <= p.t
    BY <1>1 DEF TimesInOrder, DataOps
  <2> QED BY <2>1, <2>2, <2>3, <2>4
<1>3. /\ p.id \in Nat /\ p.start \in Nat /\ p.end \in Nat
      /\ Dec!Entry(p) = [id |-> p.id, start |-> p.start, end |-> p.end - 1]
  BY <1>1, <1>2 DEF Dec!Entry
<1>4. ASSUME NEW a \in active
      PROVE  \E j \in 1 .. position :
               /\ j \in 1 .. Len(stream) /\ stream[j].op = "text" /\ a = Dec!Entry(stream[j])
               /\ a.id = stream[j].id /\ a.start = stream[j].start
               /\ a.end = stream[j].end - 1
  BY <1>1 DEF ActiveIsKnown, Dec!Entry
<1>5. Dec!Registered(active, p) = active \cup {Dec!Entry(p)}
  <2>1. ~Dec!Known(active, p.id)
    <3>1. ASSUME NEW a \in active PROVE a.id # p.id
      BY <1>1, <1>2, <1>4
    <3> QED BY <3>1 DEF Dec!Known
  <2> QED BY <1>3, <2>1 DEF Dec!Registered
<1>6. ASSUME NEW a \in active'
      PROVE  \E j \in 1 .. q :
               j <= Len(stream) /\ stream[j].op = "text" /\ a = Dec!Entry(stream[j])
  <2>1. a \in active \/ a = Dec!Entry(p)
    BY <1>1, <1>5 DEF Dec!Flushed
  <2>2. CASE a \in active
    BY <1>1, <1>4, <2>2
  <2>3. CASE a = Dec!Entry(p)
    BY <1>1, <2>3
  <2> QED BY <2>1, <2>2, <2>3
<1>7. ASSUME NEW j \in 1 .. Len(stream),
             j <= q, stream[j].op = "text",
             \A l \in 1 .. Len(stream) :
               l <= q /\ stream[l].op = "text" => stream[l].start < stream[j].end
      PROVE  \E a \in active' : a.id = stream[j].id
  <2>1. p.start < stream[j].end
    BY <1>1, <1>7
  <2>2. CASE j = q
    <3>1. Dec!Entry(p) \in active'
      BY <1>1, <1>3, <1>5, <2>1, <2>2 DEF Dec!Flushed
    <3> QED BY <1>1, <1>3, <2>2, <3>1
  <2>3. CASE j < q
    <3>1. \A l \in 1 .. Len(stream) :
            l <= position /\ stream[l].op = "text" => stream[l].start < stream[j].end
      BY <1>1, <1>7
    <3>2. PICK a \in active : a.id = stream[j].id
      BY <1>1, <1>7, <2>3, <3>1 DEF ActiveIsKnown, Dec!Known
    <3>3. PICK i \in 1 .. position :
            /\ i \in 1 .. Len(stream) /\ stream[i].op = "text"
            /\ a.id = stream[i].id /\ a.start = stream[i].start
            /\ a.end = stream[i].end - 1
      BY <1>4
    <3>4. i = j
      <4>1. i \in 1 .. Len(stream) /\ stream[i].op = "text" /\ stream[i].id = stream[j].id
        BY <3>2, <3>3
      <4>2. i \in Int /\ j \in Int
        BY <1>1
      <4>3. i < j => i \in 1 .. j - 1
        BY <1>1, <4>1, <4>2
      <4>4. j < i => j \in 1 .. i - 1
        BY <1>1, <4>1, <4>2
      <4>5. ~(i < j) /\ ~(j < i)
        BY <1>1, <1>7, <4>1, <4>3, <4>4 DEF TextsSound
      <4> QED BY <4>2, <4>5
    <3>5. a.start <= p.start /\ p.start <= a.end
      BY <1>2, <1>3, <1>7, <2>1, <2>3, <3>3, <3>4
    <3>6. a \in active'
      BY <1>1, <1>5, <3>5 DEF Dec!Flushed
    <3> QED BY <3>2, <3>6
  <2> QED BY <1>1, <1>7, <2>2, <2>3
<1> QED BY <1>1, <1>6, <1>7 DEF ActiveIsKnown, Dec!Known

LEMMA PlayChannel ==
  ASSUME ChannelInvariant, Play
  PROVE  GivenInOrder' /\ ActiveIsKnown' /\ [Channel!Next]_(Channel!vars)
<1>1. /\ Dec!PacketIn(stream[position + 1])
      /\ stream[position + 1].first = stream[position + 1].op
      /\ stream[position + 1] \in Packet
      /\ delivered' = IF event' = Dec!NoEvent THEN delivered ELSE Append(delivered, event')
  BY NextPacket DEF Play
<1>2. CASE stream[position + 1].op = "text"
  <2>1. Dec!Deliver(stream[position + 1])
    BY <1>1, <1>2
    DEF Dec!PacketIn, Dec!DecodeText, Dec!DecodeRepeat, Dec!IgnoreRepeat, Dec!DecodeOther
  <2>2. /\ event' = Dec!EventOf(stream[position + 1]) /\ event' # Dec!NoEvent
    <3>1. stream[position + 1].start \in Nat
      BY <1>1, ConstantsAssumption DEF Packet, Times
    <3>2. event'.start = stream[position + 1].start /\ event' = Dec!EventOf(stream[position + 1])
      BY <2>1 DEF Dec!Deliver, Dec!EventOf
    <3>3. Dec!NoEvent.start = -1
      BY DEF Dec!NoEvent
    <3> QED BY <3>1, <3>2, <3>3
  <2>3. delivered' = Append(delivered, Dec!EventOf(stream[position + 1]))
    BY <1>1, <2>2
  <2>4. active' = Dec!Flushed(Dec!Registered(active, stream[position + 1]),
                              stream[position + 1].start)
    BY <2>1 DEF Dec!Deliver
  <2> QED BY <1>2, <2>3, <2>4, TextGiven, TextKnown
<1>3. CASE stream[position + 1].op # "text"
  <2>1. event' = Dec!NoEvent /\ active' = active
    <3>1. stream[position + 1].op = "repeat" => Dec!IsKnown(stream[position + 1])
      BY RepeatIsKnown
    <3> QED BY <1>1, <1>3, <3>1
        DEF Dec!PacketIn, Dec!DecodeText, Dec!DecodeRepeat, Dec!IgnoreRepeat, Dec!DecodeOther
  <2> QED BY <1>1, <1>3, <2>1, PassOther
<1> QED BY <1>2, <1>3

LEMMA ChannelInit ==
  StreamInit => ChannelInvariant /\ Channel!Init
<1> SUFFICES ASSUME StreamInit PROVE ChannelInvariant /\ Channel!Init
  OBVIOUS
<1>1. HeardInvariant /\ HeadersLead /\ AnyOrderInvariant
  BY HeardInit, SeekInit, AnyOrderInit DEF SeekInvariant, StreamInit
<1>2. /\ stream = << >> /\ texts = << >> /\ delivered = << >> /\ active = {}
      /\ lost = {} /\ seeks = 0 /\ resumed = NumHeaders
  BY Zenon DEF StreamInit, Init, Dec!Init
<1>3. /\ Len(stream) = 0 /\ Len(texts) = 0 /\ Len(delivered) = 0
      /\ 1 .. Len(stream) = {} /\ 1 .. Len(texts) = {}
      /\ Len(delivered) + 1 .. Len(texts) = {} /\ 1 .. Len(delivered) = {}
  BY <1>2
<1>4. TimesInOrder /\ TextsSound
  BY <1>3 DEF TimesInOrder, TextsSound
<1>5. TextsListed
  <2>1. texts \in Seq(1 .. Len(stream))
    BY <1>2
  <2> QED BY <1>3, <2>1 DEF TextsListed
<1>6. GivenInOrder
  BY <1>3 DEF GivenInOrder
<1>7. ActiveIsKnown
  BY <1>2, <1>3 DEF ActiveIsKnown
<1>8. SentEvents = << >>
  <2>1. stream \in Seq(Packet) /\ texts \in Seq(1 .. Len(stream))
    BY <1>1, <1>5 DEF HeardInvariant, TypeOK, TextsListed
  <2>2. SentEvents \in Seq(Dec!Event) /\ Len(SentEvents) = 0
    BY <1>3, <2>1, EventsListed, SentListed
  <2> QED BY <2>2
<1> QED BY <1>1, <1>2, <1>4, <1>5, <1>6, <1>7, <1>8 DEF ChannelInvariant, Channel!Init

LEMMA ChannelStep ==
  ASSUME TimeOrder, HeadersFirst, NothingMissed
  PROVE  ChannelInvariant /\ [StreamNext]_streamVars
           => ChannelInvariant' /\ [Channel!Next]_(Channel!vars)
<1> SUFFICES ASSUME ChannelInvariant, [StreamNext]_streamVars
             PROVE  ChannelInvariant' /\ [Channel!Next]_(Channel!vars)
  OBVIOUS
<1>1. /\ HeardInvariant /\ HeardInvariant' /\ TypeOK /\ TypeOK'
      /\ AnyOrderInvariant /\ AnyOrderInvariant' /\ [Next]_vars
      /\ lost = {} /\ seeks = 0
  BY HeardStep, AnyOrderStep, EncoderWithin DEF ChannelInvariant, HeardInvariant
<1>2. CASE Encode
  <2>1. Grown
    BY <1>1, <1>2, EncodeHeard
  <2>2. /\ clock <= clock'
        /\ \A p \in Packet : stream' = Append(stream, p) => Timely(p)
    BY <1>1, Emission
  <2>3. HeadersLead'
    BY <1>1, <2>1, HeadersStay DEF ChannelInvariant
  <2>4. TimesInOrder' /\ TextsSound'
    BY <1>1, <2>1, <2>2, TimesStay, TextsStay DEF ChannelInvariant, AnyOrderInvariant
  <2>5. TextsListed'
    BY <1>1, <1>2, <2>1, ListStays DEF ChannelInvariant, Encode
  <2>6. GivenInOrder' /\ ActiveIsKnown'
    BY <1>1, <1>2, <2>1, <2>3, <2>5, EncodeGiven, EncodeKnown
  <2>7. [Channel!Next]_(Channel!vars)
    BY <1>1, <1>2, <2>1, <2>5, EncodeSends
  <2>8. UNCHANGED <<lost, seeks, resumed>>
    BY <1>2 DEF Encode, player
  <2> QED BY <1>1, <2>3, <2>4, <2>5, <2>6, <2>7, <2>8 DEF ChannelInvariant
<1>3. ASSUME UNCHANGED <<encoder, texts>>
      PROVE  HeadersLead' /\ TimesInOrder' /\ TextsSound' /\ TextsListed' /\ SentEvents' = SentEvents
  <2>1. UNCHANGED <<packetno, stream, clock, texts>>
    BY <1>3 DEF encoder, vars
  <2>2. HeadersLead'
    BY <2>1 DEF ChannelInvariant, HeadersLead
  <2>3. TimesInOrder' /\ TextsSound'
    BY <2>1 DEF ChannelInvariant, TimesInOrder, TextsSound
  <2>4. TextsListed'
    BY <2>1 DEF ChannelInvariant, TextsListed
  <2>5. SentEvents' = SentEvents
    BY <2>1 DEF SentEvents
  <2> QED BY <2>2, <2>3, <2>4, <2>5
<1>4. CASE Play
  <2>1. GivenInOrder' /\ ActiveIsKnown' /\ [Channel!Next]_(Channel!vars)
    BY <1>4, PlayChannel
  <2>2. UNCHANGED <<encoder, texts, lost, seeks, resumed>>
    BY <1>4 DEF Play
  <2> QED BY <1>1, <1>3, <2>1, <2>2 DEF ChannelInvariant
<1>5. CASE Lose \/ Damage \/ \E i \in 1 .. Len(stream) : SeekTo(i)
  BY <1>1, <1>5, NothingSkipped
<1>6. CASE UNCHANGED streamVars
  <2>1. UNCHANGED <<encoder, texts, lost, seeks, resumed, position, delivered, active>>
    BY <1>6 DEF streamVars, player, decoder
  <2>2. stream' = stream
    BY <2>1 DEF encoder, vars
  <2>3. GivenInOrder' /\ ActiveIsKnown'
    BY <2>1, <2>2 DEF ChannelInvariant, GivenInOrder, ActiveIsKnown, Dec!Known
  <2> QED BY <1>1, <1>3, <2>1, <2>3 DEF ChannelInvariant, Channel!vars
<1> QED BY <1>2, <1>4, <1>5, <1>6 DEF StreamNext

(* Played from its start without a loss, a stream that is encoded in time    *)
(* order is a channel: each event is delivered at most once, and in the order*)
(* the events were encoded, whatever calls fail in between and whatever is   *)
(* repeated.  (That each is delivered in the end rests on fairness.)         *)
THEOREM StreamIsChannel ==
  ASSUME TimeOrder, HeadersFirst, NothingMissed
  PROVE  StreamSpec => Channel!Init /\ [][Channel!Next]_(Channel!vars)
<1>1. StreamInit => ChannelInvariant /\ Channel!Init
  BY ChannelInit
<1>2. ChannelInvariant /\ [StreamNext]_streamVars
        => ChannelInvariant' /\ [Channel!Next]_(Channel!vars)
  BY ChannelStep
<1> QED BY <1>1, <1>2, PTL DEF StreamSpec

-----------------------------------------------------------------------------
(* The encoder of a client that keeps promises is the encoder, called by     *)
(* someone who keeps them.                                                   *)

LEMMA OrderlySets ==
  /\ Orderly!Times = Times /\ Orderly!NoId = NoId /\ Orderly!Empty = Empty
  /\ \A S, t : Orderly!Trimmed(S, t) = Trimmed(S, t)
  /\ \A t0, t1, s : Orderly!NewTiming(t0, t1, s) = NewTiming(t0, t1, s)
  /\ \A S, d, t : Orderly!Repeated(S, d, t) = Repeated(S, d, t)
  /\ \A S, t, threshold : Orderly!Due(S, t, threshold) = Due(S, t, threshold)
  /\ \A d, t, gp : Orderly!RepeatOf(d, t, gp) = RepeatOf(d, t, gp)
  /\ \A op, i, s, e, t, gp, no :
       Orderly!PacketOf(op, i, s, e, t, gp, no) = PacketOf(op, i, s, e, t, gp, no)
  /\ Orderly!SavedAs = SavedAs
<1>1. Orderly!Times = Times /\ Orderly!NoId = NoId /\ Orderly!Empty = Empty
  BY DEF Orderly!Times, Times, Orderly!NoId, NoId, Orderly!Empty, Empty
<1>2. \A S, t : Orderly!Trimmed(S, t) = Trimmed(S, t)
  BY DEF Orderly!Trimmed, Trimmed
<1>3. \A t0, t1, s : Orderly!NewTiming(t0, t1, s) = NewTiming(t0, t1, s)
  BY DEF Orderly!NewTiming, NewTiming
<1>4. \A S, d, t : Orderly!Repeated(S, d, t) = Repeated(S, d, t)
  BY DEF Orderly!Repeated, Repeated
<1>5. \A S, t, threshold : Orderly!Due(S, t, threshold) = Due(S, t, threshold)
  BY DEF Orderly!Due, Due
<1>6. \A d, t, gp : Orderly!RepeatOf(d, t, gp) = RepeatOf(d, t, gp)
  BY DEF Orderly!RepeatOf, RepeatOf
<1>7. \A op, i, s, e, t, gp, no :
        Orderly!PacketOf(op, i, s, e, t, gp, no) = PacketOf(op, i, s, e, t, gp, no)
  BY <1>1 DEF Orderly!PacketOf, PacketOf
<1>8. Orderly!SavedAs = SavedAs
  BY <1>1 DEF Orderly!SavedAs, SavedAs
<1> QED BY <1>1, <1>2, <1>3, <1>4, <1>5, <1>6, <1>7, <1>8

LEMMA OrderlyGuards ==
  /\ \A t0, t1 : Orderly!WithNew(t0, t1) = WithNew(t0, t1)
  /\ \A S, b : Orderly!IsEarliest(S, b) <=> IsEarliest(S, b)
  /\ \A S, t, b : Orderly!IsBase(S, t, b) <=> IsBase(S, t, b)
  /\ \A b, o : Orderly!Granule(b, o) = Granule(b, o)
  /\ \A b, t : Orderly!Accepted(b, t) <=> Accepted(b, t)
  /\ \A t, e : Orderly!IsEnd(t, e) <=> IsEnd(t, e)
  /\ \A d : Orderly!HasRepeatData(d) <=> HasRepeatData(d)
  /\ Orderly!Fail <=> Fail
  /\ Orderly!Room <=> Room
  /\ \A p : Orderly!Emit(p) <=> Emit(p)
<1>1. \A t0, t1 : Orderly!WithNew(t0, t1) = WithNew(t0, t1)
  BY OrderlySets DEF Orderly!WithNew, WithNew
<1>2. \A S, b : Orderly!IsEarliest(S, b) <=> IsEarliest(S, b)
  BY DEF Orderly!IsEarliest, IsEarliest
<1>3. \A S, t, b : Orderly!IsBase(S, t, b) <=> IsBase(S, t, b)
  BY <1>2 DEF Orderly!IsBase, IsBase
<1>4. \A b, o : Orderly!Granule(b, o) = Granule(b, o)
  BY DEF Orderly!Granule, Granule
<1>5. \A b, t : Orderly!Accepted(b, t) <=> Accepted(b, t)
  BY <1>4 DEF Orderly!Accepted, Accepted
<1>6. \A t, e : Orderly!IsEnd(t, e) <=> IsEnd(t, e)
  <2>1. \A S, e : Orderly!IsLatest(S, e) <=> IsLatest(S, e)
    BY DEF Orderly!IsLatest, IsLatest
  <2> QED BY <2>1 DEF Orderly!IsEnd, IsEnd
<1>7. \A d : Orderly!HasRepeatData(d) <=> HasRepeatData(d)
  BY DEF Orderly!HasRepeatData, HasRepeatData
<1>8. Orderly!Fail <=> Fail
  BY DEF Orderly!Fail, Fail
<1>9. Orderly!Room <=> Room
  BY DEF Orderly!Room, Room
<1>10. \A p : Orderly!Emit(p) <=> Emit(p)
  BY <1>9, OrderlySets DEF Orderly!Emit, Emit
<1> QED BY <1>1, <1>2, <1>3, <1>4, <1>5, <1>6, <1>7, <1>8, <1>9, <1>10

(* The headers have been made, and time does not go back.                    *)
Prompt(t) == packetno >= NumHeaders - 1 /\ clock <= t

LEMMA OrderlyCall ==
  ASSUME NEW t, Prompt(t)
  PROVE  /\ Call(t) => Orderly!Call(t)
         /\ \A t1 : TextCall(t, t1) => Orderly!TextCall(t, t1)
<1>1. Call(t) => Orderly!Call(t)
  BY DEF Prompt, Call, Orderly!Call
<1> QED BY <1>1 DEF TextCall, Orderly!TextCall

LEMMA OrderlyText ==
  ASSUME NEW t0, NEW t1, Prompt(t0)
  PROVE  /\ EncodeText(t0, t1) => Orderly!EncodeText(t0, t1)
         /\ EncodeTextRejected(t0, t1) => Orderly!EncodeTextRejected(t0, t1)
         /\ EncodeTextNoSlot(t0, t1) => Orderly!EncodeTextNoSlot(t0, t1)
         /\ EncodeTextNotSaved(t0, t1) => Orderly!EncodeTextNotSaved(t0, t1)
<1>1. TextCall(t0, t1) => Orderly!TextCall(t0, t1)
  BY OrderlyCall
<1>2. EncodeText(t0, t1) => Orderly!EncodeText(t0, t1)
  BY <1>1, OrderlySets, OrderlyGuards DEF EncodeText, Orderly!EncodeText
<1>3. EncodeTextRejected(t0, t1) => Orderly!EncodeTextRejected(t0, t1)
  BY <1>1, OrderlySets, OrderlyGuards DEF EncodeTextRejected, Orderly!EncodeTextRejected
<1>4. EncodeTextNoSlot(t0, t1) => Orderly!EncodeTextNoSlot(t0, t1)
  BY <1>1, OrderlySets, OrderlyGuards DEF EncodeTextNoSlot, Orderly!EncodeTextNoSlot
<1>5. EncodeTextNotSaved(t0, t1) => Orderly!EncodeTextNotSaved(t0, t1)
  BY <1>1, OrderlySets, OrderlyGuards DEF EncodeTextNotSaved, Orderly!EncodeTextNotSaved
<1> QED BY <1>2, <1>3, <1>4, <1>5

LEMMA OrderlyKeepalive ==
  ASSUME NEW t, Prompt(t)
  PROVE  /\ EncodeKeepalive(t) => Orderly!EncodeKeepalive(t)
         /\ KeepaliveRejected(t) => Orderly!KeepaliveRejected(t)
         /\ KeepaliveNoSlot(t) => Orderly!KeepaliveNoSlot(t)
<1>1. Call(t) => Orderly!Call(t)
  BY OrderlyCall
<1>2. KeepaliveGranule(t) => Orderly!KeepaliveGranule(t)
  BY OrderlySets, OrderlyGuards DEF KeepaliveGranule, Orderly!KeepaliveGranule
<1>3. EncodeKeepalive(t) => Orderly!EncodeKeepalive(t)
  BY <1>1, <1>2, OrderlySets, OrderlyGuards DEF EncodeKeepalive, Orderly!EncodeKeepalive
<1>4. KeepaliveRejected(t) => Orderly!KeepaliveRejected(t)
  BY <1>1, OrderlySets, OrderlyGuards DEF KeepaliveRejected, Orderly!KeepaliveRejected
<1>5. KeepaliveNoSlot(t) => Orderly!KeepaliveNoSlot(t)
  BY <1>1, <1>2, OrderlySets, OrderlyGuards DEF KeepaliveNoSlot, Orderly!KeepaliveNoSlot
<1> QED BY <1>3, <1>4, <1>5

LEMMA OrderlyRepeat ==
  ASSUME NEW t, NEW threshold, Prompt(t)
  PROVE  RepeatStep(t, threshold) => Orderly!RepeatStep(t, threshold)
<1>1. Call(t) => Orderly!Call(t)
  BY OrderlyCall
<1>2. RepeatNothing(t, threshold) => Orderly!RepeatNothing(t, threshold)
  BY <1>1, OrderlySets, OrderlyGuards DEF RepeatNothing, Orderly!RepeatNothing
<1>3. RepeatNoMemory(t, threshold) => Orderly!RepeatNoMemory(t, threshold)
  BY <1>1, OrderlySets, OrderlyGuards DEF RepeatNoMemory, Orderly!RepeatNoMemory
<1>4. EncodeRepeat(t, threshold) => Orderly!EncodeRepeat(t, threshold)
  BY <1>1, OrderlySets, OrderlyGuards DEF EncodeRepeat, Orderly!EncodeRepeat
<1> QED BY <1>2, <1>3, <1>4 DEF RepeatStep, Orderly!RepeatStep

LEMMA OrderlyFinish ==
  ASSUME packetno >= NumHeaders - 1
  PROVE  /\ EncodeFinish(-1) => Orderly!EncodeFinish(-1)
         /\ FinishRejected(-1) => Orderly!FinishRejected(-1)
<1>1. FinishCall(-1) => Orderly!FinishCall(-1)
  BY DEF FinishCall, Orderly!FinishCall
<1>2. EncodeFinish(-1) => Orderly!EncodeFinish(-1)
  BY <1>1, OrderlySets, OrderlyGuards DEF EncodeFinish, Orderly!EncodeFinish
<1>3. FinishRejected(-1) => Orderly!FinishRejected(-1)
  BY <1>1, OrderlySets, OrderlyGuards DEF FinishRejected, Orderly!FinishRejected
<1> QED BY <1>2, <1>3

LEMMA OrderlyHeaders == EncodeHeaders => Orderly!EncodeHeaders
BY OrderlySets, OrderlyGuards DEF EncodeHeaders, Orderly!EncodeHeaders

-----------------------------------------------------------------------------
(* What the converter has read.                                              *)

AllLines == SrtLines \cup LrcLines

LEMMA LineTypes ==
  /\ \A l \in SrtLines : /\ l.kind \in {"blank", "id", "text", "timing"}
                         /\ l.t0 \in Times /\ l.t1 \in Times
  /\ \A l \in LrcLines : l.kind \in {"blank", "text", "lyric"} /\ l.t0 \in Times
<1>1. 0 \in Times /\ Times \subseteq Nat
  BY ConstantsAssumption DEF Times
<1>2. \A k : Line(k).kind = k /\ Line(k).t0 = 0 /\ Line(k).t1 = 0
  BY DEF Line
<1>3. \A t0, t1 : /\ TimingLine(t0, t1).kind = "timing"
                  /\ TimingLine(t0, t1).t0 = t0 /\ TimingLine(t0, t1).t1 = t1
  BY DEF TimingLine
<1>4. \A t, w : Lyric(t, w).kind = "lyric" /\ Lyric(t, w).t0 = t
  BY DEF Lyric
<1>5. \A c \in CueTimes : c[1] \in Times /\ c[2] \in Times
  BY ConvertAssumption
<1>6. \A t \in LyricTimes : t \in Times
  BY ConvertAssumption
<1>7. ASSUME NEW l \in SrtLines
      PROVE  /\ l.kind \in {"blank", "id", "text", "timing"}
             /\ l.t0 \in Times /\ l.t1 \in Times
  BY <1>1, <1>2, <1>3, <1>5 DEF SrtLines
<1>8. ASSUME NEW l \in LrcLines
      PROVE  l.kind \in {"blank", "text", "lyric"} /\ l.t0 \in Times
  BY <1>1, <1>2, <1>4, <1>6 DEF LrcLines
<1> QED BY <1>7, <1>8

ReachedNow(t) ==
  t <= 0 \/ \E i \in 1 .. Len(file') : file'[i].kind \in Timed /\ t <= file'[i].t0

(* A line more: what was reached still is, and a line in order is not before *)
(* it.                                                                       *)
LEMMA LineRead ==
  ASSUME file \in Seq(AllLines), NEW l \in AllLines, Read(l)
  PROVE  /\ file' \in Seq(AllLines)
         /\ InOrder(file') => InOrder(file)
         /\ \A t : Reached(t) => ReachedNow(t)
         /\ l.kind \in Timed => ReachedNow(l.t0)
         /\ InOrder(file') /\ l.kind \in Timed =>
              \A t \in Times \cup {-1} : Reached(t) => t <= l.t0
<1>0. Times \subseteq Nat
  BY ConstantsAssumption DEF Times
<1>1. /\ file' = Append(file, l) /\ file' \in Seq(AllLines)
      /\ Len(file) \in Nat /\ Len(file') = Len(file) + 1
      /\ file'[Len(file')] = l
      /\ \A i \in 1 .. Len(file) : file'[i] = file[i]
  BY DEF Read
<1>2. 1 .. Len(file) \subseteq 1 .. Len(file') /\ Len(file') \in 1 .. Len(file')
  BY <1>1
<1>3. InOrder(file') => InOrder(file)
  BY <1>1, <1>2 DEF InOrder
<1>4. ASSUME NEW t, Reached(t) PROVE ReachedNow(t)
  <2>1. CASE t <= 0
    BY <2>1 DEF ReachedNow
  <2>2. CASE \E i \in 1 .. Len(file) : file[i].kind \in Timed /\ t <= file[i].t0
    <3>1. PICK i \in 1 .. Len(file) : file[i].kind \in Timed /\ t <= file[i].t0
      BY <2>2
    <3>2. i \in 1 .. Len(file') /\ file'[i] = file[i]
      BY <1>1, <1>2
    <3> QED BY <3>1, <3>2, Zenon DEF ReachedNow
  <2> QED BY <1>4, <2>1, <2>2 DEF Reached
<1>5. l.t0 \in Nat
  BY <1>0, LineTypes DEF AllLines
<1>6. ASSUME l.kind \in Timed PROVE ReachedNow(l.t0)
  <2>1. l.t0 <= l.t0
    BY <1>5
  <2>2. file'[Len(file')].kind \in Timed /\ l.t0 <= file'[Len(file')].t0
    BY <1>1, <1>6, <2>1
  <2> QED BY <1>2, <2>2 DEF ReachedNow
<1>7. ASSUME InOrder(file'), l.kind \in Timed, NEW t \in Times \cup {-1}, Reached(t)
      PROVE  t <= l.t0
  <2>1. CASE t <= 0
    <3>1. t \in Int
      BY <1>0
    <3> QED BY <1>5, <2>1, <3>1
  <2>2. CASE \E i \in 1 .. Len(file) : file[i].kind \in Timed /\ t <= file[i].t0
    <3>1. PICK i \in 1 .. Len(file) : file[i].kind \in Timed /\ t <= file[i].t0
      BY <2>2
    <3>2. i < Len(file') /\ file'[i] = file[i]
      BY <1>1
    <3>3. file[i].t0 <= l.t0
      <4>1. /\ i \in 1 .. Len(file') /\ file'[i].kind \in Timed
            /\ file'[Len(file')].kind \in Timed
        BY <1>1, <1>2, <1>7, <3>1, <3>2
      <4>2. file'[i].t0 <= file'[Len(file')].t0
        BY <1>2, <1>7, <3>2, <4>1, Zenon DEF InOrder
      <4> QED BY <1>1, <3>2, <4>2
    <3>4. file[i].t0 \in Nat
      <4>1. file[i] \in AllLines
        BY <3>1
      <4> QED BY <1>0, <4>1, LineTypes DEF AllLines
    <3>5. t \in Int
      BY <1>0
    <3> QED BY <1>5, <3>1, <3>3, <3>4, <3>5
  <2> QED BY <1>7, <2>1, <2>2 DEF Reached
<1> QED BY <1>1, <1>3, <1>4, <1>6, <1>7

LEMMA SameFile ==
  ASSUME file' = file
  PROVE  /\ InOrder(file') <=> InOrder(file)
         /\ \A t : ReachedNow(t) <=> Reached(t)
BY DEF Reached, ReachedNow

-----------------------------------------------------------------------------
(* What each step does, as far as the times go.                              *)

(* The encoder's clock after a call at time t.                               *)
Ticked(t) == clock' = IF clock < t THEN t ELSE clock

LEMMA CallsTick ==
  /\ EncodeHeaders => clock' = clock
  /\ \A t0, t1 : TextStep(t0, t1) => Ticked(t0)
  /\ \A t : KeepaliveStep(t) => Ticked(t)
  /\ \A t, threshold : RepeatStep(t, threshold) => Ticked(t)
  /\ FinishStep(-1) /\ clock \in Times => clock' = clock
<1>1. EncodeHeaders => clock' = clock
  BY DEF EncodeHeaders
<1>2. \A t0, t1 : TextStep(t0, t1) => Ticked(t0)
  BY DEF TextStep, EncodeTextRejected, EncodeTextNoSlot, EncodeTextBadMotion,
         EncodeTextNoPacket, EncodeTextNotSaved, EncodeText, TextCall, Call, Ticked
<1>3. \A t : KeepaliveStep(t) => Ticked(t)
  BY DEF KeepaliveStep, KeepaliveRejected, KeepaliveNoSlot, KeepaliveNoPacket,
         EncodeKeepalive, Call, Ticked
<1>4. \A t, threshold : RepeatStep(t, threshold) => Ticked(t)
  BY DEF RepeatStep, RepeatNothing, RepeatNoMemory, EncodeRepeat, Call, Ticked
<1>5. FinishStep(-1) /\ clock \in Times => clock' = clock
  BY ConstantsAssumption
  DEF FinishStep, FinishRejected, FinishNoPacket, EncodeFinish, FinishCall, Times
<1> QED BY <1>1, <1>2, <1>3, <1>4, <1>5

(* Packets are only added, and only counted up.                              *)
Counted == packetno <= packetno' /\ Len(stream) <= Len(stream')

LEMMA PacketsCount ==
  ASSUME TypeOK, [Next]_vars
  PROVE  Counted
<1>1. /\ packetno \in Int /\ stream \in Seq(Packet)
      /\ packetno <= packetno /\ packetno <= packetno + 1
      /\ Len(stream) <= Len(stream)
  BY DEF TypeOK
<1>2. \A p : Len(stream) <= Len(Append(stream, p))
  BY <1>1
<1>3. \A p : Emit(p) => Len(stream) <= Len(stream')
  BY <1>2 DEF Emit
<1>4. CASE EncodeHeaders \/ EncodeHeadersFails
  BY <1>1, <1>3, <1>4 DEF EncodeHeaders, EncodeHeadersFails, Counted
<1>5. CASE \E t0, t1 \in Times : TextStep(t0, t1)
  BY <1>1, <1>3, <1>5
  DEF TextStep, EncodeTextRejected, EncodeTextNoSlot, EncodeTextBadMotion,
      EncodeTextNoPacket, EncodeTextNotSaved, EncodeText, Counted
<1>6. CASE \E t \in Times : KeepaliveStep(t)
  BY <1>1, <1>3, <1>6
  DEF KeepaliveStep, KeepaliveRejected, KeepaliveNoSlot, KeepaliveNoPacket,
      EncodeKeepalive, Counted
<1>7. CASE \E t \in Times, threshold \in Thresholds : RepeatStep(t, threshold)
  BY <1>1, <1>2, <1>7
  DEF RepeatStep, RepeatNothing, RepeatNoMemory, EncodeRepeat, Counted
<1>8. CASE \E t \in Times \cup {-1} : FinishStep(t)
  BY <1>1, <1>3, <1>8
  DEF FinishStep, FinishRejected, FinishNoPacket, EncodeFinish, Counted
<1>9. CASE UNCHANGED vars
  BY <1>1, <1>9 DEF vars, Counted
<1> QED BY <1>4, <1>5, <1>6, <1>7, <1>8, <1>9 DEF Next

(* A packet that does not reach the output is in the stream.                 *)
MissingKept ==
  \/ missing' = missing
  \/ missing' = {Len(stream) + 1} /\ \E p : stream' = Append(stream, p)
  \/ missing = {} /\ missing' = 1 .. Len(stream) /\ stream' = stream

LEMMA HeadersDoes ==
  ASSUME Headers
  PROVE  /\ pc = "headers" /\ pc' \in {"headers", "read", "failed"}
         /\ EncodeHeaders \/ (UNCHANGED encoder /\ packetno + 1 = NumHeaders)
         /\ pc' = "read" => UNCHANGED encoder /\ packetno + 1 = NumHeaders
         /\ UNCHANGED <<reader, options, last, walk>>
         /\ MissingKept
<1>1. EncodeHeaders => \E p : stream' = Append(stream, p)
  BY DEF EncodeHeaders, Emit
<1>2. UNCHANGED encoder => stream' = stream
  BY DEF encoder, vars
<1> QED BY <1>1, <1>2 DEF Headers, NotCopied, Lost, Stop, Goto, MissingKept

LEMMA FinishDoes ==
  ASSUME ReaderSound, Finish
  PROVE  /\ pc = "finish" /\ pc' \in {"done", "failed"}
         /\ EncodeFinish(-1) \/ FinishRejected(-1)
         /\ UNCHANGED <<reader, options, last, walk>>
         /\ MissingKept
<1>1. EncodeFinish(-1) => \E p : stream' = Append(stream, p)
  BY DEF EncodeFinish, Emit
<1>2. Sent(-1) => last' = last
  BY DEF Sent, ReaderSound, ConvertTypeOK, Times
<1> QED BY <1>1, <1>2 DEF Finish, NotCopied, NotWritten, Lost, Stop, Goto, MissingKept

LEMMA WalkRepeatsDoes ==
  ASSUME ReaderSound, WalkRepeats
  PROVE  /\ pc = "walk" /\ walk \in Times /\ walk < start
         /\ UNCHANGED <<reader, options, walk>>
         /\ \/ UNCHANGED encoder /\ repeatT = 0 /\ pc' = "keepalive"
            \/ /\ repeatT \in Thresholds /\ RepeatStep(walk, repeatT)
               /\ pc' \in {"walk", "keepalive", "text"}
         /\ last' = last \/ (last < walk /\ last' = walk)
         /\ MissingKept
<1>1. pc = "walk" /\ walk < start /\ UNCHANGED <<reader, options, walk>>
  BY DEF WalkRepeats, Walking
<1>2. walk \in Times
  BY <1>1, ConstantsAssumption DEF ReaderSound, ConvertTypeOK, Emitting, Times
<1>3. repeatT = 0 \/ repeatT \in Thresholds
  BY DEF ReaderSound
<1>4. repeatT > 0 => repeatT \in Thresholds
  BY <1>3
<1> QED BY <1>1, <1>2, <1>4
        DEF WalkRepeats, RepeatStep, Sent, NotCopied, NotWritten, Lost, Goto,
            MissingKept, EncodeRepeat
LEMMA WalkKeepaliveDoes ==
  ASSUME ReaderSound, WalkKeepalive
  PROVE  /\ pc = "keepalive" /\ walk \in Times /\ walk < start
         /\ UNCHANGED <<reader, options>>
         /\ \/ UNCHANGED encoder /\ pc' = "walk"
            \/ KeepaliveStep(walk) /\ pc' \in {"walk", "text"}
         /\ walk' = IF pc' = "walk" THEN walk + Step ELSE walk
         /\ last' = last \/ (last < walk /\ last' = walk)
         /\ MissingKept
<1>1. /\ pc = "keepalive" /\ UNCHANGED <<reader, options>>
      /\ walk' = IF pc' = "walk" THEN walk + Step ELSE walk
  BY DEF WalkKeepalive, Stride
<1>2. walk \in Times /\ walk < start
  BY <1>1, ConstantsAssumption DEF ReaderSound, ConvertTypeOK, Emitting, Times
<1>3. \/ UNCHANGED <<encoder, last, missing>> /\ pc' = "walk"
      \/ /\ EncodeKeepalive(walk)
         /\ \/ Sent(walk) /\ pc' = "walk" /\ missing' = missing
            \/ (NotCopied \/ NotWritten(walk)) /\ pc' = "text"
      \/ /\ KeepaliveStep(walk) /\ pc' = "text"
         /\ UNCHANGED <<last, missing>>
  BY DEF WalkKeepalive, KeepaliveStep, Goto
<1>4. \A p : Emit(p) => stream' = Append(stream, p)
  BY DEF Emit
<1>5. EncodeKeepalive(walk) => KeepaliveStep(walk) /\ \E p : stream' = Append(stream, p)
  BY <1>4 DEF EncodeKeepalive, KeepaliveStep
<1> QED BY <1>1, <1>2, <1>3, <1>5 DEF Sent, NotCopied, NotWritten, Lost, MissingKept

LEMMA TextDoes ==
  ASSUME ReaderSound, Text
  PROVE  /\ pc = "text" /\ start \in Times /\ end \in Times /\ start <= end
         /\ EncodeText(start, end)
         /\ UNCHANGED <<options, walk>>
         /\ MissingKept
         /\ \/ /\ last' = IF start > last THEN start ELSE last
               /\ NextEvent
               /\ missing' = missing
            \/ /\ pc' = "failed" /\ UNCHANGED reader
               /\ last' = last \/ last' = IF start > last THEN start ELSE last
<1>1. /\ pc = "text" /\ EncodeText(start, end) /\ UNCHANGED <<options, walk>>
  BY DEF Text
<1>2. start \in Times /\ end \in Times
  BY <1>1 DEF ReaderSound, Emitting
<1>3. start <= end
  BY <1>1 DEF EncodeText, TextCall
<1>4. \E p : stream' = Append(stream, p)
  BY <1>1 DEF EncodeText, Emit
<1> QED BY <1>1, <1>2, <1>3, <1>4
        DEF Text, Sent, NotCopied, NotWritten, Lost, MissingKept, Stop, Goto

LEMMA TextFailsDoes ==
  ASSUME ReaderSound, TextFails
  PROVE  /\ start \in Times /\ end \in Times /\ pc = "text"
         /\ UNCHANGED encoder \/ TextStep(start, end)
         /\ pc' = "failed" /\ UNCHANGED <<reader, options, last, walk, missing>>
BY DEF TextFails, ReaderSound, Emitting, TextStep, Stop, Goto

(* Every step leaves the encoder alone, or is a call of it.                  *)
LEMMA ConverterCalls ==
  ASSUME ReaderSound, [ConvertNext]_convertVars
  PROVE  [Next]_vars /\ TypeOK' /\ Counted
<1> SUFFICES [Next]_vars
  BY TypeStep, PacketsCount DEF ReaderSound, ConvertTypeOK
<1>1. CASE Headers
  BY <1>1 DEF Headers, Next, encoder
<1>2. CASE ReadSrt \/ ReadLrc \/ EndOfFile \/ WalkEnds
  BY <1>2 DEF ReadSrt, ReadLrc, EndOfFile, WalkEnds, encoder
<1>3. CASE WalkRepeats
  BY <1>3, WalkRepeatsDoes DEF Next, encoder
<1>4. CASE WalkKeepalive
  BY <1>4, WalkKeepaliveDoes DEF Next, encoder
<1>5. CASE Text
  BY <1>5, TextDoes DEF Next, TextStep
<1>6. CASE TextFails
  BY <1>6, TextFailsDoes DEF Next, encoder
<1>7. CASE Finish
  BY <1>7 DEF Finish, Next, FinishStep
<1>8. CASE UNCHANGED convertVars
  BY <1>8 DEF convertVars, encoder
<1> QED BY <1>1, <1>2, <1>3, <1>4, <1>5, <1>6, <1>7, <1>8 DEF ConvertNext

(* The types of the variables, and what has been gathered, are kept.         *)
LEMMA ReaderKept ==
  ASSUME ReaderSound, [ConvertNext]_convertVars
  PROVE  ReaderSound'
<1>1. TypeOK' /\ Counted
  BY ConverterCalls
<1>2. /\ Times \subseteq Nat /\ 0 \in Times /\ MaxTime \in Nat /\ NumHeaders \in Nat
      /\ packetno \in Int /\ packetno' \in Int /\ Len(stream) \in Nat
      /\ Len(stream') \in Nat /\ Step \in Nat
  <2>1. Step \in Nat
    BY ConvertAssumption DEF ReaderSound, Step
  <2> QED BY <1>1, <2>1, ConstantsAssumption DEF Times, ReaderSound, ConvertTypeOK, TypeOK
<1>3. /\ missing \subseteq 1 .. Len(stream')
      /\ packetno >= NumHeaders - 1 => packetno' >= NumHeaders - 1
  <2>1. 1 .. Len(stream) \subseteq 1 .. Len(stream')
    BY <1>1, <1>2 DEF Counted
  <2> QED BY <1>1, <1>2, <2>1 DEF Counted, ReaderSound, ConvertTypeOK
<1>4. MissingKept => missing' \subseteq 1 .. Len(stream')
  <2>1. ASSUME NEW p, stream' = Append(stream, p)
        PROVE  Len(stream) + 1 \in 1 .. Len(stream')
    BY <1>2, <2>1 DEF ReaderSound, ConvertTypeOK, TypeOK
  <2> QED BY <1>3, <2>1 DEF MissingKept
<1>5. UNCHANGED options /\ Step' = Step
  <2>1. UNCHANGED options
    BY HeadersDoes, WalkRepeatsDoes, WalkKeepaliveDoes, TextDoes, TextFailsDoes,
       FinishDoes
    DEF ConvertNext, ReadSrt, ReadLrc, EndOfFile, WalkEnds, convertVars, options
  <2> QED BY <2>1 DEF options, Step
<1>6. CASE Headers
  <2>1. /\ pc' \in {"headers", "read", "failed"}
        /\ UNCHANGED <<reader, last, walk>> /\ MissingKept
    BY <1>6, HeadersDoes
  <2>2. pc' = "read" => packetno' >= NumHeaders - 1
    <3>1. packetno \in Int /\ NumHeaders \in Nat
      BY <1>2, ConstantsAssumption DEF ReaderSound, ConvertTypeOK, TypeOK
    <3> QED BY <1>6, <3>1, HeadersDoes DEF encoder, vars
  <2> QED BY <1>1, <1>3, <1>4, <1>5, <2>1, <2>2
          DEF ReaderSound, ConvertTypeOK, Emitting, reader, options, Times
<1>7. CASE ReadSrt
  <2>1. PICK l \in SrtLines : Read(l) /\ (ReadId(l) \/ ReadTiming(l) \/ ReadText(l))
    BY <1>7 DEF ReadSrt
  <2>2. /\ l.t0 \in Times /\ l.t1 \in Times /\ l \in AllLines
        /\ l.kind \in {"blank", "id", "text", "timing"}
    BY LineTypes DEF AllLines
  <2>3. file' \in Seq(SrtLines \cup LrcLines)
    BY <2>1, <2>2, LineRead DEF ReaderSound, AllLines
  <2>4. /\ format = "srt" /\ pc = "read" /\ walk' = last
        /\ UNCHANGED <<encoder, options, words, last, missing>>
    BY <1>7 DEF ReadSrt
  <2>5. packetno' = packetno /\ packetno >= NumHeaders - 1 /\ missing' = missing
    BY <2>4 DEF encoder, vars, ReaderSound
  <2>6. CASE ReadId(l)
    BY <1>1, <1>3, <1>5, <2>2, <2>3, <2>4, <2>5, <2>6
    DEF ReadId, Stop, Goto, ReaderSound, ConvertTypeOK, Emitting, options
  <2>7. CASE ReadTiming(l)
    BY <1>1, <1>3, <1>5, <2>2, <2>3, <2>4, <2>5, <2>7
    DEF ReadTiming, Stop, Goto, ReaderSound, ConvertTypeOK, Emitting, options
  <2>8. CASE ReadText(l)
    BY <1>1, <1>3, <1>5, <2>2, <2>3, <2>4, <2>5, <2>8
    DEF ReadText, EmitEvent, Goto, ReaderSound, ConvertTypeOK, Emitting, options
  <2> QED BY <2>1, <2>6, <2>7, <2>8
<1>8. CASE ReadLrc
  <2>1. PICK l \in LrcLines :
          /\ Read(l)
          /\ words' = Words(l)
          /\ \/ l.kind = "blank" /\ Goto("read") /\ UNCHANGED <<start, end, text>>
             \/ /\ l.kind = "text" /\ (Stop \/ Goto("read"))
                /\ UNCHANGED <<start, end, text>>
             \/ /\ l.kind = "lyric" /\ text
                /\ end' = l.t0 /\ EmitEvent
                /\ UNCHANGED <<start, text>>
             \/ /\ l.kind = "lyric" /\ ~text
                /\ start' = l.t0 /\ text' = Words(l) /\ Goto("read")
                /\ UNCHANGED end
    BY <1>8 DEF ReadLrc
  <2>2. l.t0 \in Times /\ l \in AllLines /\ Words(l) \in BOOLEAN
    BY LineTypes DEF AllLines, Words
  <2>3. file' \in Seq(SrtLines \cup LrcLines)
    BY <2>1, <2>2, LineRead DEF ReaderSound, AllLines
  <2>4. /\ format = "lrc" /\ pc = "read" /\ walk' = last
        /\ UNCHANGED <<encoder, options, need, last, missing>>
    BY <1>8 DEF ReadLrc
  <2>5. packetno' = packetno /\ packetno >= NumHeaders - 1 /\ missing' = missing
    BY <2>4 DEF encoder, vars, ReaderSound
  <2> QED BY <1>1, <1>3, <1>5, <2>1, <2>2, <2>3, <2>4, <2>5
          DEF Stop, EmitEvent, Goto, ReaderSound, ConvertTypeOK, Emitting, options
<1>9. CASE EndOfFile
  <2>1. packetno' = packetno /\ packetno >= NumHeaders - 1 /\ missing' = missing
    BY <1>9 DEF EndOfFile, encoder, vars, ReaderSound
  <2> QED BY <1>1, <1>3, <1>5, <1>9, <2>1
          DEF EndOfFile, Goto, ReaderSound, ConvertTypeOK, Emitting, options
<1>10. CASE WalkEnds
  BY <1>1, <1>3, <1>5, <1>10
  DEF WalkEnds, Goto, ReaderSound, ConvertTypeOK, Emitting, options, reader
<1>11. CASE WalkRepeats
  BY <1>1, <1>3, <1>4, <1>5, <1>11, WalkRepeatsDoes
  DEF ReaderSound, ConvertTypeOK, Emitting, options, reader
<1>12. CASE WalkKeepalive
  <2>1. walk \in Times /\ walk < start /\ start \in Times
    BY <1>12, WalkKeepaliveDoes DEF ReaderSound, Emitting
  <2>2. walk + Step \in 0 .. MaxTime + Step - 1
    BY <1>2, <2>1 DEF Times
  <2> QED BY <1>1, <1>3, <1>4, <1>5, <1>12, <2>1, <2>2, WalkKeepaliveDoes
          DEF ReaderSound, ConvertTypeOK, Emitting, options, reader
<1>13. CASE Text
  <2>1. CASE NextEvent
    BY <1>1, <1>3, <1>4, <1>5, <1>13, <2>1, TextDoes
    DEF NextEvent, Goto, ReaderSound, ConvertTypeOK, Emitting, options
  <2>2. CASE /\ pc' = "failed" /\ UNCHANGED reader
             /\ last' = last \/ last' = IF start > last THEN start ELSE last
    BY <1>1, <1>3, <1>4, <1>5, <1>13, <2>2, TextDoes
    DEF ReaderSound, ConvertTypeOK, Emitting, options, reader
  <2> QED BY <1>13, <2>1, <2>2, TextDoes
<1>14. CASE TextFails
  BY <1>1, <1>3, <1>5, <1>14, TextFailsDoes
  DEF ReaderSound, ConvertTypeOK, Emitting, options, reader
<1>15. CASE Finish
  BY <1>1, <1>3, <1>4, <1>5, <1>15, FinishDoes
  DEF ReaderSound, ConvertTypeOK, Emitting, options, reader
<1>16. CASE UNCHANGED convertVars
  BY <1>1, <1>3, <1>5, <1>16
  DEF convertVars, ReaderSound, ConvertTypeOK, Emitting, options, reader
<1> QED BY <1>6, <1>7, <1>8, <1>9, <1>10, <1>11, <1>12, <1>13, <1>14, <1>15, <1>16
        DEF ConvertNext

LEMMA ReaderInit == ConvertInit => ReaderSound
<1> SUFFICES ASSUME ConvertInit PROVE ReaderSound
  OBVIOUS
<1>1. TypeOK
  BY TypeInit DEF ConvertInit
<1>2. 0 \in Times /\ Times \subseteq Nat
  BY ConstantsAssumption DEF Times
<1>3. keepT \in Nat
  BY ConvertAssumption DEF ConvertInit
<1>4. file \in Seq(SrtLines \cup LrcLines)
  BY DEF ConvertInit
<1>5. walk \in Times \cup 0 .. MaxTime + Step - 1 /\ missing = {} /\ last \in Times
  BY <1>2 DEF ConvertInit
<1> QED BY <1>1, <1>2, <1>3, <1>4, <1>5
        DEF ConvertInit, ReaderSound, ConvertTypeOK, Emitting

-----------------------------------------------------------------------------
(* The converter goes forward in time.                                       *)

LEMMA ReachedEarlier ==
  ASSUME file \in Seq(AllLines), NEW s \in Int, NEW t \in Int, Reached(s), t <= s
  PROVE  Reached(t)
<1>1. CASE s <= 0
  BY <1>1 DEF Reached
<1>2. CASE \E i \in 1 .. Len(file) : file[i].kind \in Timed /\ s <= file[i].t0
  <2>1. PICK i \in 1 .. Len(file) : file[i].kind \in Timed /\ s <= file[i].t0
    BY <1>2
  <2>2. file[i] \in AllLines
    OBVIOUS
  <2>3. file[i].t0 \in Nat
    BY <2>2, LineTypes, ConstantsAssumption DEF AllLines, Times
  <2>4. t <= file[i].t0
    BY <2>1, <2>3
  <2> QED BY <2>1, <2>4 DEF Reached
<1> QED BY <1>1, <1>2 DEF Reached

LEMMA ForwardInit == ConvertInit => ForwardInvariant
<1> SUFFICES ASSUME ConvertInit PROVE ForwardInvariant
  OBVIOUS
<1>1. clock = 0
  BY DEF ConvertInit, Init
<1> QED BY <1>1, ReaderInit
        DEF ConvertInit, ForwardInvariant, GoesForward, Reached, Emitting

(* What a step leaves, given what the file it leaves has reached.            *)
Forwarded ==
  /\ ReachedNow(start') /\ ReachedNow(last')
  /\ pc' \in {"headers", "read"} => clock' <= last'
  /\ Emitting' => clock' <= start' /\ last' <= start'
  /\ pc' \in {"walk", "keepalive"} => clock' <= walk'
  /\ format' = "srt" /\ need' = "text" => last' <= start'
  /\ format' = "lrc" /\ (text' \/ Emitting') => last' <= start'
  /\ format' = "lrc" /\ Emitting' => ReachedNow(end')

LEMMA ForwardKept ==
  ASSUME ForwardInvariant, [ConvertNext]_convertVars
  PROVE  ForwardInvariant'
<1>1. ReaderSound /\ ReaderSound'
  BY ReaderKept DEF ForwardInvariant
<1>2. SUFFICES ASSUME InOrder(file') PROVE Forwarded
  BY <1>1 DEF ForwardInvariant, GoesForward, Forwarded, Reached, ReachedNow
<1>3. /\ start \in Int /\ end \in Int /\ last \in Int /\ walk \in Int /\ clock \in Int
      /\ Step \in Nat /\ last \in Times /\ clock \in Times
      /\ file \in Seq(AllLines)
  <2>1. Times \subseteq Nat /\ MaxTime \in Nat
    BY ConstantsAssumption DEF Times
  <2>2. Step \in Nat
    BY <1>1, ConvertAssumption DEF ReaderSound, Step
  <2> QED BY <1>1, <2>1, <2>2 DEF ReaderSound, ConvertTypeOK, TypeOK, AllLines
<1> DEFINE SoFarInOrder ==
      /\ Reached(start) /\ Reached(last)
      /\ pc \in {"headers", "read"} => clock <= last
      /\ Emitting => clock <= start /\ last <= start
      /\ pc \in {"walk", "keepalive"} => clock <= walk
      /\ format = "srt" /\ need = "text" => last <= start
      /\ format = "lrc" /\ (text \/ Emitting) => last <= start
      /\ format = "lrc" /\ Emitting => Reached(end)
<1>4. InOrder(file) => SoFarInOrder
  BY DEF ForwardInvariant, GoesForward
<1>5. ASSUME file' = file
      PROVE  SoFarInOrder /\ \A t : ReachedNow(t) <=> Reached(t)
  BY <1>2, <1>4, <1>5, SameFile
<1>6. CASE Headers
  <2>1. UNCHANGED <<file, start, end, last, need, text, format, clock>>
    BY <1>6, HeadersDoes, CallsTick DEF reader, options, encoder, vars
  <2>2. pc = "headers" /\ pc' \in {"headers", "read", "failed"}
    BY <1>6, HeadersDoes
  <2> QED BY <1>5, <2>1, <2>2 DEF Forwarded, Emitting
<1>7. CASE ReadSrt
  <2>1. PICK l \in SrtLines : Read(l) /\ (ReadId(l) \/ ReadTiming(l) \/ ReadText(l))
    BY <1>7 DEF ReadSrt
  <2>2. l \in AllLines /\ l.t0 \in Times
    BY LineTypes DEF AllLines
  <2>3. /\ format = "srt" /\ format' = "srt" /\ pc = "read" /\ walk' = last
        /\ UNCHANGED <<clock, last>>
    BY <1>7 DEF ReadSrt, options, encoder, vars
  <2>4. /\ SoFarInOrder /\ \A t : Reached(t) => ReachedNow(t)
        /\ l.kind \in Timed =>
             ReachedNow(l.t0) /\ \A t \in Times \cup {-1} : Reached(t) => t <= l.t0
    BY <1>2, <1>3, <1>4, <2>1, <2>2, LineRead
  <2>5. CASE ReadId(l)
    BY <2>3, <2>4, <2>5 DEF ReadId, Stop, Goto, Forwarded, Emitting
  <2>6. CASE ReadTiming(l)
    BY <1>3, <2>3, <2>4, <2>6 DEF ReadTiming, Stop, Goto, Forwarded, Emitting, Timed
  <2>7. CASE ReadText(l)
    BY <1>3, <2>3, <2>4, <2>7 DEF ReadText, EmitEvent, Goto, Forwarded, Emitting
  <2> QED BY <2>1, <2>5, <2>6, <2>7
<1>8. CASE ReadLrc
  <2>1. PICK l \in LrcLines :
          /\ Read(l)
          /\ \/ l.kind = "blank" /\ Goto("read") /\ UNCHANGED <<start, end, text>>
             \/ /\ l.kind = "text" /\ (Stop \/ Goto("read"))
                /\ UNCHANGED <<start, end, text>>
             \/ /\ l.kind = "lyric" /\ text
                /\ end' = l.t0 /\ EmitEvent
                /\ UNCHANGED <<start, text>>
             \/ /\ l.kind = "lyric" /\ ~text
                /\ start' = l.t0 /\ text' = Words(l) /\ Goto("read")
                /\ UNCHANGED end
    BY <1>8 DEF ReadLrc
  <2>2. l \in AllLines /\ l.t0 \in Times
    BY LineTypes DEF AllLines
  <2>3. /\ format = "lrc" /\ format' = "lrc" /\ pc = "read" /\ walk' = last
        /\ UNCHANGED <<clock, last, need>>
    BY <1>8 DEF ReadLrc, options, encoder, vars
  <2>4. /\ SoFarInOrder /\ \A t : Reached(t) => ReachedNow(t)
        /\ l.kind \in Timed =>
             ReachedNow(l.t0) /\ \A t \in Times \cup {-1} : Reached(t) => t <= l.t0
    BY <1>2, <1>3, <1>4, <2>1, <2>2, LineRead
  <2> QED BY <1>3, <2>1, <2>3, <2>4
          DEF Stop, EmitEvent, Goto, Forwarded, Emitting, Timed
<1>9. CASE EndOfFile
  <2>1. UNCHANGED <<file, start, end, text, last, format, clock>>
    BY <1>9 DEF EndOfFile, options, encoder, vars
  <2> QED BY <1>3, <1>5, <1>9, <2>1 DEF EndOfFile, Goto, Forwarded, Emitting
<1>10. CASE WalkEnds
  <2>1. UNCHANGED <<file, start, end, text, last, format, clock, need>>
    BY <1>10 DEF WalkEnds, reader, options, encoder, vars
  <2> QED BY <1>5, <1>10, <2>1 DEF WalkEnds, Goto, Forwarded, Emitting
<1>11. CASE WalkRepeats
  <2>1. /\ pc = "walk" /\ walk < start /\ pc' \in {"walk", "keepalive", "text"}
        /\ UNCHANGED <<file, start, end, text, need, format, walk>>
        /\ clock' = clock \/ Ticked(walk)
        /\ last' = last \/ last' = walk
    BY <1>1, <1>11, WalkRepeatsDoes, CallsTick DEF reader, options, encoder, vars
  <2>2. SoFarInOrder /\ Reached(walk)
    BY <1>3, <1>5, <2>1, ReachedEarlier
  <2>3. clock' <= walk /\ last' <= start /\ ReachedNow(last') /\ ReachedNow(start')
    BY <1>3, <1>5, <2>1, <2>2 DEF Ticked, Emitting
  <2> QED BY <1>3, <1>5, <2>1, <2>2, <2>3 DEF Forwarded, Emitting, Ticked
<1>12. CASE WalkKeepalive
  <2>1. /\ pc = "keepalive" /\ walk < start /\ pc' \in {"walk", "text"}
        /\ UNCHANGED <<file, start, end, text, need, format>>
        /\ clock' = clock \/ Ticked(walk)
        /\ last' = last \/ last' = walk
        /\ walk' = walk \/ walk' = walk + Step
    BY <1>1, <1>12, WalkKeepaliveDoes, CallsTick DEF reader, options, encoder, vars
  <2>2. SoFarInOrder /\ Reached(walk)
    BY <1>3, <1>5, <2>1, ReachedEarlier
  <2>3. /\ clock' <= walk /\ walk <= walk' /\ last' <= start
        /\ ReachedNow(last') /\ ReachedNow(start')
    BY <1>3, <1>5, <2>1, <2>2 DEF Ticked, Emitting
  <2> QED BY <1>3, <1>5, <2>1, <2>2, <2>3 DEF Forwarded, Emitting, Ticked
<1>13. CASE Text
  <2>1. /\ pc = "text" /\ start <= end /\ UNCHANGED format
        /\ Ticked(start)
    BY <1>1, <1>13, TextDoes, CallsTick DEF TextStep, options
  <2>2. CASE /\ last' = IF start > last THEN start ELSE last
             /\ NextEvent
    <3>1. SoFarInOrder /\ UNCHANGED <<file, need>>
      BY <1>5, <2>2 DEF NextEvent
    <3>2. last <= start /\ clock <= start
      BY <2>1, <3>1 DEF Emitting
    <3>3. last' = start /\ clock' = start
      BY <1>3, <2>1, <2>2, <3>2 DEF Ticked
    <3>4. pc' \in {"finish", "read"}
      BY <2>2 DEF NextEvent, Goto
    <3>5. CASE format = "lrc"
      BY <1>3, <1>5, <2>1, <2>2, <3>1, <3>3, <3>4, <3>5 DEF NextEvent, Forwarded, Emitting
    <3>6. CASE format # "lrc"
      BY <1>3, <1>5, <2>1, <2>2, <3>1, <3>3, <3>4, <3>6 DEF NextEvent, Forwarded, Emitting
    <3> QED BY <3>5, <3>6
  <2>3. CASE /\ pc' = "failed" /\ UNCHANGED reader
             /\ last' = last \/ last' = IF start > last THEN start ELSE last
    BY <1>3, <1>5, <2>1, <2>3 DEF reader, Forwarded, Emitting
  <2> QED BY <1>1, <1>13, <2>2, <2>3, TextDoes
<1>14. CASE TextFails
  <2>1. pc = "text" /\ pc' = "failed" /\ UNCHANGED <<reader, options, last>>
    BY <1>1, <1>14, TextFailsDoes
  <2> QED BY <1>5, <2>1 DEF reader, options, Forwarded, Emitting
<1>15. CASE Finish
  <2>1. pc' \in {"done", "failed"} /\ UNCHANGED <<reader, options, last>>
    BY <1>1, <1>15, FinishDoes
  <2> QED BY <1>5, <2>1 DEF reader, options, Forwarded, Emitting
<1>16. CASE UNCHANGED convertVars
  <2>1. UNCHANGED <<reader, options, last, walk, pc, clock>>
    BY <1>16 DEF convertVars, encoder, vars
  <2> QED BY <1>5, <2>1 DEF reader, options, Forwarded, Emitting
<1> QED BY <1>6, <1>7, <1>8, <1>9, <1>10, <1>11, <1>12, <1>13, <1>14, <1>15, <1>16
        DEF ConvertNext

(* Each call is one of a client that goes forward, as long as the file does. *)
LEMMA CallsAreOrderly ==
  ASSUME ForwardInvariant, [ConvertNext]_convertVars, InOrder(file')
  PROVE  [Orderly!Next]_encoder
<1>1. ReaderSound /\ Orderly!Times = Times
  BY OrderlySets DEF ForwardInvariant
<1>2. ASSUME file' = file
      PROVE  GoesForward /\ InOrder(file)
  BY <1>2, SameFile DEF ForwardInvariant
<1>3. pc \notin {"headers", "failed"} => packetno >= NumHeaders - 1
  BY <1>1 DEF ReaderSound
<1>4. CASE Headers
  BY <1>4, HeadersDoes, OrderlyHeaders DEF Orderly!Next
<1>5. CASE ReadSrt \/ ReadLrc \/ EndOfFile \/ WalkEnds
  BY <1>5 DEF ReadSrt, ReadLrc, EndOfFile, WalkEnds
<1>6. CASE WalkRepeats
  <2>1. /\ pc = "walk" /\ walk \in Times /\ file' = file
        /\ UNCHANGED encoder \/ (repeatT \in Thresholds /\ RepeatStep(walk, repeatT))
    BY <1>1, <1>6, WalkRepeatsDoes DEF reader
  <2>2. Prompt(walk)
    BY <1>2, <1>3, <2>1 DEF GoesForward, Prompt
  <2>3. RepeatStep(walk, repeatT) => Orderly!RepeatStep(walk, repeatT)
    BY <2>2, OrderlyRepeat
  <2> QED BY <1>1, <2>1, <2>3 DEF Orderly!Next
<1>7. CASE WalkKeepalive
  <2>1. /\ pc = "keepalive" /\ walk \in Times /\ file' = file
        /\ \/ UNCHANGED encoder
           \/ EncodeKeepalive(walk) \/ KeepaliveRejected(walk) \/ KeepaliveNoSlot(walk)
    BY <1>1, <1>7, WalkKeepaliveDoes DEF WalkKeepalive, reader
  <2>2. Prompt(walk)
    BY <1>2, <1>3, <2>1 DEF GoesForward, Prompt
  <2>3. UNCHANGED encoder \/ Orderly!KeepaliveStep(walk)
    BY <2>1, <2>2, OrderlyKeepalive DEF Orderly!KeepaliveStep
  <2> QED BY <1>1, <2>1, <2>3 DEF Orderly!Next
<1>8. CASE Text
  <2>1. /\ pc = "text" /\ start \in Times /\ end \in Times /\ file' = file
        /\ EncodeText(start, end)
    BY <1>1, <1>8, TextDoes DEF reader, NextEvent
  <2>2. Prompt(start)
    BY <1>2, <1>3, <2>1 DEF GoesForward, Prompt, Emitting
  <2>3. Orderly!TextStep(start, end)
    BY <2>1, <2>2, OrderlyText DEF Orderly!TextStep
  <2> QED BY <1>1, <2>1, <2>3 DEF Orderly!Next
<1>9. CASE TextFails
  <2>1. /\ pc = "text" /\ start \in Times /\ end \in Times /\ file' = file
        /\ \/ UNCHANGED encoder
           \/ EncodeTextRejected(start, end) \/ EncodeTextNoSlot(start, end)
           \/ EncodeTextNotSaved(start, end)
    BY <1>1, <1>9, TextFailsDoes DEF TextFails, reader
  <2>2. Prompt(start)
    BY <1>2, <1>3, <2>1 DEF GoesForward, Prompt, Emitting
  <2>3. UNCHANGED encoder \/ Orderly!TextStep(start, end)
    BY <2>1, <2>2, OrderlyText DEF Orderly!TextStep
  <2> QED BY <1>1, <2>1, <2>3 DEF Orderly!Next
<1>10. CASE Finish
  <2>1. pc = "finish" /\ (EncodeFinish(-1) \/ FinishRejected(-1))
    BY <1>1, <1>10, FinishDoes
  <2>2. Orderly!FinishStep(-1)
    BY <1>3, <2>1, OrderlyFinish DEF Orderly!FinishStep
  <2> QED BY <1>1, <2>2 DEF Orderly!Next
<1>11. CASE UNCHANGED convertVars
  BY <1>11 DEF convertVars
<1> QED BY <1>4, <1>5, <1>6, <1>7, <1>8, <1>9, <1>10, <1>11 DEF ConvertNext

(* A file whose times do not go back makes the converter the client that the *)
(* encoder's documentation asks for: the headers come first, and no call of  *)
(* update_stream_time, nor of the event after it, is for a time that is past *)
(* (kateenc.c:252), whatever the thresholds and whatever fails.              *)
THEOREM ConverterKeepsPromises == ConvertSpec => KeepsPromises
<1>1. ConvertInit => ForwardInvariant
  BY ForwardInit
<1>2. ForwardInvariant /\ [ConvertNext]_convertVars => ForwardInvariant'
  BY ForwardKept
<1>3. ForwardInvariant /\ [ConvertNext]_convertVars
        => (InOrder(file') => [Orderly!Next]_encoder)
  BY CallsAreOrderly
<1> QED BY <1>1, <1>2, <1>3, PTL DEF ConvertSpec, KeepsPromises

-----------------------------------------------------------------------------
(* The cadence of the stream.                                                *)

(* The granule_shift of a stream is never set: at 32 bits of offset          *)
(* (kate_info.c:39), every event fits.                                       *)
LongShift == MaxTime < OffsetRange

LEMMA ConverterTypes ==
  ASSUME ReaderSound
  PROVE  /\ TypeOK /\ Times \subseteq Nat /\ Step \in Nat
         /\ repeatT \in Nat /\ keepT \in Nat /\ failures \in Nat
         /\ (repeatT > 0 \/ keepT > 0) => Step > 0
         /\ last \in Nat /\ clock \in Nat /\ walk \in Nat /\ start \in Int
         /\ repeatT > 0 => repeatT \in Thresholds
<1>1. repeatT \in Nat /\ keepT \in Nat
  BY ConvertAssumption DEF ReaderSound
<1>2. Step \in Nat /\ ((repeatT > 0 \/ keepT > 0) => Step > 0)
  BY <1>1 DEF Step
<1>3. TypeOK /\ Times \subseteq Nat /\ MaxTime \in Nat
  BY ConstantsAssumption DEF ReaderSound, ConvertTypeOK, Times
<1>4. last \in Nat /\ clock \in Nat /\ failures \in Nat
  BY <1>3 DEF ReaderSound, ConvertTypeOK, TypeOK
<1>5. walk \in Nat /\ start \in Int
  BY <1>2, <1>3 DEF ReaderSound, ConvertTypeOK
<1>6. repeatT > 0 => repeatT \in Thresholds
  BY <1>1 DEF ReaderSound
<1> QED BY <1>1, <1>2, <1>3, <1>4, <1>5, <1>6

LEMMA FailuresCount ==
  ASSUME TypeOK, [Next]_vars
  PROVE  failures <= failures'
<1>1. failures \in Nat
  BY DEF TypeOK
<1>2. Fail => failures <= failures'
  BY <1>1 DEF Fail
<1>3. failures' = failures => failures <= failures'
  BY <1>1
<1>4. CASE EncodeHeaders \/ EncodeHeadersFails
  BY <1>2, <1>3, <1>4 DEF EncodeHeaders, EncodeHeadersFails
<1>5. CASE \E t0, t1 \in Times : TextStep(t0, t1)
  BY <1>2, <1>3, <1>5
  DEF TextStep, EncodeTextRejected, EncodeTextNoSlot, EncodeTextBadMotion,
      EncodeTextNoPacket, EncodeTextNotSaved, EncodeText
<1>6. CASE \E t \in Times : KeepaliveStep(t)
  BY <1>2, <1>3, <1>6
  DEF KeepaliveStep, KeepaliveRejected, KeepaliveNoSlot, KeepaliveNoPacket,
      EncodeKeepalive
<1>7. CASE \E t \in Times, threshold \in Thresholds : RepeatStep(t, threshold)
  BY <1>2, <1>3, <1>7 DEF RepeatStep, RepeatNothing, RepeatNoMemory, EncodeRepeat
<1>8. CASE \E t \in Times \cup {-1} : FinishStep(t)
  BY <1>2, <1>3, <1>8 DEF FinishStep, FinishRejected, FinishNoPacket, EncodeFinish
<1>9. CASE UNCHANGED vars
  BY <1>3, <1>9 DEF vars
<1> QED BY <1>4, <1>5, <1>6, <1>7, <1>8, <1>9 DEF Next

(* A step leaves in order only what was.                                     *)
LEMMA OrderWas ==
  ASSUME ReaderSound, [ConvertNext]_convertVars, InOrder(file')
  PROVE  InOrder(file)
<1>1. file' = file \/ \E l \in AllLines : Read(l)
  BY HeadersDoes, WalkRepeatsDoes, WalkKeepaliveDoes, TextDoes, TextFailsDoes, FinishDoes
  DEF ConvertNext, ReadSrt, ReadLrc, EndOfFile, WalkEnds, NextEvent, convertVars, reader,
      AllLines
<1>2. file \in Seq(AllLines)
  BY DEF ReaderSound, AllLines
<1> QED BY <1>1, <1>2, LineRead, SameFile

(* The books of the encoder, called by the converter.                        *)
LEMMA BooksHeld ==
  ASSUME LongShift, ForwardInvariant, BooksHold, [ConvertNext]_convertVars
  PROVE  BooksHold'
<1>0. SUFFICES ASSUME InOrder(file'), failures' = 0 \/ "repeat" \notin Faults
      PROVE  InOrderInvariant'
  BY DEF BooksHold
<1>1. ReaderSound /\ TypeOK' /\ [Next]_vars
  BY ConverterCalls DEF ForwardInvariant
<1>2. GoesForward /\ InOrder(file)
  BY <1>0, <1>1, OrderWas DEF ForwardInvariant
<1>3. failures \in Nat /\ failures' \in Nat /\ failures <= failures'
  BY <1>1, FailuresCount DEF TypeOK, ReaderSound, ConvertTypeOK
<1>4. InOrderInvariant
  BY <1>0, <1>2, <1>3 DEF BooksHold
<1>5. CASE UNCHANGED encoder
  BY <1>4, <1>5, InOrderStutter DEF encoder
<1>6. CASE Headers
  BY <1>1, <1>4, <1>5, <1>6, HeadersInOrder, HeadersDoes
<1>7. CASE ReadSrt \/ ReadLrc \/ EndOfFile \/ WalkEnds
  BY <1>5, <1>7 DEF ReadSrt, ReadLrc, EndOfFile, WalkEnds
<1>8. CASE WalkRepeats
  <2>1. /\ pc = "walk" /\ walk \in Times
        /\ UNCHANGED encoder \/ (repeatT \in Thresholds /\ RepeatStep(walk, repeatT))
    BY <1>1, <1>8, WalkRepeatsDoes
  <2>2. clock <= walk
    BY <1>2, <2>1 DEF GoesForward
  <2>3. ~RepeatNoMemory(walk, repeatT)
    BY <1>0, <1>3 DEF RepeatNoMemory, Fail
  <2> QED BY <1>1, <1>4, <1>5, <2>1, <2>2, <2>3, RepeatInOrder
<1>9. CASE WalkKeepalive
  <2>1. /\ pc = "keepalive" /\ walk \in Times
        /\ UNCHANGED encoder \/ KeepaliveStep(walk)
    BY <1>1, <1>9, WalkKeepaliveDoes
  <2>2. clock <= walk
    BY <1>2, <2>1 DEF GoesForward
  <2> QED BY <1>1, <1>4, <1>5, <2>1, <2>2, KeepaliveInOrder
<1>10. CASE Text \/ TextFails
  <2>1. /\ pc = "text" /\ start \in Times /\ end \in Times
        /\ UNCHANGED encoder \/ TextStep(start, end)
    BY <1>1, <1>10, TextDoes, TextFailsDoes DEF TextStep
  <2>2. clock <= start
    BY <1>2, <2>1 DEF GoesForward, Emitting
  <2>3. end <= start + OffsetRange
    BY <2>1, ConstantsAssumption DEF LongShift, Times
  <2> QED BY <1>1, <1>4, <1>5, <2>1, <2>2, <2>3, TextInOrder
<1>11. CASE Finish
  <2>1. FinishStep(-1)
    BY <1>1, <1>11, FinishDoes DEF FinishStep
  <2> QED BY <1>1, <1>4, <2>1, FinishInOrder
<1>12. CASE UNCHANGED convertVars
  BY <1>5, <1>12 DEF convertVars
<1> QED BY <1>6, <1>7, <1>8, <1>9, <1>10, <1>11, <1>12 DEF ConvertNext

(* However the conversion went, up to the first repeat that could not be     *)
(* allocated: a player that seeks in the stream meets every event.           *)
THEOREM ConversionsAreSeekable ==
  ASSUME LongShift
  PROVE  ConvertSpec =>
           [](InOrder(file) /\ (failures = 0 \/ "repeat" \notin Faults) => SeekCovers)
<1>1. ConvertInit => ForwardInvariant /\ BooksHold
  BY ForwardInit, InOrderInit DEF ConvertInit, BooksHold
<1>2. ForwardInvariant /\ BooksHold /\ [ConvertNext]_convertVars
        => ForwardInvariant' /\ BooksHold'
  BY ForwardKept, BooksHeld
<1>3. BooksHold
        => (InOrder(file) /\ (failures = 0 \/ "repeat" \notin Faults) => SeekCovers)
  BY DEF BooksHold, InOrderInvariant
<1> QED BY <1>1, <1>2, <1>3, PTL DEF ConvertSpec

(* A conversion that has gone well so far had gone well before.              *)
LEMMA SmoothWas ==
  ASSUME ReaderSound, [ConvertNext]_convertVars, Smooth'
  PROVE  Smooth /\ failures' = failures /\ missing' = missing
<1>1. TypeOK' /\ [Next]_vars
  BY ConverterCalls
<1>2. failures \in Nat /\ failures' \in Nat /\ failures <= failures'
  BY <1>1, FailuresCount DEF TypeOK, ReaderSound, ConvertTypeOK
<1>3. MissingKept
  BY HeadersDoes, WalkRepeatsDoes, WalkKeepaliveDoes, TextDoes, TextFailsDoes, FinishDoes
  DEF ConvertNext, ReadSrt, ReadLrc, EndOfFile, WalkEnds, convertVars, MissingKept
<1>4. InOrder(file)
  BY OrderWas DEF Smooth
<1> QED BY <1>2, <1>3, <1>4 DEF Smooth, MissingKept

(* An event that has not ended was last sent less than w before t, after the *)
(* step.                                                                     *)
SentNow(t, w) == \A d \in timings' : d.end <= clock' \/ t - d.repeat < w

LEMMA SentKept ==
  ASSUME TypeOK, TypeOK', clock <= clock',
         NEW t \in Int, NEW u \in Int, u <= t, NEW w \in Nat, w > 0,
         SentWithin(t, w),
         \A d \in timings' : d \in timings \/ d.end <= clock' \/ d.repeat = t
  PROVE  SentNow(u, w)
<1>0. clock \in Nat /\ clock' \in Nat /\ Times \subseteq Nat
  BY ConstantsAssumption DEF TypeOK, Times
<1>1. ASSUME NEW d \in timings'
      PROVE  d.end <= clock' \/ u - d.repeat < w
  <2>1. d.end \in Nat /\ d.repeat \in Nat
    BY <1>0 DEF TypeOK, Timing
  <2>2. CASE d \in timings
    <3>1. d.end <= clock \/ t - d.repeat < w
      BY <2>2 DEF SentWithin
    <3> QED BY <1>0, <2>1, <3>1
  <2>3. CASE d.repeat = t
    BY <2>1, <2>3
  <2> QED BY <2>2, <2>3
<1> QED BY <1>1 DEF SentNow

(* The base of a packet at time t is no further than what was due allows.    *)
LEMMA BaseInTime ==
  ASSUME TypeOK, NEW t \in Times, clock <= t, NEW w \in Nat, w > 0, SentWithin(t, w),
         NEW S, \A d \in S : d \in Trimmed(timings, t) \/ d.repeat = t,
         NEW b \in Times, IsBase(S, t, b)
  PROVE  t - b < w
<1>0. t \in Nat /\ clock \in Nat /\ Times \subseteq Nat
  BY ConstantsAssumption DEF TypeOK, Times
<1>1. CASE b = t
  BY <1>0, <1>1
<1>2. CASE b # t
  <2>1. PICK d \in S : d.repeat = b
    BY <1>2 DEF IsBase, IsEarliest
  <2>2. d \in timings /\ t < d.end
    BY <1>2, <2>1 DEF Trimmed
  <2>3. d.end \in Nat
    BY <1>0, <2>2 DEF TypeOK, Timing
  <2>4. ~ (d.end <= clock)
    BY <1>0, <2>2, <2>3
  <2> QED BY <2>1, <2>2, <2>4 DEF SentWithin
<1> QED BY <1>1, <1>2

(* The data packets after a step.                                            *)
DataNow == {i \in 1 .. Len(stream') : stream'[i].op \in DataOps}

SentAt(t) == \E j \in Data : stream[j].t = t
SentAtNow(t) == \E j \in DataNow : stream'[j].t = t

LEMMA DataKept ==
  ASSUME TypeOK, Grown
  PROVE  /\ \A j \in Data : j \in DataNow /\ stream'[j] = stream[j]
         /\ \A t : SentAt(t) => SentAtNow(t)
         /\ \A i \in DataNow :
              \/ i \in Data
              \/ /\ stream' = Append(stream, stream'[i]) /\ stream'[i] \in Packet
                 /\ \A j \in Data : j < i
<1>1. Len(stream) \in Nat /\ \A j \in Data : j \in 1 .. Len(stream)
  BY DEF TypeOK, Data
<1>2. \A j \in Data : j \in DataNow /\ stream'[j] = stream[j]
  BY <1>1, Prefix DEF Data, DataNow
<1>3. ASSUME NEW i \in DataNow, i \notin Data
      PROVE  /\ stream' = Append(stream, stream'[i]) /\ stream'[i] \in Packet
             /\ \A j \in Data : j < i
  <2>1. i \in 1 .. Len(stream') /\ stream'[i].op \in DataOps
    BY DEF DataNow
  <2>2. i \notin 1 .. Len(stream)
    <3>1. i \in 1 .. Len(stream) => stream'[i] = stream[i]
      BY Prefix
    <3> QED BY <1>3, <2>1, <3>1 DEF Data
  <2>3. PICK p \in Packet : stream' = Append(stream, p)
    BY <2>1, <2>2 DEF Grown
  <2>4. i = Len(stream) + 1 /\ stream'[i] = p
    BY <2>1, <2>2, <2>3, Prefix
  <2> QED BY <1>1, <2>3, <2>4
<1> QED BY <1>2, <1>3 DEF SentAt, SentAtNow

(* What a data packet at time t, based at b, must be for the thresholds.     *)
OnCadence(t, b) ==
  /\ repeatT > 0 => t - b < repeatT + Step
  /\ keepT > 0 => t - last < keepT + Step /\ (last = 0 \/ SentAt(last))

LEMMA CadenceOfPackets ==
  ASSUME ReaderSound, SeekDistanceBounded, NoLongSilence, Smooth,
         UNCHANGED options, Grown,
         \A p \in Packet : stream' = Append(stream, p) /\ p.op \in DataOps =>
           OnCadence(p.t, BaseOf(p.gp))
  PROVE  SeekDistanceBounded' /\ NoLongSilence'
<1>1. /\ TypeOK /\ Times \subseteq Nat /\ Step \in Nat /\ last \in Nat
      /\ repeatT \in Nat /\ keepT \in Nat
  BY ConverterTypes
<1>2. repeatT' = repeatT /\ keepT' = keepT /\ Step' = Step
  BY DEF options, Step
<1>3. ASSUME repeatT > 0, NEW i \in DataNow
      PROVE  stream'[i].t - BaseOf(stream'[i].gp) < repeatT + Step
  <2>1. CASE i \in Data
    <3>1. stream'[i] = stream[i]
      BY <1>1, <2>1, DataKept
    <3> QED BY <1>3, <2>1, <3>1 DEF SeekDistanceBounded
  <2>2. CASE i \notin Data
    BY <1>1, <1>3, <2>2, DataKept DEF OnCadence, DataNow
  <2> QED BY <2>1, <2>2
<1>4. ASSUME keepT > 0, NEW i \in DataNow
      PROVE  \/ stream'[i].t < keepT + Step
             \/ \E j \in DataNow : j < i /\ stream'[i].t - stream'[j].t < keepT + Step
  <2>1. CASE i \in Data
    <3>1. stream'[i] = stream[i]
      BY <1>1, <2>1, DataKept
    <3>2. \/ stream[i].t < keepT + Step
          \/ \E j \in Data : j < i /\ stream[i].t - stream[j].t < keepT + Step
      BY <1>4, <2>1 DEF NoLongSilence
    <3> QED BY <1>1, <3>1, <3>2, DataKept
  <2>2. CASE i \notin Data
    <3>1. /\ stream'[i] \in Packet /\ OnCadence(stream'[i].t, BaseOf(stream'[i].gp))
          /\ \A j \in Data : j < i
      BY <1>1, <2>2, DataKept DEF DataNow
    <3>2. stream'[i].t \in Nat
      BY <1>1, <3>1 DEF Packet
    <3>3. CASE last = 0
      BY <1>1, <1>4, <3>1, <3>2, <3>3 DEF OnCadence
    <3>4. CASE SentAt(last)
      <4>1. PICK j \in Data : stream[j].t = last
        BY <3>4 DEF SentAt
      <4>2. j \in DataNow /\ stream'[j] = stream[j] /\ j < i
        BY <1>1, <3>1, DataKept
      <4> QED BY <1>4, <3>1, <4>1, <4>2 DEF OnCadence
    <3> QED BY <1>4, <3>1, <3>3, <3>4 DEF OnCadence
  <2> QED BY <2>1, <2>2
<1>5. SeekDistanceBounded'
  BY <1>2, <1>3 DEF SeekDistanceBounded, DataNow, Data, BaseOf
<1>6. NoLongSilence'
  BY <1>2, <1>4 DEF NoLongSilence, DataNow, Data
<1> QED BY <1>5, <1>6

(* What a step leaves, in a conversion that goes well.                       *)
PacedNow ==
  /\ kpb' = Empty
  /\ \A d \in timings' : d.data = "text" \/ d.end <= clock'
  /\ repeatT > 0 =>
       /\ pc' \in {"headers", "read"} => SentNow(last', repeatT + Step)
       /\ pc' = "walk" => SentNow(walk', repeatT + Step)
       /\ pc' = "keepalive" => SentNow(walk', repeatT)
       /\ pc' = "text" => SentNow(start', repeatT + Step)
  /\ keepT > 0 =>
       /\ pc' \in {"walk", "keepalive"} => walk' - last' < keepT + Step
       /\ pc' = "text" => start' - last' < keepT + Step
       /\ last' = 0 \/ SentAtNow(last')

LEMMA PacedIs ==
  ASSUME UNCHANGED options, PacedNow
  PROVE  Paced'
<1>1. repeatT' = repeatT /\ keepT' = keepT /\ Step' = Step
  BY DEF options, Step
<1> QED BY <1>1
        DEF Paced, PacedNow, RepeatsInTime, KeepalivesInTime, SentWithin, SentNow,
            SentAtNow, DataNow, Data

(* The converter at work, with nothing gone wrong.                           *)
Steady ==
  /\ ForwardInvariant /\ InOrderInvariant
  /\ Smooth /\ Paced /\ SeekDistanceBounded /\ NoLongSilence

(* Where the converter is, at a time when it may call the encoder.           *)
LEMMA SteadyWalk ==
  ASSUME Steady
  PROVE  /\ pc \in {"walk", "keepalive"} =>
              /\ clock <= walk
              /\ repeatT > 0 => SentWithin(walk, repeatT + Step)
              /\ keepT > 0 =>
                   walk - last < keepT + Step /\ (last = 0 \/ SentAt(last))
         /\ pc = "text" =>
              /\ clock <= start /\ last <= start
              /\ repeatT > 0 => SentWithin(start, repeatT + Step)
              /\ keepT > 0 =>
                   start - last < keepT + Step /\ (last = 0 \/ SentAt(last))
<1>1. GoesForward /\ InOrder(file) /\ Paced /\ TypeOK /\ ReaderSound
  BY DEF Steady, ForwardInvariant, Smooth, InOrderInvariant
<1>2. Step \in Nat /\ repeatT \in Nat /\ walk \in Nat /\ Times \subseteq Nat
  BY <1>1, ConverterTypes
<1>3. ASSUME repeatT > 0, SentWithin(walk, repeatT)
      PROVE  SentWithin(walk, repeatT + Step)
  <2>1. \A d \in timings : d.repeat \in Nat
    BY <1>1, <1>2 DEF TypeOK, Timing
  <2> QED BY <1>2, <1>3, <2>1 DEF SentWithin
<1>4. pc = "text" => clock <= start /\ last <= start
  BY <1>1 DEF GoesForward, Emitting
<1>5. pc \in {"walk", "keepalive"} => clock <= walk
  BY <1>1 DEF GoesForward
<1> QED BY <1>1, <1>3, <1>4, <1>5 DEF Paced, RepeatsInTime, KeepalivesInTime, SentAt

(* A step without a call.                                                    *)
LEMMA NoCall ==
  ASSUME Steady, UNCHANGED encoder, UNCHANGED options
  PROVE  /\ kpb' = Empty
         /\ \A d \in timings' : d.data = "text" \/ d.end <= clock'
         /\ \A t, w : SentWithin(t, w) => SentNow(t, w)
         /\ \A t : SentAt(t) => SentAtNow(t)
         /\ SeekDistanceBounded' /\ NoLongSilence'
<1>1. UNCHANGED <<timings, clock, stream, kpb>>
  BY DEF encoder, vars
<1>2. TypeOK /\ Grown /\ ReaderSound /\ Paced /\ Smooth
  BY <1>1 DEF Grown, Steady, ForwardInvariant, InOrderInvariant
<1>3. \A p : stream' # Append(stream, p)
  BY <1>1, <1>2 DEF TypeOK
<1>4. SeekDistanceBounded' /\ NoLongSilence'
  BY <1>2, <1>3, CadenceOfPackets DEF Steady
<1> QED BY <1>1, <1>2, <1>4, DataKept DEF Paced, SentWithin, SentNow

LEMMA SteadyHeaders ==
  ASSUME Steady, TypeOK', Headers
  PROVE  PacedNow /\ SeekDistanceBounded' /\ NoLongSilence'
<1>1. /\ pc = "headers" /\ pc' \in {"headers", "read", "failed"}
      /\ UNCHANGED <<options, last>>
  BY HeadersDoes
<1>2. CASE UNCHANGED encoder
  BY <1>1, <1>2, NoCall
  DEF PacedNow, Steady, Paced, RepeatsInTime, KeepalivesInTime, SentAt
<1>3. CASE EncodeHeaders
  <2> DEFINE p == PacketOf("header", NoId, 0, 0, 0, granulepos, packetno + 1)
  <2>1. stream' = Append(stream, p) /\ UNCHANGED <<timings, clock>> /\ kpb' = Empty
    BY <1>3 DEF EncodeHeaders, Emit
  <2>2. TypeOK /\ ReaderSound /\ Paced /\ Smooth
    BY DEF Steady, ForwardInvariant, InOrderInvariant
  <2>3. p \in Packet /\ p.op = "header"
    <3>1. 0 \in Times
      BY ConstantsAssumption DEF Times
    <3>2. p \in Packet
      BY <2>2, <3>1, PacketType DEF TypeOK, PacketOps, NoId
    <3> QED BY <3>2 DEF PacketOf
  <2> HIDE DEF p
  <2>4. Grown /\ \A q \in Packet : stream' = Append(stream, q) => q = p
    BY <2>1, <2>2, <2>3, Prefix DEF Grown
  <2>5. SeekDistanceBounded' /\ NoLongSilence'
    BY <1>1, <2>2, <2>3, <2>4, CadenceOfPackets DEF DataOps, Steady
  <2>6. \A t : SentAt(t) => SentAtNow(t)
    BY <2>2, <2>4, DataKept
  <2> QED BY <1>1, <2>1, <2>2, <2>5, <2>6
          DEF PacedNow, Paced, RepeatsInTime, KeepalivesInTime, SentAt,
              SentWithin, SentNow
<1> QED BY <1>2, <1>3, HeadersDoes

LEMMA SteadyRead ==
  ASSUME Steady, ReadSrt \/ ReadLrc \/ EndOfFile
  PROVE  PacedNow /\ SeekDistanceBounded' /\ NoLongSilence'
<1>1. /\ pc = "read" /\ pc' \in {"read", "walk", "finish", "failed"}
      /\ walk' = last
      /\ UNCHANGED <<encoder, options, last>>
  BY DEF ReadSrt, ReadLrc, EndOfFile, ReadId, ReadTiming, ReadText, EmitEvent, Stop, Goto
<1>2. last - last < keepT + Step \/ ~ (keepT > 0)
  BY ConverterTypes DEF Steady, ForwardInvariant
<1> QED BY <1>1, <1>2, NoCall
        DEF PacedNow, Steady, Paced, RepeatsInTime, KeepalivesInTime, SentAt

LEMMA SteadyWalkEnds ==
  ASSUME Steady, WalkEnds
  PROVE  PacedNow /\ SeekDistanceBounded' /\ NoLongSilence'
<1>1. /\ pc = "walk" /\ pc' = "text" /\ ~ (Step > 0 /\ walk < start)
      /\ UNCHANGED <<encoder, options, last, start>>
  BY DEF WalkEnds, Walking, Goto, reader
<1>2. /\ ReaderSound /\ TypeOK /\ walk \in Nat /\ last \in Nat /\ start \in Int
      /\ Step \in Nat /\ repeatT \in Nat /\ keepT \in Nat /\ Times \subseteq Nat
      /\ (repeatT > 0 \/ keepT > 0) => Step > 0
  BY ConverterTypes DEF Steady, ForwardInvariant
<1>3. (repeatT > 0 \/ keepT > 0) => start <= walk
  BY <1>1, <1>2
<1>4. repeatT > 0 => SentWithin(start, repeatT + Step)
  <2>1. \A d \in timings : d.repeat \in Nat
    BY <1>2 DEF TypeOK, Timing
  <2>2. repeatT > 0 => SentWithin(walk, repeatT + Step)
    BY <1>1, SteadyWalk
  <2> QED BY <1>2, <1>3, <2>1, <2>2 DEF SentWithin
<1>5. keepT > 0 => start - last < keepT + Step /\ (last = 0 \/ SentAt(last))
  BY <1>1, <1>2, <1>3, SteadyWalk
<1> QED BY <1>1, <1>4, <1>5, NoCall DEF PacedNow

(* No packet after which the granule position could not be that of time t.   *)
LEMMA NeverRefused ==
  ASSUME InOrderInvariant, ~eos, NEW t \in Times, clock <= t,
         NEW b \in Times, IsBase(Trimmed(timings, t), t, b)
  PROVE  Accepted(b, t)
<1>1. Within(Trimmed(timings, t), t)
  BY TrimmedWithin
<1> QED BY <1>1, BaseFits, BaseAccepted

(* Nothing to repeat: every event has been sent within the threshold.        *)
LEMMA SteadyNothing ==
  ASSUME Steady, TypeOK', WalkRepeats, RepeatNothing(walk, repeatT), repeatT > 0,
         last' = last, pc' = IF Refused THEN "text" ELSE "keepalive"
  PROVE  PacedNow /\ SeekDistanceBounded' /\ NoLongSilence'
<1>1. /\ ReaderSound /\ TypeOK /\ InOrderInvariant /\ Paced /\ Smooth
      /\ Times \subseteq Nat /\ repeatT \in Nat /\ clock \in Nat
  BY ConverterTypes DEF Steady, ForwardInvariant
<1>2. pc = "walk" /\ walk \in Times /\ walk' = walk /\ UNCHANGED options
  BY <1>1, WalkRepeatsDoes
<1>3. clock <= walk /\ ~eos /\ clock' = walk
  BY <1>1, <1>2, SteadyWalk, OnTime DEF RepeatNothing
<1>4. \A b \in Times : IsBase(Trimmed(timings, walk), walk, b) => Accepted(b, walk)
  BY <1>1, <1>2, <1>3, NeverRefused
<1>5. pc' = "keepalive" /\ Due(Trimmed(timings, walk), walk, repeatT) = {}
  BY <1>4 DEF Refused, RepeatNothing
<1>6. /\ timings' = Trimmed(timings, walk) /\ stream' = stream /\ kpb' = kpb
  BY DEF RepeatNothing
<1>7. ASSUME NEW d \in timings'
      PROVE  d.data = "text" /\ walk - d.repeat < repeatT
  <2>1. d \in timings /\ walk < d.end /\ d \in Trimmed(timings, walk)
    BY <1>6 DEF Trimmed
  <2>2. d.end \in Nat /\ d.repeat \in Nat /\ walk \in Nat
    BY <1>1, <1>2, <2>1 DEF TypeOK, Timing
  <2>3. d.data = "text"
    BY <1>1, <1>3, <2>1, <2>2 DEF Paced
  <2>4. ~ (d.repeat <= walk - repeatT)
    BY <1>1, <1>5, <2>1, <2>3 DEF Due
  <2> QED BY <1>1, <2>2, <2>3, <2>4
<1>8. Grown /\ \A p : stream' # Append(stream, p)
  BY <1>1, <1>6 DEF Grown, TypeOK
<1>9. SeekDistanceBounded' /\ NoLongSilence'
  BY <1>1, <1>2, <1>8, CadenceOfPackets DEF Steady
<1>10. keepT > 0 => walk' - last' < keepT + Step /\ (last' = 0 \/ SentAtNow(last'))
  BY <1>1, <1>2, <1>8, SteadyWalk, DataKept
<1>11. kpb' = Empty
  BY <1>1, <1>6 DEF Paced
<1> QED BY <1>2, <1>5, <1>7, <1>9, <1>10, <1>11 DEF PacedNow, SentNow

(* A repeat: its base is no further than what was due allows.                *)
LEMMA SteadyRepeat ==
  ASSUME Steady, TypeOK', WalkRepeats, EncodeRepeat(walk, repeatT), repeatT > 0,
         Sent(walk), pc' = "walk"
  PROVE  PacedNow /\ SeekDistanceBounded' /\ NoLongSilence'
<1>1. /\ ReaderSound /\ TypeOK /\ InOrderInvariant /\ Paced /\ Smooth
      /\ Times \subseteq Nat /\ repeatT \in Nat /\ clock \in Nat /\ Step \in Nat
      /\ last \in Nat /\ keepT \in Nat
  BY ConverterTypes DEF Steady, ForwardInvariant
<1>2. /\ pc = "walk" /\ walk \in Times /\ walk \in Nat /\ walk' = walk
      /\ UNCHANGED options
  BY <1>1, WalkRepeatsDoes
<1>3. clock <= walk /\ ~eos /\ clock' = walk
  BY <1>1, <1>2, SteadyWalk, OnTime DEF EncodeRepeat
<1>4. SentWithin(walk, repeatT + Step) /\ repeatT + Step \in Nat /\ repeatT + Step > 0
  BY <1>1, <1>2, SteadyWalk
<1>5. PICK b \in Times :
        IsBase(Trimmed(timings, walk), walk, b) /\ granulepos' = Granule(b, walk - b)
  BY DEF EncodeRepeat
<1>6. PICK d \in Due(Trimmed(timings, walk), walk, repeatT) :
        /\ timings' = Repeated(Trimmed(timings, walk), d, walk)
        /\ stream' = Append(stream, RepeatOf(d, walk, granulepos'))
  BY DEF EncodeRepeat
<1>7. d \in Timing /\ d \in timings
  BY <1>1 DEF Due, Trimmed, TypeOK
<1> DEFINE p == RepeatOf(d, walk, granulepos')
<1>8. PICK n \in Timing : n = [d EXCEPT !.repeat = walk]
  BY <1>2, <1>7 DEF Timing
<1>9. n.repeat = walk /\ n.data = d.data /\ n.end = d.end
  BY <1>7, <1>8 DEF Timing
<1>10. \A e \in timings' : e \in timings \/ e = n
  BY <1>6, <1>8 DEF Repeated, Trimmed
<1>11. granulepos' \in Nat
  BY DEF TypeOK
<1>12. /\ p \in Packet /\ p.op = "repeat" /\ p.t = walk /\ p.gp = granulepos'
  BY <1>1, <1>2, <1>7, <1>11 DEF RepeatOf, Timing, Packet, PacketOps, TypeOK
<1>13. stream' = Append(stream, p)
  BY <1>6
<1> HIDE DEF p
<1>14. Grown /\ \A q \in Packet : stream' = Append(stream, q) => q = p
  BY <1>1, <1>12, <1>13, Prefix DEF Grown
<1>15. BaseOf(p.gp) = b
  <2>1. Within(Trimmed(timings, walk), walk)
    BY <1>1, <1>2, <1>3, TrimmedWithin
  <2> QED BY <1>1, <1>2, <1>3, <1>5, <1>12, <2>1, ExactBase
<1>16. walk - b < repeatT + Step
  BY <1>1, <1>2, <1>3, <1>4, <1>5, BaseInTime
<1>17. keepT > 0 => walk - last < keepT + Step /\ (last = 0 \/ SentAt(last))
  BY <1>2, SteadyWalk
<1>18. OnCadence(p.t, BaseOf(p.gp))
  BY <1>12, <1>15, <1>16, <1>17 DEF OnCadence
<1>19. SeekDistanceBounded' /\ NoLongSilence'
  BY <1>1, <1>2, <1>14, <1>18, CadenceOfPackets DEF Steady
<1>20. SentNow(walk, repeatT + Step)
  BY <1>1, <1>2, <1>3, <1>4, <1>9, <1>10, SentKept
<1>21. \A e \in timings' : e.data = "text" \/ e.end <= clock'
  <2>1. \A e \in timings : e.end \in Nat /\ (e.data = "text" \/ e.end <= clock)
    BY <1>1 DEF TypeOK, Timing, Paced
  <2>2. \A e \in timings : e.data = "text" \/ e.end <= clock'
    BY <1>1, <1>2, <1>3, <2>1
  <2> QED BY <1>7, <1>9, <1>10, <2>2
<1>22. SentAtNow(walk)
  <2>1. Len(stream) + 1 \in 1 .. Len(stream') /\ stream'[Len(stream) + 1] = p
    BY <1>1, <1>12, <1>13, <1>14, Prefix
  <2> QED BY <1>12, <2>1 DEF SentAtNow, DataNow, DataOps
<1>23. keepT > 0 => walk' - last' < keepT + Step /\ (last' = 0 \/ SentAtNow(last'))
  <2>1. SentAt(last) => SentAtNow(last)
    BY <1>1, <1>14, DataKept
  <2>2. CASE walk > last
    BY <1>1, <1>2, <1>22, <2>2 DEF Sent
  <2>3. CASE ~ (walk > last)
    BY <1>2, <1>17, <2>1, <2>3 DEF Sent
  <2> QED BY <2>2, <2>3
<1>24. kpb' = Empty
  BY <1>1 DEF EncodeRepeat, Paced
<1> QED BY <1>2, <1>19, <1>20, <1>21, <1>23, <1>24 DEF PacedNow

LEMMA SteadyWalkRepeats ==
  ASSUME Steady, TypeOK', WalkRepeats, failures' = failures, missing' = missing
  PROVE  PacedNow /\ SeekDistanceBounded' /\ NoLongSilence'
<1>1. ReaderSound /\ failures \in Nat /\ repeatT \in Nat /\ missing = {}
  BY ConverterTypes DEF Steady, ForwardInvariant, Smooth
<1>2. ~RepeatNoMemory(walk, repeatT) /\ ~NotCopied /\ ~NotWritten(walk)
  BY <1>1 DEF RepeatNoMemory, Fail, NotCopied, NotWritten, Lost
<1>3. /\ pc = "walk" /\ walk \in Times /\ walk' = walk
      /\ UNCHANGED options
  BY <1>1, WalkRepeatsDoes
<1>4. \/ repeatT = 0 /\ pc' = "keepalive" /\ UNCHANGED <<encoder, last>>
      \/ /\ repeatT > 0 /\ RepeatNothing(walk, repeatT)
         /\ pc' = IF Refused THEN "text" ELSE "keepalive"
         /\ last' = last
      \/ repeatT > 0 /\ EncodeRepeat(walk, repeatT) /\ Sent(walk) /\ pc' = "walk"
  BY <1>2 DEF WalkRepeats, Goto
<1>5. CASE repeatT = 0 /\ pc' = "keepalive" /\ UNCHANGED <<encoder, last>>
  BY <1>3, <1>5, NoCall, SteadyWalk DEF PacedNow
<1> QED BY <1>4, <1>5, SteadyNothing, SteadyRepeat

(* A keepalive, and the step of the walk after it.                           *)
LEMMA SteadyKeepalive ==
  ASSUME Steady, TypeOK', WalkKeepalive, EncodeKeepalive(walk), keepT > 0,
         Sent(walk), pc' = "walk"
  PROVE  PacedNow /\ SeekDistanceBounded' /\ NoLongSilence'
<1>1. /\ ReaderSound /\ TypeOK /\ InOrderInvariant /\ Paced /\ Smooth
      /\ Times \subseteq Nat /\ repeatT \in Nat /\ clock \in Nat /\ Step \in Nat
      /\ last \in Nat /\ keepT \in Nat
  BY ConverterTypes DEF Steady, ForwardInvariant
<1>2. /\ pc = "keepalive" /\ walk \in Times /\ walk \in Nat /\ walk' = walk + Step
      /\ UNCHANGED options
  BY <1>1, WalkKeepaliveDoes
<1>3. clock <= walk /\ ~eos /\ clock' = walk
  BY <1>1, <1>2, SteadyWalk, OnTime DEF EncodeKeepalive
<1>4. repeatT > 0 =>
        SentWithin(walk, repeatT + Step) /\ repeatT + Step \in Nat /\ repeatT + Step > 0
  BY <1>1, <1>2, SteadyWalk
<1>5. PICK b \in Times :
        IsBase(Trimmed(timings, walk), walk, b) /\ granulepos' = Granule(b, walk - b)
  BY DEF EncodeKeepalive, KeepaliveGranule
<1> DEFINE p == PacketOf("keepalive", NoId, walk, walk, walk, granulepos', packetno + 1)
<1>6. /\ stream' = Append(stream, p) /\ kpb' = Empty
      /\ timings' = Trimmed(timings, walk) \cup {NewTiming(walk, walk, "none")}
  BY DEF EncodeKeepalive, Emit
<1>7. p \in Packet /\ p.op = "keepalive" /\ p.t = walk /\ p.gp = granulepos'
  <2>1. /\ granulepos' \in Nat /\ packetno + 1 \in Int
        /\ "keepalive" \in PacketOps
    BY <1>1 DEF TypeOK, PacketOps
  <2>2. p \in Packet
    BY <1>1, <1>2, <2>1, PacketType DEF NoId
  <2> QED BY <2>2 DEF PacketOf
<1> HIDE DEF p
<1>8. Grown /\ \A q \in Packet : stream' = Append(stream, q) => q = p
  BY <1>1, <1>6, <1>7, Prefix DEF Grown
<1>9. BaseOf(p.gp) = b
  <2>1. Within(Trimmed(timings, walk), walk)
    BY <1>1, <1>2, <1>3, TrimmedWithin
  <2> QED BY <1>1, <1>2, <1>3, <1>5, <1>7, <2>1, ExactBase
<1>10. repeatT > 0 => walk - b < repeatT + Step
  BY <1>1, <1>2, <1>3, <1>4, <1>5, BaseInTime
<1>11. keepT > 0 => walk - last < keepT + Step /\ (last = 0 \/ SentAt(last))
  BY <1>2, SteadyWalk
<1>12. OnCadence(p.t, BaseOf(p.gp))
  BY <1>7, <1>9, <1>10, <1>11 DEF OnCadence
<1>13. SeekDistanceBounded' /\ NoLongSilence'
  BY <1>1, <1>2, <1>8, <1>12, CadenceOfPackets DEF Steady
<1>14. \A d \in timings' : d \in timings \/ d.end <= clock'
  BY <1>2, <1>3, <1>6 DEF Trimmed, NewTiming
<1>15. repeatT > 0 => SentNow(walk', repeatT + Step)
  <2>1. SUFFICES ASSUME repeatT > 0, NEW d \in timings'
                 PROVE  d.end <= clock' \/ (walk + Step) - d.repeat < repeatT + Step
    BY <1>2 DEF SentNow
  <2>2. CASE d \in timings
    <3>1. d.end <= clock \/ walk - d.repeat < repeatT
      BY <1>1, <1>2, <2>1, <2>2 DEF Paced, RepeatsInTime, SentWithin
    <3>2. d.end \in Nat /\ d.repeat \in Nat
      BY <1>1, <2>2 DEF TypeOK, Timing
    <3> QED BY <1>1, <1>2, <1>3, <3>1, <3>2
  <2> QED BY <1>14, <2>2
<1>16. \A d \in timings' : d.data = "text" \/ d.end <= clock'
  <2>1. \A d \in timings : d.end \in Nat /\ (d.data = "text" \/ d.end <= clock)
    BY <1>1 DEF TypeOK, Timing, Paced
  <2>2. \A d \in timings : d.data = "text" \/ d.end <= clock'
    BY <1>1, <1>2, <1>3, <2>1
  <2> QED BY <1>14, <2>2
<1>17. SentAtNow(walk)
  <2>1. Len(stream) + 1 \in 1 .. Len(stream') /\ stream'[Len(stream) + 1] = p
    BY <1>1, <1>6, <1>7, <1>8, Prefix
  <2> QED BY <1>7, <2>1 DEF SentAtNow, DataNow, DataOps
<1>18. walk' - last' < keepT + Step /\ (last' = 0 \/ SentAtNow(last'))
  <2>1. SentAt(last) => SentAtNow(last)
    BY <1>1, <1>8, DataKept
  <2>2. CASE walk > last
    BY <1>1, <1>2, <1>17, <2>2 DEF Sent
  <2>3. CASE ~ (walk > last)
    BY <1>1, <1>2, <1>11, <2>1, <2>3 DEF Sent
  <2> QED BY <2>2, <2>3
<1> QED BY <1>6, <1>13, <1>15, <1>16, <1>18 DEF PacedNow

LEMMA SteadyWalkKeepalive ==
  ASSUME Steady, TypeOK', WalkKeepalive, failures' = failures, missing' = missing
  PROVE  PacedNow /\ SeekDistanceBounded' /\ NoLongSilence'
<1>1. /\ ReaderSound /\ failures \in Nat /\ missing = {} /\ keepT \in Nat
      /\ walk \in Nat /\ last \in Nat /\ Step \in Nat /\ repeatT \in Nat
      /\ TypeOK /\ Times \subseteq Nat /\ Paced
  BY ConverterTypes DEF Steady, ForwardInvariant, Smooth
<1>2. /\ ~KeepaliveRejected(walk) /\ ~KeepaliveNoSlot(walk)
      /\ ~NotCopied /\ ~NotWritten(walk)
  BY <1>1 DEF KeepaliveRejected, KeepaliveNoSlot, Fail, NotCopied, NotWritten, Lost
<1>3. /\ pc = "keepalive" /\ UNCHANGED options
      /\ walk' = IF pc' = "walk" THEN walk + Step ELSE walk
  BY <1>1, WalkKeepaliveDoes
<1>4. \/ (keepT = 0 \/ ~Silent) /\ pc' = "walk" /\ UNCHANGED <<encoder, last>>
      \/ keepT > 0 /\ EncodeKeepalive(walk) /\ Sent(walk) /\ pc' = "walk"
  BY <1>2 DEF WalkKeepalive, Goto
<1>5. CASE (keepT = 0 \/ ~Silent) /\ pc' = "walk" /\ UNCHANGED <<encoder, last>>
  <2>1. keepT > 0 => walk' - last' < keepT + Step
    BY <1>1, <1>3, <1>5 DEF Silent
  <2>2. repeatT > 0 => SentWithin(walk', repeatT + Step)
    <3>1. \A d \in timings : d.repeat \in Nat
      BY <1>1 DEF TypeOK, Timing
    <3>2. repeatT > 0 => SentWithin(walk, repeatT)
      BY <1>1, <1>3 DEF Paced, RepeatsInTime
    <3>3. walk' = walk + Step
      BY <1>3, <1>5
    <3> QED BY <1>1, <3>1, <3>2, <3>3 DEF SentWithin
  <2> QED BY <1>3, <1>5, <2>1, <2>2, NoCall, SteadyWalk DEF PacedNow
<1> QED BY <1>4, <1>5, SteadyKeepalive

(* An event, and where the converter reads on.                               *)
LEMMA SteadyText ==
  ASSUME Steady, TypeOK', Text, missing' = missing
  PROVE  PacedNow /\ SeekDistanceBounded' /\ NoLongSilence'
<1>1. /\ ReaderSound /\ TypeOK /\ InOrderInvariant /\ Paced /\ Smooth
      /\ Times \subseteq Nat /\ repeatT \in Nat /\ clock \in Nat /\ Step \in Nat
      /\ last \in Nat /\ keepT \in Nat /\ missing = {}
  BY ConverterTypes DEF Steady, ForwardInvariant, Smooth
<1>2. /\ pc = "text" /\ start \in Times /\ end \in Times /\ start \in Nat
      /\ UNCHANGED options /\ EncodeText(start, end)
  BY <1>1, TextDoes
<1>3. clock <= start /\ last <= start /\ ~eos /\ clock' = start
  BY <1>1, <1>2, SteadyWalk, OnTime DEF EncodeText, TextCall
<1>4. Sent(start) /\ NextEvent
  BY <1>1 DEF Text, NotCopied, NotWritten, Lost
<1>5. last' = start /\ pc' \in {"read", "finish"}
  BY <1>1, <1>2, <1>3, <1>4 DEF Sent, NextEvent, Goto
<1>6. repeatT > 0 =>
        SentWithin(start, repeatT + Step) /\ repeatT + Step \in Nat /\ repeatT + Step > 0
  BY <1>1, <1>2, SteadyWalk
<1>7. PICK b \in Times :
        IsEarliest(WithNew(start, end), b) /\ granulepos' = Granule(b, start - b)
  BY <1>2 DEF EncodeText
<1> DEFINE p == PacketOf("text", id, start, end, start, granulepos', packetno + 1)
           n == NewTiming(start, end, SavedAs)
<1>8. /\ stream' = Append(stream, p) /\ kpb' = Empty
      /\ timings' = Trimmed(timings, start) \cup {n}
  BY <1>2 DEF EncodeText, Emit
<1>9. p \in Packet /\ p.op = "text" /\ p.t = start /\ p.gp = granulepos'
  <2>1. /\ granulepos' \in Nat /\ packetno + 1 \in Int /\ "text" \in PacketOps
        /\ id \in Nat
    BY <1>1 DEF TypeOK, PacketOps
  <2>2. p \in Packet
    BY <1>1, <1>2, <2>1, PacketType DEF NoId
  <2> QED BY <2>2 DEF PacketOf
<1>10. n.repeat = start /\ n.data = "text"
  BY <1>1 DEF NewTiming, SavedAs, Paced, Empty
<1> HIDE DEF p, n
<1>11. Grown /\ \A q \in Packet : stream' = Append(stream, q) => q = p
  BY <1>1, <1>8, <1>9, Prefix DEF Grown
<1>12. IsBase(WithNew(start, end), start, b)
  BY <1>7 DEF IsBase, IsEarliest
<1>13. BaseOf(p.gp) = b
  <2>1. Within(WithNew(start, end), start)
    BY <1>1, <1>2, <1>3, TrimmedWithin
  <2> QED BY <1>1, <1>2, <1>3, <1>7, <1>9, <1>12, <2>1, ExactBase
<1>14. repeatT > 0 => start - b < repeatT + Step
  <2>1. \A d \in WithNew(start, end) :
          d \in Trimmed(timings, start) \/ d.repeat = start
    BY DEF WithNew, NewTiming
  <2> QED BY <1>1, <1>2, <1>3, <1>6, <1>12, <2>1, BaseInTime
<1>15. keepT > 0 => start - last < keepT + Step /\ (last = 0 \/ SentAt(last))
  BY <1>2, SteadyWalk
<1>16. OnCadence(p.t, BaseOf(p.gp))
  BY <1>9, <1>13, <1>14, <1>15 DEF OnCadence
<1>17. SeekDistanceBounded' /\ NoLongSilence'
  BY <1>1, <1>2, <1>9, <1>11, <1>16, CadenceOfPackets DEF Steady
<1>18. \A d \in timings' : d \in timings \/ d = n
  BY <1>8 DEF Trimmed
<1>19. repeatT > 0 => SentNow(start, repeatT + Step)
  BY <1>1, <1>2, <1>3, <1>6, <1>10, <1>18, SentKept
<1>20. \A d \in timings' : d.data = "text" \/ d.end <= clock'
  <2>1. \A d \in timings : d.end \in Nat /\ (d.data = "text" \/ d.end <= clock)
    BY <1>1 DEF TypeOK, Timing, Paced
  <2>2. \A d \in timings : d.data = "text" \/ d.end <= clock'
    BY <1>1, <1>2, <1>3, <2>1
  <2> QED BY <1>10, <1>18, <2>2
<1>21. SentAtNow(start)
  <2>1. Len(stream) + 1 \in 1 .. Len(stream') /\ stream'[Len(stream) + 1] = p
    BY <1>1, <1>8, <1>9, <1>11, Prefix
  <2> QED BY <1>9, <2>1 DEF SentAtNow, DataNow, DataOps
<1> QED BY <1>5, <1>8, <1>17, <1>19, <1>20, <1>21 DEF PacedNow

(* An end time before the start: the conversion stops, and says so.          *)
LEMMA SteadyFails ==
  ASSUME Steady, TextFails, failures' = failures
  PROVE  PacedNow /\ SeekDistanceBounded' /\ NoLongSilence'
<1>1. ReaderSound /\ failures \in Nat
  BY ConverterTypes DEF Steady, ForwardInvariant
<1>2. UNCHANGED encoder
  BY <1>1 DEF TextFails, EncodeTextRejected, EncodeTextNoSlot, EncodeTextNotSaved, Fail
<1>3. pc = "text" /\ pc' = "failed" /\ UNCHANGED options /\ last' = last
  BY <1>1, TextFailsDoes
<1> QED BY <1>2, <1>3, NoCall, SteadyWalk DEF PacedNow

LEMMA SteadyFinish ==
  ASSUME Steady, TypeOK', Finish, failures' = failures
  PROVE  PacedNow /\ SeekDistanceBounded' /\ NoLongSilence'
<1>1. /\ ReaderSound /\ TypeOK /\ Paced /\ Smooth /\ failures \in Nat
      /\ clock \in Times /\ Times \subseteq Nat
  BY ConverterTypes DEF Steady, ForwardInvariant, TypeOK
<1>2. /\ EncodeFinish(-1) /\ pc = "finish" /\ pc' \in {"done", "failed"}
      /\ UNCHANGED options /\ last' = last
  BY <1>1, FinishDoes DEF FinishRejected, Fail
<1>3. clock' = clock
  BY <1>1, <1>2, CallsTick DEF FinishStep
<1>4. PICK e \in Times :
        stream' = Append(stream,
                    PacketOf("end", NoId, e, e, e, granulepos', packetno + 1))
  BY <1>2 DEF EncodeFinish, Emit
<1> DEFINE p == PacketOf("end", NoId, e, e, e, granulepos', packetno + 1)
<1>5. p \in Packet /\ p.op = "end"
  <2>1. granulepos' \in Nat /\ packetno + 1 \in Int /\ "end" \in PacketOps
    BY <1>1 DEF TypeOK, PacketOps
  <2>2. p \in Packet
    BY <1>1, <2>1, PacketType DEF NoId
  <2> QED BY <2>2 DEF PacketOf
<1>6. stream' = Append(stream, p)
  BY <1>4
<1> HIDE DEF p
<1>7. Grown /\ \A q \in Packet : stream' = Append(stream, q) => q = p
  BY <1>1, <1>5, <1>6, Prefix DEF Grown
<1>8. SeekDistanceBounded' /\ NoLongSilence'
  BY <1>1, <1>2, <1>5, <1>7, CadenceOfPackets DEF DataOps, Steady
<1>9. kpb' = Empty /\ \A d \in timings' : d \in timings
  BY <1>2 DEF EncodeFinish, Emit, Trimmed
<1>10. keepT > 0 => (last' = 0 \/ SentAtNow(last'))
  <2>1. keepT > 0 => last = 0 \/ SentAt(last)
    BY <1>1 DEF Paced, KeepalivesInTime, SentAt
  <2> QED BY <1>1, <1>2, <1>7, <2>1, DataKept
<1> QED BY <1>1, <1>2, <1>3, <1>8, <1>9, <1>10 DEF PacedNow, Paced

LEMMA CadenceStep ==
  ASSUME LongShift, CadenceInvariant, [ConvertNext]_convertVars
  PROVE  CadenceInvariant'
<1>1. ForwardInvariant' /\ BooksHold' /\ TypeOK'
  BY ForwardKept, BooksHeld, ConverterCalls DEF CadenceInvariant, ForwardInvariant
<1>2. SUFFICES ASSUME Smooth' PROVE Paced' /\ SeekDistanceBounded' /\ NoLongSilence'
  BY <1>1 DEF CadenceInvariant, SeekDistanceBounded, NoLongSilence
<1>3. ReaderSound /\ Smooth /\ failures' = failures /\ missing' = missing
  BY <1>2, SmoothWas DEF CadenceInvariant, ForwardInvariant
<1>4. Steady
  BY <1>3 DEF Steady, CadenceInvariant, BooksHold, Smooth
<1>5. UNCHANGED options
  BY <1>3, HeadersDoes, WalkRepeatsDoes, WalkKeepaliveDoes, TextDoes, TextFailsDoes,
     FinishDoes
  DEF ConvertNext, ReadSrt, ReadLrc, EndOfFile, WalkEnds, convertVars, options
<1>6. SUFFICES PacedNow /\ SeekDistanceBounded' /\ NoLongSilence'
  BY <1>5, PacedIs
<1>7. CASE UNCHANGED convertVars
  <2>1. UNCHANGED <<encoder, options, last, walk, start, pc>>
    BY <1>7 DEF convertVars, reader
  <2> QED BY <1>4, <2>1, NoCall
          DEF PacedNow, Steady, Paced, RepeatsInTime, KeepalivesInTime, SentAt
<1> QED BY <1>1, <1>3, <1>4, <1>7, SteadyHeaders, SteadyRead, SteadyWalkEnds,
           SteadyWalkRepeats, SteadyWalkKeepalive, SteadyText, SteadyFails, SteadyFinish
        DEF ConvertNext

LEMMA CadenceInit == ConvertInit => CadenceInvariant
<1> SUFFICES ASSUME ConvertInit PROVE CadenceInvariant
  OBVIOUS
<1>1. /\ timings = {} /\ stream = << >> /\ kpb = Empty
      /\ pc = "headers" /\ last = 0
  BY Zenon DEF ConvertInit, Init
<1>2. ForwardInvariant /\ BooksHold
  BY ForwardInit, InOrderInit DEF ConvertInit, BooksHold
<1>3. Data = {}
  BY <1>1 DEF Data
<1>4. Paced
  BY <1>1 DEF Paced, RepeatsInTime, KeepalivesInTime, SentWithin
<1> QED BY <1>2, <1>3, <1>4 DEF CadenceInvariant, SeekDistanceBounded, NoLongSilence

(* The thresholds of the command line are kept: in the stream of a file in   *)
(* order, with no failure, no player goes back further than the repeats ask, *)
(* and no silence is longer than the keepalives ask, but for the step of a   *)
(* walk: update_stream_time, kateenc.c:252.                                  *)
THEOREM CadenceIsKept ==
  ASSUME LongShift
  PROVE  ConvertSpec => []CadenceKept
<1>1. ConvertInit => CadenceInvariant
  BY CadenceInit
<1>2. CadenceInvariant /\ [ConvertNext]_convertVars => CadenceInvariant'
  BY CadenceStep
<1>3. CadenceInvariant => CadenceKept
  BY DEF CadenceInvariant, CadenceKept, ForwardInvariant, ReaderSound
<1> QED BY <1>1, <1>2, <1>3, PTL DEF ConvertSpec

-----------------------------------------------------------------------------
(* The events of the file in the stream.                                     *)

(* AreSent after a step.                                                     *)
TextsNow == {j \in 1 .. Len(stream') : stream'[j].op = "text"}

NextLyricNow(i, j) ==
  /\ i < j
  /\ file'[j].kind = "lyric"
  /\ \A k \in i + 1 .. j - 1 : file'[k].kind # "lyric"

GivesNow(i, p) ==
  /\ p.start = file'[i].t0
  /\ format' = "srt" => p.end = file'[i].t1
  /\ format' = "lrc" =>
       \E j \in 1 .. Len(file') : NextLyricNow(i, j) /\ p.end = file'[j].t0

AreSentNow(S) ==
  \E at \in [S -> TextsNow] :
    /\ \A i \in S : GivesNow(i, stream'[at[i]])
    /\ \A i, k \in S : i < k => at[i] < at[k]
    /\ \A j \in TextsNow : \E i \in S : at[i] = j

LEMMA SentIsNow ==
  /\ AreSent(CueLines)' <=> AreSentNow(CueLines')
  /\ \A i : AreSent({k \in CueLines : k < i})' <=> AreSentNow({k \in CueLines' : k < i})
BY DEF AreSent, AreSentNow, TextPackets, TextsNow, Gives, GivesNow, NextLyric, NextLyricNow

(* A call that puts no event in the stream.                                  *)
NoText == stream' = stream \/ \E p : stream' = Append(stream, p) /\ p.op # "text"

LEMMA QuietCalls ==
  /\ EncodeHeaders => NoText
  /\ \A t0, t1 : TextStep(t0, t1) => NoText \/ EncodeText(t0, t1)
  /\ \A t : KeepaliveStep(t) => NoText
  /\ \A t, threshold : RepeatStep(t, threshold) => NoText
  /\ \A t : FinishStep(t) => NoText
<1>0. \A op, i, t0, t1, t, gp, no : PacketOf(op, i, t0, t1, t, gp, no).op = op
  BY DEF PacketOf
<1>1. EncodeHeaders => NoText
  <2>1. PacketOf("header", NoId, 0, 0, 0, granulepos, packetno + 1).op # "text"
    BY <1>0
  <2> QED BY <2>1 DEF EncodeHeaders, Emit, NoText
<1>2. \A t0, t1 : TextStep(t0, t1) => NoText \/ EncodeText(t0, t1)
  BY DEF TextStep, EncodeTextRejected, EncodeTextNoSlot, EncodeTextBadMotion,
         EncodeTextNoPacket, EncodeTextNotSaved, NoText
<1>3. ASSUME NEW t, KeepaliveStep(t) PROVE NoText
  <2>1. PacketOf("keepalive", NoId, t, t, t, granulepos', packetno + 1).op # "text"
    BY <1>0
  <2> QED BY <1>3, <2>1 DEF KeepaliveStep, KeepaliveRejected, KeepaliveNoSlot,
                            KeepaliveNoPacket, EncodeKeepalive, Emit, NoText
<1>4. ASSUME NEW t, NEW threshold, RepeatStep(t, threshold) PROVE NoText
  <2>1. \A d : RepeatOf(d, t, granulepos').op # "text"
    BY DEF RepeatOf
  <2> QED BY <1>4, <2>1 DEF RepeatStep, RepeatNothing, RepeatNoMemory, EncodeRepeat, NoText
<1>5. ASSUME NEW t, FinishStep(t) PROVE NoText
  <2>1. \A e : PacketOf("end", NoId, e, e, e, granulepos', packetno + 1).op # "text"
    BY <1>0
  <2> QED BY <1>5, <2>1 DEF FinishStep, FinishRejected, FinishNoPacket, EncodeFinish, Emit, NoText
<1> QED BY <1>1, <1>2, <1>3, <1>4, <1>5

(* Events stay where they are in the stream.                                 *)
LEMMA TextsStayed ==
  ASSUME TypeOK, NoText
  PROVE  /\ TextsNow = TextPackets
         /\ \A j \in TextPackets : stream'[j] = stream[j]
<1>1. CASE stream' = stream
  BY <1>1 DEF TextsNow, TextPackets
<1>2. CASE \E p : stream' = Append(stream, p) /\ p.op # "text"
  <2>1. PICK p : stream' = Append(stream, p) /\ p.op # "text"
    BY <1>2
  <2>2. /\ Len(stream) \in Nat /\ Len(stream') = Len(stream) + 1
        /\ \A j \in 1 .. Len(stream) : stream'[j] = stream[j]
        /\ stream'[Len(stream) + 1] = p
    BY <2>1 DEF TypeOK
  <2> QED BY <2>1, <2>2 DEF TextsNow, TextPackets
<1> QED BY <1>1, <1>2 DEF NoText

(* What has been sent still has, if the file says the same of it.            *)
LEMMA SentStays ==
  ASSUME TypeOK, NoText, NEW S, AreSent(S),
         \A i \in S : \A p : Gives(i, p) => GivesNow(i, p)
  PROVE  AreSentNow(S)
<1>1. PICK at \in [S -> TextPackets] :
        /\ \A i \in S : Gives(i, stream[at[i]])
        /\ \A i, k \in S : i < k => at[i] < at[k]
        /\ \A j \in TextPackets : \E i \in S : at[i] = j
  BY DEF AreSent
<1>2. \A i \in S : stream'[at[i]] = stream[at[i]]
  BY TextsStayed
<1>3. at \in [S -> TextsNow] /\ \A j \in TextsNow : \E i \in S : at[i] = j
  BY <1>1, TextsStayed
<1>4. \A i \in S : GivesNow(i, stream'[at[i]])
  BY <1>1, <1>2
<1> QED BY <1>1, <1>3, <1>4 DEF AreSentNow

(* One event more.                                                           *)
LEMMA SentMore ==
  ASSUME TypeOK, NEW p, p.op = "text", stream' = Append(stream, p),
         NEW S, S \subseteq Nat, AreSent(S),
         \A i \in S : \A q : Gives(i, q) => GivesNow(i, q),
         NEW n \in Nat, \A k \in S : k < n, GivesNow(n, p)
  PROVE  AreSentNow(S \cup {n})
<1>1. PICK at \in [S -> TextPackets] :
        /\ \A i \in S : Gives(i, stream[at[i]])
        /\ \A i, k \in S : i < k => at[i] < at[k]
        /\ \A j \in TextPackets : \E i \in S : at[i] = j
  BY DEF AreSent
<1>2. /\ Len(stream) \in Nat /\ Len(stream') = Len(stream) + 1
      /\ \A j \in 1 .. Len(stream) : stream'[j] = stream[j]
      /\ stream'[Len(stream) + 1] = p
  BY DEF TypeOK
<1>3. TextsNow = TextPackets \cup {Len(stream) + 1}
  BY <1>2 DEF TextsNow, TextPackets
<1>4. \A j \in TextPackets : j \in 1 .. Len(stream) /\ j < Len(stream) + 1
  BY <1>2 DEF TextPackets
<1> DEFINE more == [i \in S \cup {n} |-> IF i = n THEN Len(stream) + 1 ELSE at[i]]
<1>5. n \notin S
  OBVIOUS
<1>6. \A i \in S : more[i] = at[i] /\ at[i] \in TextPackets
  BY <1>5
<1>7. more[n] = Len(stream) + 1
  OBVIOUS
<1>8. more \in [S \cup {n} -> TextsNow]
  BY <1>3
<1> HIDE DEF more
<1>9. \A i \in S \cup {n} : GivesNow(i, stream'[more[i]])
  BY <1>1, <1>2, <1>4, <1>6, <1>7
<1>10. ASSUME NEW i \in S \cup {n}, NEW k \in S \cup {n}, i < k
       PROVE  more[i] < more[k]
  <2>1. CASE i = n
    <3>1. k \in Nat /\ (k = n \/ k < n)
      BY <1>10
    <3> QED BY <1>10, <2>1, <3>1
  <2>2. CASE i # n /\ k = n
    BY <1>4, <1>6, <1>7, <2>2
  <2>3. CASE i # n /\ k # n
    BY <1>1, <1>6, <1>10, <2>3
  <2> QED BY <2>1, <2>2, <2>3
<1>11. \A j \in TextsNow : \E i \in S \cup {n} : more[i] = j
  BY <1>1, <1>3, <1>6, <1>7
<1> QED BY <1>8, <1>9, <1>10, <1>11 DEF AreSentNow

(* A step that reads no line leaves the cues as they are.                    *)
LEMMA SameCues ==
  ASSUME file' = file, format' = format
  PROVE  /\ CueLines' = CueLines
         /\ \A i, p : Gives(i, p) => GivesNow(i, p)
BY DEF CueLines, IsCue, IsSung, NextLyric, Words, Gives, GivesNow, NextLyricNow

(* A line more: what the lines before it say of cues does not change, and    *)
(* the last of them becomes one, if it waited for this one.                  *)
LEMMA LineAdded ==
  ASSUME file \in Seq(AllLines), NEW l, file' = Append(file, l), format' = format
  PROVE  /\ Len(file) \in Nat /\ Len(file') = Len(file) + 1 /\ file' # <<>>
         /\ file'[Len(file')] = l /\ \A i \in 1 .. Len(file) : file'[i] = file[i]
         /\ \A i \in 1 .. Len(file) : \A p : Gives(i, p) => GivesNow(i, p)
         /\ \A i, j \in 1 .. Len(file) : NextLyric(i, j) <=> NextLyricNow(i, j)
         /\ CueLines \subseteq CueLines'
         /\ \A i \in CueLines' :
              \/ i \in CueLines
              \/ /\ format = "srt" /\ i = Len(file) /\ 1 < i /\ file[i].kind = "timing"
                 /\ file[i - 1].kind \in {"id", "timing"}
              \/ /\ format # "srt" /\ i \in Spoken /\ l.kind = "lyric"
                 /\ \A k \in i + 1 .. Len(file) : file[k].kind # "lyric"
<1>1. /\ Len(file) \in Nat /\ Len(file') = Len(file) + 1 /\ file' # <<>>
      /\ file'[Len(file')] = l /\ \A i \in 1 .. Len(file) : file'[i] = file[i]
  OBVIOUS
<1>2. \A i, j \in 1 .. Len(file) : NextLyric(i, j) <=> NextLyricNow(i, j)
  <2>1. ASSUME NEW i \in 1 .. Len(file), NEW j \in 1 .. Len(file)
        PROVE  \A k \in i + 1 .. j - 1 : k \in 1 .. Len(file)
    OBVIOUS
  <2> QED BY <1>1, <2>1 DEF NextLyric, NextLyricNow
<1>3. \A j \in 1 .. Len(file) : j \in 1 .. Len(file')
  BY <1>1
<1>4. \A i \in 1 .. Len(file) : \A p : Gives(i, p) => GivesNow(i, p)
  BY <1>1, <1>2, <1>3 DEF Gives, GivesNow
<1>5. CASE format = "srt"
  <2>1. \A i : i \in CueLines' <=>
          /\ i \in 1 .. Len(file') /\ 1 < i /\ i < Len(file')
          /\ file'[i].kind = "timing" /\ file'[i - 1].kind \in {"id", "timing"}
          /\ i = 2 \/ file'[i - 2].kind = "blank"
    BY <1>5 DEF CueLines, IsCue
  <2>2. \A i : i \in CueLines <=>
          /\ i \in 1 .. Len(file) /\ 1 < i /\ i < Len(file)
          /\ file[i].kind = "timing" /\ file[i - 1].kind \in {"id", "timing"}
          /\ i = 2 \/ file[i - 2].kind = "blank"
    BY <1>5 DEF CueLines, IsCue
  <2>3. \A i \in 1 .. Len(file) : 1 < i => i - 1 \in 1 .. Len(file)
    OBVIOUS
  <2>4. \A i \in 1 .. Len(file) : 1 < i /\ i # 2 => i - 2 \in 1 .. Len(file)
    OBVIOUS
  <2>5. CueLines \subseteq CueLines'
    BY <1>1, <2>1, <2>2, <2>3, <2>4
  <2>6. ASSUME NEW i \in CueLines'
        PROVE  \/ i \in CueLines
               \/ /\ i = Len(file) /\ 1 < i /\ file[i].kind = "timing"
                  /\ file[i - 1].kind \in {"id", "timing"}
    <3>1. i \in 1 .. Len(file) /\ 1 < i
      BY <1>1, <2>1
    <3> QED BY <1>1, <2>1, <2>2, <2>3, <2>4, <3>1
  <2> QED BY <1>1, <1>2, <1>4, <1>5, <2>5, <2>6
<1>6. CASE format # "srt"
  <2>1. CueLines' = {i \in 1 .. Len(file') :
                       /\ file'[i].kind = "lyric" /\ Words(file'[i])
                       /\ \E j \in 1 .. Len(file') : NextLyricNow(i, j)}
    BY <1>6 DEF CueLines, IsSung, Words, NextLyric, NextLyricNow
  <2>2. CueLines = {i \in 1 .. Len(file) :
                      /\ file[i].kind = "lyric" /\ Words(file[i])
                      /\ \E j \in 1 .. Len(file) : NextLyric(i, j)}
    BY <1>6 DEF CueLines, IsSung, Words
  <2>3. CueLines \subseteq CueLines'
    BY <1>1, <1>2, <1>3, <2>1, <2>2
  <2>4. ASSUME NEW i \in CueLines', i \notin CueLines
        PROVE  /\ i \in Spoken /\ l.kind = "lyric"
               /\ \A k \in i + 1 .. Len(file) : file[k].kind # "lyric"
    <3>1. PICK j \in 1 .. Len(file') : NextLyricNow(i, j)
      BY <2>1
    <3>2. i < j /\ i \in 1 .. Len(file)
      BY <1>1, <2>1, <3>1 DEF NextLyricNow
    <3>3. file[i].kind = "lyric" /\ Words(file[i])
      BY <1>1, <2>1, <3>2
    <3>4. j = Len(file')
      BY <1>1, <1>2, <2>2, <2>4, <3>1, <3>2, <3>3
    <3>5. \A k \in i + 1 .. Len(file) : file'[k].kind # "lyric" /\ k \in 1 .. Len(file)
      BY <1>1, <3>1, <3>2, <3>4 DEF NextLyricNow
    <3> QED BY <1>1, <3>1, <3>2, <3>3, <3>4, <3>5 DEF NextLyricNow, Spoken
  <2> QED BY <1>1, <1>2, <1>4, <1>6, <2>3, <2>4
<1> QED BY <1>5, <1>6

(* The places of the reader, after a step.                                   *)
GatheredNow(i) ==
  /\ 1 < i /\ i <= Len(file')
  /\ file'[i].kind = "timing"
  /\ file'[i - 1].kind \in {"id", "timing"}
  /\ i = 2 \/ file'[i - 2].kind = "blank"
  /\ \A k \in i + 1 .. Len(file') : file'[k].kind # "timing"
  /\ start' = file'[i].t0 /\ end' = file'[i].t1

(* A step that leaves the reader where it is, and sends no event.            *)
LEMMA PlaceStays ==
  ASSUME CueInvariant, UNCHANGED <<reader, options>>, NoText, ReaderSound',
         \/ pc' = pc /\ pc # "headers"
         \/ Emitting /\ Emitting'
         \/ pc = "finish" /\ pc' = "done"
         \/ pc' = "failed"
  PROVE  CueInvariant'
<1>1. /\ file' = file /\ format' = format /\ need' = need /\ start' = start
      /\ end' = end /\ text' = text /\ words' = words
  BY DEF reader, options
<1>0. \/ pc = "read" /\ pc' = "read"
      \/ Emitting /\ Emitting'
      \/ pc \in {"finish", "done"} /\ pc' \in {"finish", "done"}
      \/ pc' = "failed"
  BY DEF CueInvariant, ReaderSound, ConvertTypeOK, Emitting
<1>2. TypeOK
  BY DEF CueInvariant, ReaderSound, ConvertTypeOK
<1>3. CueLines' = CueLines /\ \A i, p : Gives(i, p) => GivesNow(i, p)
  BY <1>1, SameCues
<1>4. AreSent(CueLines) => AreSent(CueLines)'
  BY <1>2, <1>3, SentStays, SentIsNow
<1>5. \A i : AreSent({k \in CueLines : k < i}) => AreSent({k \in CueLines : k < i})'
  BY <1>2, <1>3, SentStays, SentIsNow
<1>6. \A i : Gathered(i) => Gathered(i)'
  BY <1>1 DEF Gathered
<1>7. SrtPlace => SrtPlace'
  <2>1. \A i \in 1 .. Len(file) :
          /\ Gathered(i) /\ (text <=> i < Len(file))
          /\ AreSent({k \in CueLines : k < i})
          => i \in 1 .. Len(file') /\ Gathered(i)' /\ (text' <=> i < Len(file'))
             /\ AreSent({k \in CueLines : k < i})'
    BY <1>1, <1>5, <1>6
  <2>2. \A i \in 1 .. Len(file) :
          /\ Gathered(i) /\ i < Len(file)
          /\ AreSent({k \in CueLines : k < i})
          => i \in 1 .. Len(file') /\ Gathered(i)' /\ i < Len(file')
             /\ AreSent({k \in CueLines : k < i})'
    BY <1>1, <1>5, <1>6
  <2>3. (LastLine({"blank"}) => LastLine({"blank"})')
        /\ (LastLine({"id", "timing"}) => LastLine({"id", "timing"})')
    BY <1>1 DEF LastLine
  <2>4. SUFFICES ASSUME SrtPlace PROVE SrtPlace'
    OBVIOUS
  <2>5. CASE pc = "read" /\ pc' = "read"
    BY <1>1, <1>4, <2>1, <2>3, <2>4, <2>5 DEF SrtPlace, Emitting
  <2>6. CASE Emitting /\ Emitting'
    BY <1>1, <1>4, <2>2, <2>3, <2>4, <2>6 DEF SrtPlace, Emitting
  <2>7. CASE pc \in {"finish", "done"} /\ pc' \in {"finish", "done"}
    BY <1>1, <1>4, <2>4, <2>7 DEF SrtPlace, Emitting
  <2>8. CASE pc' = "failed"
    BY <2>8 DEF SrtPlace, Emitting
  <2> QED BY <1>0, <2>5, <2>6, <2>7, <2>8
<1>8. LrcPlace => LrcPlace'
  <2>1. SUFFICES ASSUME LrcPlace PROVE LrcPlace'
    OBVIOUS
  <2>2. Spoken' = Spoken
    BY <1>1 DEF Spoken, Words
  <2>3. \A i, j : NextLyric(i, j) <=> NextLyricNow(i, j)
    BY <1>1 DEF NextLyric, NextLyricNow
  <2>5. CASE pc = "read" /\ pc' = "read"
    BY <1>1, <1>3, <1>4, <2>1, <2>2, <2>5 DEF LrcPlace, Emitting
  <2>6. CASE Emitting /\ Emitting'
    <3>1. PICK i \in Spoken :
            /\ NextLyric(i, Len(file))
            /\ start = file[i].t0 /\ end = file[Len(file)].t0
            /\ words = Words(file[Len(file)])
            /\ Spoken \subseteq CueLines \cup {Len(file)}
            /\ AreSent({k \in CueLines : k < i})
      BY <2>1, <2>6 DEF LrcPlace
    <3>2. NextLyric(i, Len(file))' /\ AreSent({k \in CueLines : k < i})'
      BY <1>1, <1>5, <3>1 DEF NextLyric
    <3>3. (words = Words(file[Len(file)]))'
      BY <1>1, <3>1 DEF Words
    <3> QED BY <1>1, <1>3, <2>2, <2>6, <3>1, <3>2, <3>3 DEF LrcPlace, Emitting
  <2>7. CASE pc \in {"finish", "done"} /\ pc' \in {"finish", "done"}
    BY <1>1, <1>4, <2>1, <2>7 DEF LrcPlace, Emitting
  <2>8. CASE pc' = "failed"
    BY <2>8 DEF LrcPlace, Emitting
  <2> QED BY <1>0, <2>5, <2>6, <2>7, <2>8
<1>9. pc' # "headers"
  BY <1>0 DEF Emitting
<1> QED BY <1>1, <1>7, <1>8, <1>9 DEF CueInvariant

LEMMA NothingSent ==
  /\ TextPackets = {} => AreSent({})
  /\ TextsNow = {} => AreSentNow({})
<1>1. ASSUME TextPackets = {} PROVE AreSent({})
  <2>1. [i \in {} |-> 0] \in [{} -> TextPackets]
    OBVIOUS
  <2> QED BY <1>1, <2>1 DEF AreSent
<1>2. ASSUME TextsNow = {} PROVE AreSentNow({})
  <2>1. [i \in {} |-> 0] \in [{} -> TextsNow]
    OBVIOUS
  <2> QED BY <1>2, <2>1 DEF AreSentNow
<1> QED BY <1>1, <1>2

LEMMA CueInit == ConvertInit => CueInvariant
<1> SUFFICES ASSUME ConvertInit PROVE CueInvariant
  OBVIOUS
<1>1. stream = <<>>
  BY DEF ConvertInit, Init
<1>2. TextPackets = {}
  BY <1>1 DEF TextPackets
<1>3. pc = "headers" /\ file = <<>> /\ need = "id" /\ ~text
  BY DEF ConvertInit
<1> QED BY <1>2, <1>3, ReaderInit DEF CueInvariant, SrtPlace, LrcPlace, Emitting

LEMMA CueHeaders ==
  ASSUME CueInvariant, Headers, ReaderSound'
  PROVE  CueInvariant'
<1>1. /\ pc = "headers" /\ file = <<>> /\ need = "id" /\ ~text /\ TextPackets = {}
      /\ UNCHANGED <<file, need, text, format>> /\ pc' \in {"headers", "read", "failed"}
  BY HeadersDoes DEF CueInvariant, reader, options
<1>2. NoText
  BY HeadersDoes, QuietCalls DEF encoder, vars, NoText
<1>3. TextsNow = {} /\ TextPackets' = {}
  <2>1. TextsNow = {}
    BY <1>1, <1>2, TextsStayed DEF CueInvariant, ReaderSound, ConvertTypeOK
  <2> QED BY <2>1 DEF TextPackets, TextsNow
<1>4. CueLines' = {} /\ Spoken' = {}
  BY <1>1 DEF CueLines, Spoken
<1>5. AreSent(CueLines)'
  BY <1>3, <1>4, NothingSent, SentIsNow
<1> QED BY <1>1, <1>3, <1>4, <1>5 DEF CueInvariant, SrtPlace, LrcPlace, Emitting

(* A line of convert_srt.                                                    *)
LEMMA CueReadSrt ==
  ASSUME CueInvariant, ReadSrt, ReaderSound'
  PROVE  CueInvariant'
<1>1. PICK l \in SrtLines : Read(l) /\ (ReadId(l) \/ ReadTiming(l) \/ ReadText(l))
  BY DEF ReadSrt
<1>2. /\ pc = "read" /\ format = "srt" /\ format' = format
      /\ file \in Seq(AllLines) /\ file' = Append(file, l)
      /\ stream' = stream /\ TypeOK
      /\ l.kind \in {"blank", "id", "text", "timing"}
  BY <1>1, LineTypes
  DEF ReadSrt, Read, options, encoder, vars, CueInvariant, ReaderSound, ConvertTypeOK, AllLines
<1>3. SrtPlace
  BY <1>2 DEF CueInvariant
<1>4. SUFFICES SrtPlace' /\ pc' # "headers"
  BY <1>2 DEF CueInvariant
<1>5. NoText
  BY <1>2 DEF NoText
<1>6. /\ Len(file) \in Nat /\ Len(file') = Len(file) + 1 /\ file' # <<>>
      /\ file'[Len(file')] = l /\ \A i \in 1 .. Len(file) : file'[i] = file[i]
      /\ \A i \in 1 .. Len(file) : \A p : Gives(i, p) => GivesNow(i, p)
      /\ CueLines \subseteq CueLines'
      /\ \A i \in CueLines' :
           \/ i \in CueLines
           \/ /\ i = Len(file) /\ 1 < i /\ file[i].kind = "timing"
              /\ file[i - 1].kind \in {"id", "timing"}
  BY <1>2, LineAdded
<1>7. CueLines \subseteq 1 .. Len(file)
  BY DEF CueLines
<1>8. \A S : AreSent(S) /\ S \subseteq 1 .. Len(file) => AreSentNow(S)
  BY <1>2, <1>5, <1>6, SentStays
<1>9. ASSUME NEW kinds, l.kind \in kinds
      PROVE  file' # <<>> /\ file'[Len(file')].kind \in kinds
  BY <1>6, <1>9
<1>10. CASE ReadId(l)
  <2>1. need = "id" /\ AreSent(CueLines) /\ (file = <<>> \/ file[Len(file)].kind = "blank")
    BY <1>2, <1>3, <1>10 DEF ReadId, SrtPlace, LastLine
  <2>2. CueLines' = CueLines
    <3>1. ASSUME NEW i \in CueLines', i \notin CueLines PROVE FALSE
      <4>1. i = Len(file) /\ 1 < i /\ file[i].kind = "timing"
        BY <1>6, <3>1
      <4> QED BY <2>1, <4>1
    <3> QED BY <1>6, <3>1
  <2>3. AreSent(CueLines)'
    BY <1>7, <1>8, <2>1, <2>2, SentIsNow
  <2>4. Len(file') = 1 \/ file'[Len(file') - 1].kind = "blank"
    BY <1>6, <2>1
  <2>5. CASE l.kind = "blank"
    <3>1. LastLine({"blank"})'
      BY <1>9, <2>5 DEF LastLine
    <3> QED BY <1>10, <2>1, <2>3, <2>5, <3>1 DEF ReadId, Goto, SrtPlace, Emitting
  <2>6. CASE l.kind \in {"id", "timing"}
    <3>1. LastLine({"id", "timing"})'
      BY <1>9, <2>6 DEF LastLine
    <3>2. ~text'
      BY <1>10, <2>6 DEF ReadId
    <3> QED BY <1>10, <2>1, <2>3, <2>4, <2>6, <3>1, <3>2 DEF ReadId, Goto, SrtPlace, Emitting
  <2>7. CASE l.kind = "text"
    BY <1>10, <2>7 DEF ReadId, Stop, Goto, SrtPlace, Emitting
  <2> QED BY <1>2, <2>5, <2>6, <2>7
<1>11. CASE ReadTiming(l)
  <2>1. /\ need = "timing" /\ ~text /\ AreSent(CueLines)
        /\ file # <<>> /\ file[Len(file)].kind \in {"id", "timing"}
        /\ Len(file) = 1 \/ file[Len(file) - 1].kind = "blank"
    BY <1>2, <1>3, <1>11 DEF ReadTiming, SrtPlace, LastLine
  <2>2. CASE pc' = "failed"
    BY <2>2 DEF SrtPlace, Emitting
  <2>3. CASE pc' # "failed"
    <3>1. /\ l.kind = "timing" /\ start' = l.t0 /\ end' = l.t1 /\ pc' = "read"
          /\ need' = "text" /\ text' = text
      BY <1>11, <2>3 DEF ReadTiming, Stop, Goto
    <3>2. CueLines' = CueLines
      <4>1. ASSUME NEW i \in CueLines', i \notin CueLines PROVE FALSE
        <5>1. /\ i = Len(file) /\ 1 < i
              /\ file[i - 1].kind \in {"id", "timing"}
          BY <1>6, <4>1
        <5> QED BY <2>1, <5>1
      <4> QED BY <1>6, <4>1
    <3>3. AreSentNow(CueLines')
      BY <1>7, <1>8, <2>1, <3>2
    <3>4. Len(file') \in 1 .. Len(file') /\ (text' <=> Len(file') < Len(file'))
      BY <1>6, <2>1, <3>1
    <3>5. PICK n \in 1 .. Len(file') : n = Len(file')
      BY <3>4
    <3>6. AreSentNow({k \in CueLines' : k < n})
      <4>1. CueLines \subseteq 1 .. Len(file)
        BY DEF CueLines
      <4>2. Len(file) \in Nat /\ n = Len(file) + 1
        BY <1>6, <3>5
      <4>3. \A k \in CueLines : k < n
        BY <4>1, <4>2
      <4>4. {k \in CueLines' : k < n} = CueLines'
        BY <3>2, <4>3
      <4> QED BY <3>3, <4>4
    <3>7. GatheredNow(Len(file'))
      <4>1. 1 < Len(file') /\ file'[Len(file') - 1] = file[Len(file)]
        BY <1>6, <2>1
      <4>2. Len(file') = 2 \/ file'[Len(file') - 2] = file[Len(file) - 1]
        BY <1>6, <2>1
      <4> QED BY <1>6, <2>1, <3>1, <4>1, <4>2 DEF GatheredNow
    <3>8. /\ GatheredNow(n) /\ (text' <=> n < Len(file'))
          /\ AreSent({k \in CueLines : k < n})'
      BY <3>4, <3>5, <3>6, <3>7, SentIsNow
    <3> QED BY <3>1, <3>8 DEF SrtPlace, Emitting, Gathered, GatheredNow
  <2> QED BY <2>2, <2>3
<1>12. CASE ReadText(l)
  <2>1. need = "text" /\ l.kind # "timing" /\ start' = start /\ end' = end
    BY <1>12 DEF ReadText
  <2>2. PICK i \in 1 .. Len(file) :
          /\ Gathered(i) /\ (text <=> i < Len(file))
          /\ AreSent({k \in CueLines : k < i})
    BY <1>2, <1>3, <2>1 DEF SrtPlace
  <2>3. {k \in CueLines' : k < i} = {k \in CueLines : k < i}
    <3>1. ASSUME NEW k \in CueLines', k < i PROVE k \in CueLines
      BY <1>6, <2>2, <3>1
    <3> QED BY <1>6, <3>1
  <2>4. AreSent({k \in CueLines : k < i})'
    BY <1>7, <1>8, <2>2, <2>3, SentIsNow
  <2>5. GatheredNow(i)
    <3>1. 1 < i /\ i - 1 \in 1 .. Len(file) /\ (i = 2 \/ i - 2 \in 1 .. Len(file))
      BY <2>2 DEF Gathered
    <3>2. ASSUME NEW k \in i + 1 .. Len(file') PROVE file'[k].kind # "timing"
      <4>1. k \in i + 1 .. Len(file) \/ k = Len(file')
        BY <1>6
      <4> QED BY <1>6, <2>1, <2>2, <4>1 DEF Gathered
    <3> QED BY <1>6, <2>1, <2>2, <3>1, <3>2 DEF Gathered, GatheredNow
  <2>6. i \in 1 .. Len(file') /\ i < Len(file')
    BY <1>6
  <2>7. CASE l.kind = "blank"
    <3>1. LastLine({"blank"})'
      BY <1>9, <2>7 DEF LastLine
    <3> QED BY <1>12, <2>4, <2>5, <2>6, <2>7, <3>1
            DEF ReadText, EmitEvent, Goto, SrtPlace, Emitting, Gathered, GatheredNow
  <2>8. CASE l.kind # "blank"
    <3>1. text' /\ pc' = "read" /\ need' = "text"
      BY <1>12, <2>1, <2>8 DEF ReadText, Goto
    <3> QED BY <2>4, <2>5, <2>6, <3>1 DEF SrtPlace, Emitting, Gathered, GatheredNow
  <2> QED BY <2>7, <2>8
<1> QED BY <1>1, <1>10, <1>11, <1>12

(* A line of convert_lrc.                                                    *)
LEMMA CueReadLrc ==
  ASSUME CueInvariant, ReadLrc, ReaderSound'
  PROVE  CueInvariant'
<1>1. PICK l \in LrcLines :
        /\ Read(l)
        /\ words' = Words(l)
        /\ \/ l.kind = "blank" /\ Goto("read") /\ UNCHANGED <<start, end, text>>
           \/ /\ l.kind = "text" /\ (Stop \/ Goto("read"))
              /\ UNCHANGED <<start, end, text>>
           \/ /\ l.kind = "lyric" /\ text
              /\ end' = l.t0 /\ EmitEvent
              /\ UNCHANGED <<start, text>>
           \/ /\ l.kind = "lyric" /\ ~text
              /\ start' = l.t0 /\ text' = Words(l) /\ Goto("read")
              /\ UNCHANGED end
  BY DEF ReadLrc
<1>2. /\ pc = "read" /\ format = "lrc" /\ format' = format /\ need' = need
      /\ file \in Seq(AllLines) /\ file' = Append(file, l)
      /\ stream' = stream /\ TypeOK
  BY <1>1, LineTypes
  DEF ReadLrc, Read, options, encoder, vars, CueInvariant, ReaderSound, ConvertTypeOK, AllLines
<1>3. LrcPlace
  BY <1>2 DEF CueInvariant
<1>4. SUFFICES LrcPlace' /\ pc' # "headers"
  BY <1>2 DEF CueInvariant
<1>5. NoText
  BY <1>2 DEF NoText
<1>6. /\ Len(file) \in Nat /\ Len(file') = Len(file) + 1 /\ file' # <<>>
      /\ file'[Len(file')] = l /\ \A i \in 1 .. Len(file) : file'[i] = file[i]
      /\ \A i \in 1 .. Len(file) : \A p : Gives(i, p) => GivesNow(i, p)
      /\ \A i, j \in 1 .. Len(file) : NextLyric(i, j) <=> NextLyricNow(i, j)
      /\ CueLines \subseteq CueLines'
      /\ \A i \in CueLines' :
           \/ i \in CueLines
           \/ /\ i \in Spoken /\ l.kind = "lyric"
              /\ \A k \in i + 1 .. Len(file) : file[k].kind # "lyric"
  <2>1. format # "srt"
    BY <1>2
  <2> QED BY <1>2, <2>1, LineAdded
<1>7. CueLines \subseteq 1 .. Len(file) /\ Spoken \subseteq 1 .. Len(file)
  BY DEF CueLines, Spoken
<1>8. \A S : AreSent(S) /\ S \subseteq 1 .. Len(file) => AreSentNow(S)
  BY <1>2, <1>5, <1>6, SentStays
<1>9. AreSent(CueLines)
  BY <1>2, <1>3 DEF LrcPlace
<1>10. ASSUME NEW i \in CueLines
       PROVE  \E j \in i + 1 .. Len(file) : file[j].kind = "lyric"
  <2>1. PICK j \in 1 .. Len(file) : NextLyric(i, j)
    BY <1>2 DEF CueLines, IsSung
  <2> QED BY <1>7, <2>1 DEF NextLyric
<1>11. Spoken' = IF l.kind = "lyric" /\ Words(l) THEN Spoken \cup {Len(file')} ELSE Spoken
  <2>1. Spoken' = {i \in 1 .. Len(file') : file'[i].kind = "lyric" /\ Words(file'[i])}
    BY DEF Spoken, Words
  <2> QED BY <1>6, <2>1 DEF Spoken
<1>12. ASSUME l.kind # "lyric" PROVE CueLines' = CueLines /\ Spoken' = Spoken
  BY <1>6, <1>11, <1>12
<1>13. ASSUME CueLines' = CueLines PROVE AreSent(CueLines)'
  BY <1>7, <1>8, <1>9, <1>13, SentIsNow
<1>14. CASE l.kind = "blank" \/ (l.kind = "text" /\ Goto("read"))
  <2>1. CueLines' = CueLines /\ Spoken' = Spoken /\ AreSent(CueLines)'
    BY <1>12, <1>13, <1>14
  <2>2. pc' = "read" /\ start' = start /\ text' = text
    BY <1>1, <1>14 DEF Goto
  <2>3. CASE text
    <3>1. PICK i \in Spoken :
            /\ Spoken \subseteq CueLines \cup {i}
            /\ \A k \in i + 1 .. Len(file) : file[k].kind # "lyric"
            /\ start = file[i].t0
      BY <1>2, <1>3, <2>3 DEF LrcPlace
    <3>2. \A k \in i + 1 .. Len(file') : file'[k].kind # "lyric"
      BY <1>6, <1>7, <1>14, <3>1
    <3>3. start' = file'[i].t0
      BY <1>6, <1>7, <2>2, <3>1
    <3> QED BY <2>1, <2>2, <2>3, <3>1, <3>2, <3>3 DEF LrcPlace, Emitting
  <2>4. CASE ~text
    <3>1. Spoken \subseteq CueLines
      BY <1>2, <1>3, <2>4 DEF LrcPlace
    <3> QED BY <2>1, <2>2, <2>4, <3>1 DEF LrcPlace, Emitting
  <2> QED BY <2>3, <2>4
<1>15. CASE l.kind = "text" /\ Stop
  BY <1>1, <1>15 DEF Stop, Goto, LrcPlace, Emitting
<1>16. CASE l.kind = "lyric" /\ text
  <2>1. PICK i \in Spoken :
          /\ Spoken \subseteq CueLines \cup {i}
          /\ \A k \in i + 1 .. Len(file) : file[k].kind # "lyric"
          /\ start = file[i].t0
    BY <1>2, <1>3, <1>16 DEF LrcPlace
  <2>2. end' = l.t0 /\ start' = start /\ pc' = "walk" /\ words' = Words(l)
    BY <1>1, <1>16 DEF EmitEvent, Goto
  <2>3. i \in 1 .. Len(file) /\ i < Len(file')
    BY <1>6, <1>7
  <2>4. NextLyricNow(i, Len(file'))
    BY <1>6, <1>16, <2>1, <2>3 DEF NextLyricNow
  <2>5. i \in CueLines'
    <3>1. i \in 1 .. Len(file') /\ file'[i].kind = "lyric" /\ Words(file'[i])
      BY <1>6, <2>3 DEF Spoken
    <3>2. Len(file') \in 1 .. Len(file')
      BY <1>6
    <3> QED BY <1>2, <2>4, <3>1, <3>2 DEF CueLines, IsSung, NextLyric, NextLyricNow, Words
  <2>6. {k \in CueLines' : k < i} = CueLines
    <3>1. ASSUME NEW k \in CueLines PROVE k < i
      <4>1. PICK j \in k + 1 .. Len(file) : file[j].kind = "lyric"
        BY <1>10
      <4>2. j <= i
        BY <1>7, <2>1, <2>3, <4>1
      <4> QED BY <1>7, <2>3, <4>1, <4>2
    <3>2. ASSUME NEW k \in CueLines', k < i PROVE k \in CueLines
      <4>1. k \in CueLines \/ (k \in Spoken /\ \A m \in k + 1 .. Len(file) : file[m].kind # "lyric")
        BY <1>6
      <4>2. CASE k \in Spoken /\ \A m \in k + 1 .. Len(file) : file[m].kind # "lyric"
        <5>1. k \in 1 .. Len(file) /\ Len(file) \in Nat
          BY <1>6, <1>7, <4>2
        <5>2. i \in k + 1 .. Len(file)
          BY <2>3, <3>2, <5>1
        <5> QED BY <4>2, <5>2 DEF Spoken
      <4> QED BY <4>1, <4>2
    <3> QED BY <1>6, <3>1, <3>2
  <2>7. AreSent({k \in CueLines : k < i})'
    BY <1>7, <1>8, <1>9, <2>6, SentIsNow
  <2>8. Spoken' \subseteq CueLines' \cup {Len(file')} /\ i \in Spoken'
    BY <1>6, <1>11, <2>1, <2>5
  <2>9. start' = file'[i].t0 /\ end' = file'[Len(file')].t0
    BY <1>6, <2>1, <2>2, <2>3
  <2>10. words' = Words(file[Len(file)])'
    BY <1>6, <2>2 DEF Words
  <2> QED BY <2>2, <2>4, <2>7, <2>8, <2>9, <2>10
          DEF LrcPlace, Emitting, NextLyric, NextLyricNow
<1>17. CASE l.kind = "lyric" /\ ~text
  <2>1. Spoken \subseteq CueLines
    BY <1>2, <1>3, <1>17 DEF LrcPlace
  <2>2. start' = l.t0 /\ text' = Words(l) /\ pc' = "read"
    BY <1>1, <1>17 DEF Goto
  <2>3. CueLines' = CueLines
    BY <1>6, <2>1
  <2>4. AreSent(CueLines)'
    BY <1>13, <2>3
  <2>5. CASE Words(l)
    <3>1. Len(file') \in Spoken' /\ Spoken' \subseteq CueLines' \cup {Len(file')}
      BY <1>11, <1>17, <2>1, <2>3, <2>5
    <3>2. /\ \A k \in Len(file') + 1 .. Len(file') : file'[k].kind # "lyric"
          /\ start' = file'[Len(file')].t0
      BY <1>6, <2>2
    <3> QED BY <2>2, <2>4, <2>5, <3>1, <3>2 DEF LrcPlace, Emitting
  <2>6. CASE ~Words(l)
    <3>1. Spoken' \subseteq CueLines'
      BY <1>11, <2>1, <2>3, <2>6
    <3> QED BY <2>2, <2>4, <2>6, <3>1 DEF LrcPlace, Emitting
  <2> QED BY <2>5, <2>6
<1> QED BY <1>1, <1>14, <1>15, <1>16, <1>17 DEF EmitEvent, Goto, Stop

(* The end of the file.                                                      *)
LEMMA CueEndOfFile ==
  ASSUME CueInvariant, EndOfFile, ReaderSound'
  PROVE  CueInvariant'
<1>1. /\ pc = "read" /\ UNCHANGED <<file, format, start, end, text, words, stream>>
      /\ TypeOK /\ format \in {"srt", "lrc"}
      /\ \/ /\ format = "srt" /\ need = "text" /\ text
            /\ pc' = "walk" /\ need' = "eof"
         \/ /\ ~ (format = "srt" /\ need = "text" /\ text)
            /\ pc' = "finish" /\ need' = need
  BY ConvertAssumption
  DEF EndOfFile, Goto, options, encoder, vars, CueInvariant, ReaderSound, ConvertTypeOK
<1>2. NoText /\ CueLines' = CueLines /\ \A i, p : Gives(i, p) => GivesNow(i, p)
  BY <1>1, SameCues DEF NoText
<1>3. AreSent(CueLines) => AreSent(CueLines)'
  BY <1>1, <1>2, SentStays, SentIsNow
<1>4. \A i : AreSent({k \in CueLines : k < i}) => AreSent({k \in CueLines : k < i})'
  BY <1>1, <1>2, SentStays, SentIsNow
<1>5. CASE format = "srt" /\ need = "text"
  <2>1. PICK i \in 1 .. Len(file) :
          /\ Gathered(i) /\ (text <=> i < Len(file))
          /\ AreSent({k \in CueLines : k < i})
    BY <1>1, <1>5 DEF CueInvariant, SrtPlace
  <2>2. CASE text
    <3>1. Gathered(i)' /\ i \in 1 .. Len(file') /\ i < Len(file')
      BY <1>1, <2>1, <2>2 DEF Gathered
    <3>2. AreSent({k \in CueLines : k < i})'
      BY <1>4, <2>1
    <3> QED BY <1>1, <1>5, <2>2, <3>1, <3>2 DEF CueInvariant, SrtPlace, Emitting
  <2>3. CASE ~text
    <3>1. {k \in CueLines : k < i} = CueLines
      <4>1. ASSUME NEW k \in CueLines PROVE k < i
        <5>1. k \in 1 .. Len(file) /\ k < Len(file)
          BY <1>5 DEF CueLines, IsCue
        <5> QED BY <2>1, <2>3, <5>1
      <4> QED BY <4>1
    <3>2. AreSent(CueLines)'
      BY <1>3, <2>1, <3>1
    <3> QED BY <1>1, <1>5, <2>3, <3>2 DEF CueInvariant, SrtPlace, Emitting
  <2> QED BY <2>2, <2>3
<1>6. CASE ~ (format = "srt" /\ need = "text")
  <2>1. AreSent(CueLines)
    <3>1. CASE format = "srt"
      BY <1>1, <1>6, <3>1 DEF CueInvariant, SrtPlace
    <3>2. CASE format = "lrc"
      BY <1>1, <3>2 DEF CueInvariant, LrcPlace
    <3> QED BY <1>1, <3>1, <3>2
  <2>2. AreSent(CueLines)' /\ pc' = "finish"
    BY <1>1, <1>3, <1>6, <2>1
  <2> QED BY <1>1, <1>6, <2>2 DEF CueInvariant, SrtPlace, LrcPlace, Emitting
<1> QED BY <1>5, <1>6

(* The event at hand is sent.                                                *)
LEMMA CueText ==
  ASSUME CueInvariant, Text, ReaderSound'
  PROVE  CueInvariant'
<1>1. /\ ReaderSound /\ TypeOK /\ format \in {"srt", "lrc"}
      /\ pc = "text" /\ UNCHANGED options /\ EncodeText(start, end)
      /\ NextEvent \/ pc' = "failed"
  BY TextDoes, ConvertAssumption DEF CueInvariant, ReaderSound, ConvertTypeOK
<1>2. CASE pc' = "failed"
  BY <1>2 DEF CueInvariant, SrtPlace, LrcPlace, Emitting
<1>3. CASE NextEvent
  <2>1. PICK p : /\ p.op = "text" /\ p.start = start /\ p.end = end
                 /\ stream' = Append(stream, p)
    <3>1. \A gp, no : /\ PacketOf("text", id, start, end, start, gp, no).op = "text"
                      /\ PacketOf("text", id, start, end, start, gp, no).start = start
                      /\ PacketOf("text", id, start, end, start, gp, no).end = end
      BY DEF PacketOf
    <3> QED BY <1>1, <3>1 DEF EncodeText, Emit
  <2>2. /\ file' = file /\ format' = format /\ need' = need /\ end' = end /\ words' = words
        /\ pc' = IF need = "eof" THEN "finish" ELSE "read"
        /\ format = "lrc" => start' = end /\ text' = words
    BY <1>1, <1>3 DEF NextEvent, options, Goto
  <2>3. CueLines' = CueLines /\ \A i, q : Gives(i, q) => GivesNow(i, q)
    BY <2>2, SameCues
  <2>4. ASSUME NEW i \in CueLines, AreSent({k \in CueLines : k < i}), Gives(i, p),
               \A k \in CueLines : k <= i
        PROVE  AreSent(CueLines)'
    <3>1. CueLines \subseteq Nat
      BY DEF CueLines
    <3>2. PICK S : S = {k \in CueLines : k < i}
      OBVIOUS
    <3>3. AreSentNow(S \cup {i})
      <4>1. S \subseteq Nat /\ i \in Nat /\ AreSent(S) /\ \A k \in S : k < i
        BY <2>4, <3>1, <3>2
      <4>2. GivesNow(i, p)
        BY <2>3, <2>4
      <4> QED BY <1>1, <2>1, <2>3, <4>1, <4>2, SentMore
    <3>4. S \cup {i} = CueLines
      <4>1. \A k \in CueLines : k < i \/ k = i
        BY <2>4, <3>1
      <4> QED BY <3>2, <4>1
    <3> QED BY <2>3, <3>3, <3>4, SentIsNow
  <2>5. CASE format = "srt"
    <3>1. /\ need = "eof" \/ (need = "id" /\ LastLine({"blank"}))
          /\ SrtPlace
      BY <1>1, <2>5 DEF CueInvariant, SrtPlace, Emitting
    <3>2. PICK i \in 1 .. Len(file) :
            /\ Gathered(i) /\ i < Len(file)
            /\ AreSent({k \in CueLines : k < i})
      BY <1>1, <2>5 DEF CueInvariant, SrtPlace, Emitting
    <3>3. i \in CueLines /\ Gives(i, p)
      BY <2>1, <2>5, <3>2 DEF CueLines, IsCue, Gathered, Gives
    <3>4. ASSUME NEW k \in CueLines PROVE k <= i
      <4>1. k \in 1 .. Len(file) /\ file[k].kind = "timing"
        BY <2>5 DEF CueLines, IsCue
      <4>2. ~ (k \in i + 1 .. Len(file))
        BY <3>2, <4>1 DEF Gathered
      <4> QED BY <3>2, <4>1, <4>2
    <3>5. AreSent(CueLines)'
      BY <2>4, <3>2, <3>3, <3>4
    <3>6. LastLine({"blank"}) => LastLine({"blank"})'
      BY <2>2 DEF LastLine
    <3> QED BY <1>1, <2>2, <2>5, <3>1, <3>5, <3>6 DEF CueInvariant, SrtPlace, Emitting
  <2>6. CASE format = "lrc"
    <3>1. PICK i \in Spoken :
            /\ NextLyric(i, Len(file))
            /\ start = file[i].t0 /\ end = file[Len(file)].t0
            /\ words = Words(file[Len(file)])
            /\ Spoken \subseteq CueLines \cup {Len(file)}
            /\ AreSent({k \in CueLines : k < i})
      BY <1>1, <2>6 DEF CueInvariant, LrcPlace, Emitting
    <3>2. Len(file) \in Nat /\ i \in 1 .. Len(file) /\ Len(file) \in 1 .. Len(file)
      BY <3>1 DEF Spoken, ReaderSound, CueInvariant
    <3>3. i \in CueLines /\ Gives(i, p)
      BY <2>1, <2>6, <3>1, <3>2 DEF CueLines, IsSung, Spoken, Gives
    <3>4. ASSUME NEW k \in CueLines PROVE k <= i
      <4>1. k \in 1 .. Len(file) /\ file[k].kind = "lyric"
        BY <2>6 DEF CueLines, IsSung
      <4>2. PICK j \in 1 .. Len(file) : NextLyric(k, j)
        BY <2>6 DEF CueLines, IsSung
      <4>3. k < Len(file)
        BY <3>2, <4>1, <4>2 DEF NextLyric
      <4>4. ~ (k \in i + 1 .. Len(file) - 1)
        BY <3>1, <4>1 DEF NextLyric
      <4> QED BY <3>2, <4>1, <4>3, <4>4
    <3>5. AreSent(CueLines)'
      BY <2>4, <3>1, <3>3, <3>4
    <3>6. Spoken' = Spoken
      BY <2>2 DEF Spoken, Words
    <3>7. need = "id" /\ pc' = "read"
      BY <1>1, <2>2, <2>6 DEF ReaderSound
    <3>8. CASE words
      <4>1. Len(file) \in Spoken'
        BY <3>1, <3>2, <3>6, <3>8 DEF Spoken, NextLyric
      <4>2. /\ \A k \in Len(file) + 1 .. Len(file') : file'[k].kind # "lyric"
            /\ start' = file'[Len(file)].t0 /\ text'
        BY <2>2, <2>6, <3>1, <3>2, <3>8
      <4>3. Spoken' \subseteq CueLines' \cup {Len(file)}
        BY <2>3, <3>1, <3>6
      <4> QED BY <1>1, <2>2, <2>6, <3>5, <3>7, <4>1, <4>2, <4>3
              DEF CueInvariant, LrcPlace, Emitting
    <3>9. CASE ~words
      <4>1. Spoken' \subseteq CueLines'
        BY <2>3, <3>1, <3>2, <3>6, <3>9 DEF Spoken
      <4> QED BY <1>1, <2>2, <2>6, <3>5, <3>7, <3>9, <4>1
              DEF CueInvariant, LrcPlace, Emitting
    <3> QED BY <3>8, <3>9
  <2> QED BY <1>1, <2>5, <2>6
<1> QED BY <1>1, <1>2, <1>3

LEMMA CueStep ==
  ASSUME CueInvariant, [ConvertNext]_convertVars
  PROVE  CueInvariant'
<1>1. ReaderSound /\ ReaderSound'
  BY ReaderKept DEF CueInvariant
<1>2. UNCHANGED encoder => NoText
  BY DEF encoder, vars, NoText
<1>3. CASE WalkEnds
  BY <1>1, <1>2, <1>3, PlaceStays DEF WalkEnds, Goto, Emitting
<1>4. CASE WalkRepeats
  BY <1>1, <1>2, <1>4, WalkRepeatsDoes, QuietCalls, PlaceStays DEF Emitting
<1>5. CASE WalkKeepalive
  BY <1>1, <1>2, <1>5, WalkKeepaliveDoes, QuietCalls, PlaceStays DEF Emitting
<1>6. CASE TextFails
  <2>1. NoText
    BY <1>2, <1>6
    DEF TextFails, EncodeTextRejected, EncodeTextNoSlot, EncodeTextNotSaved, NoText
  <2> QED BY <1>1, <1>6, <2>1, TextFailsDoes, PlaceStays
<1>7. CASE Finish
  <2>1. NoText
    BY <1>1, <1>7, FinishDoes, QuietCalls DEF FinishStep
  <2> QED BY <1>1, <1>7, <2>1, FinishDoes, PlaceStays
<1>8. CASE UNCHANGED convertVars
  <2>1. CASE pc # "headers"
    BY <1>1, <1>2, <1>8, <2>1, PlaceStays DEF convertVars
  <2>2. CASE pc = "headers"
    <3>1. UNCHANGED <<pc, file, need, text, stream>>
      BY <1>8 DEF convertVars, encoder, vars, reader
    <3>2. TextPackets' = {}
      BY <2>2, <3>1 DEF CueInvariant, TextPackets
    <3> QED BY <1>1, <2>2, <3>1, <3>2 DEF CueInvariant, SrtPlace, LrcPlace, Emitting
  <2> QED BY <2>1, <2>2
<1> QED BY <1>1, <1>3, <1>4, <1>5, <1>6, <1>7, <1>8,
           CueHeaders, CueReadSrt, CueReadLrc, CueEndOfFile, CueText
        DEF ConvertNext

(* A conversion that succeeds has put every event of its file in the stream, *)
(* once and in order: for files of every length, every threshold, and        *)
(* whatever failed on the way.                                               *)
THEOREM EventsAreSent == ConvertSpec => []CuesAreSent
<1>1. CueInvariant => CuesAreSent
  <2>1. SUFFICES ASSUME CueInvariant, pc = "done" PROVE AreSent(CueLines)
    BY DEF CuesAreSent
  <2>2. format \in {"srt", "lrc"}
    BY <2>1, ConvertAssumption DEF CueInvariant, ReaderSound
  <2> QED BY <2>1, <2>2 DEF CueInvariant, SrtPlace, LrcPlace
<1>2. CueInvariant /\ [ConvertNext]_convertVars => CueInvariant'
  BY CueStep
<1> QED BY <1>1, <1>2, CueInit, PTL DEF ConvertSpec
=============================================================================
