------------------------- MODULE KateEncoderProofs -------------------------
(* What KateEncoder guarantees for every value of its constants.             *)
EXTENDS KateEncoder, TLAPS

(* Division with remainder, as granule positions are unpacked.               *)
LEMMA Division ==
  ASSUME NEW n \in Nat
  PROVE  /\ n \div OffsetRange \in Nat
         /\ n % OffsetRange \in Nat
         /\ n % OffsetRange < OffsetRange
         /\ n \div OffsetRange <= n
BY ConstantsAssumption, SMTT(30)

LEMMA DivisionUnique ==
  ASSUME NEW b \in Nat, NEW o \in Nat, o < OffsetRange
  PROVE  /\ (b * OffsetRange + o) \div OffsetRange = b
         /\ (b * OffsetRange + o) % OffsetRange = o
BY ConstantsAssumption, SMTT(30)

LEMMA SmallDivision ==
  ASSUME NEW o \in Nat, o < OffsetRange
  PROVE  o \div OffsetRange = 0 /\ o % OffsetRange = o
BY ConstantsAssumption, SMTT(30)

LEMMA GranuleType ==
  ASSUME NEW b \in Times, NEW o \in Times
  PROVE  Granule(b, o) \in Nat
<1>1. o \div OffsetRange \in Times /\ o % OffsetRange \in Nat
  BY Division, ConstantsAssumption DEF Times
<1>2. BitOr(b, o \div OffsetRange) \in Nat
  BY <1>1, BitOrAssumption
<1> QED BY <1>1, <1>2, ConstantsAssumption DEF Granule

LEMMA Less ==
  ASSUME NEW a \in Nat, NEW b \in Nat, NEW o \in Nat, NEW q \in Nat, a < b, o < OffsetRange
  PROVE  a * OffsetRange + o <= b * OffsetRange + q
BY ConstantsAssumption, SMTT(30)

(* The timing of a new event, and the packet of a call, are well formed.     *)
LEMMA NewTimingType ==
  ASSUME TypeOK, NEW t0 \in Times, NEW t1 \in Times, NEW s \in SavedData
  PROVE  NewTiming(t0, t1, s) \in Timing
BY DEF TypeOK, NewTiming, Timing, SavedData

LEMMA PacketType ==
  ASSUME TypeOK, NEW op \in PacketOps, NEW i \in Nat \cup {NoId},
         NEW s \in Times, NEW e \in Times, NEW t \in Times, NEW gp \in Nat,
         NEW no \in Int
  PROVE  PacketOf(op, i, s, e, t, gp, no) \in Packet
BY DEF TypeOK, PacketOf, Packet, Empty, NoId

LEMMA AppendType ==
  ASSUME TypeOK, NEW p \in Packet
  PROVE  Append(stream, p) \in Seq(Packet)
BY DEF TypeOK

LEMMA CallClock ==
  ASSUME TypeOK, NEW t \in Times, Call(t)
  PROVE  clock' \in Times
BY DEF TypeOK, Call

LEMMA FinishClock ==
  ASSUME TypeOK, NEW t \in Times \cup {-1}, FinishCall(t)
  PROVE  clock' \in Times
BY ConstantsAssumption DEF TypeOK, FinishCall, Times

LEMMA AcceptedType ==
  ASSUME NEW b \in Times, NEW t \in Times, Accepted(b, t)
  PROVE  t - b \in Times /\ Granule(b, t - b) \in Nat
<1>1. t - b \in Times
  BY ConstantsAssumption DEF Accepted, Times
<1> QED BY <1>1, GranuleType

LEMMA EndGranule ==
  ASSUME NEW e \in Times
  PROVE  e * OffsetRange \in Nat
BY ConstantsAssumption DEF Times

LEMMA FailType ==
  ASSUME TypeOK, Fail
  PROVE  failures' \in Nat
BY DEF TypeOK, Fail

(* The initial state, and every step, is well typed.                         *)
LEMMA TypeInit == Init => TypeOK
<1>1. 0 \in Times
  BY ConstantsAssumption DEF Times
<1>2. << >> \in Seq(Packet)
  OBVIOUS
<1>3. ASSUME Init PROVE TypeOK
  <2>1. /\ stream \in Seq(Packet) /\ timings \subseteq Timing
        /\ kpb \in PacketOps \cup {Empty} /\ eos \in BOOLEAN /\ clock \in Times
    BY <1>1, <1>2, <1>3, Zenon DEF Init
  <2>2. /\ id \in Nat /\ granulepos \in Nat /\ failures \in Nat
        /\ packetno \in Int /\ packetno >= -1
    BY <1>3, SMT DEF Init
  <2> QED BY <2>1, <2>2, Zenon DEF TypeOK
<1> QED BY <1>3

LEMMA TypeStep == TypeOK /\ [Next]_vars => TypeOK'
<1> SUFFICES ASSUME TypeOK, [Next]_vars PROVE TypeOK'
  OBVIOUS
<1> 0 \in Times /\ Times \subseteq Int
  BY ConstantsAssumption DEF Times
<1>1. CASE EncodeHeaders
  <2>1. PacketOf("header", NoId, 0, 0, 0, granulepos, packetno + 1) \in Packet
    BY PacketType DEF TypeOK, PacketOps, NoId
  <2> QED BY <1>1, <2>1, AppendType DEF EncodeHeaders, Emit, TypeOK, PacketOps, Empty
<1>2. CASE EncodeHeadersFails
  BY <1>2, FailType DEF EncodeHeadersFails, Started, TypeOK, PacketOps, Empty
<1>3. ASSUME NEW t0 \in Times, NEW t1 \in Times, TextStep(t0, t1) PROVE TypeOK'
  <2>1. Trimmed(timings, t0) \subseteq Timing /\ WithNew(t0, t1) \subseteq Timing
    BY NewTimingType DEF TypeOK, Trimmed, WithNew, SavedData
  <2>2. CASE EncodeTextRejected(t0, t1)
    BY <2>1, <2>2, CallClock, FailType DEF EncodeTextRejected, TextCall, TypeOK
  <2>3. CASE EncodeTextNoSlot(t0, t1)
    BY <2>1, <2>3, CallClock, FailType DEF EncodeTextNoSlot, TextCall, TypeOK
  <2>4. CASE EncodeTextBadMotion(t0, t1)
    BY <2>1, <2>4, CallClock, FailType
    DEF EncodeTextBadMotion, TextCall, TypeOK, Started, PacketOps, Empty
  <2>5. CASE EncodeTextNoPacket(t0, t1)
    <3>1. granulepos' \in Nat
      BY <2>5, AcceptedType DEF EncodeTextNoPacket
    <3> QED BY <2>1, <2>5, <3>1, CallClock, FailType
            DEF EncodeTextNoPacket, TextCall, TypeOK, Started, PacketOps, Empty
  <2>6. CASE EncodeTextNotSaved(t0, t1)
    <3>1. granulepos' \in Nat
      BY <2>6, AcceptedType DEF EncodeTextNotSaved
    <3> QED BY <2>1, <2>6, <3>1, CallClock, FailType
            DEF EncodeTextNotSaved, TextCall, TypeOK, PacketOps, Empty
  <2>7. CASE EncodeText(t0, t1)
    <3>1. granulepos' \in Nat
      BY <2>7, AcceptedType DEF EncodeText
    <3>2. PacketOf("text", id, t0, t1, t0, granulepos', packetno + 1) \in Packet
      BY <3>1, PacketType DEF TypeOK, PacketOps, NoId
    <3>3. stream' \in Seq(Packet) /\ kpb' = Empty
      BY <2>7, <3>2, AppendType DEF EncodeText, Emit
    <3>4. SavedAs \in SavedData
      BY DEF SavedAs, SavedData
    <3>5. timings' \subseteq Timing
      BY <2>1, <2>7, <3>4, NewTimingType DEF EncodeText
    <3> QED BY <2>7, <3>1, <3>3, <3>5, CallClock
            DEF EncodeText, TextCall, TypeOK, PacketOps, Empty
  <2> QED BY <1>3, <2>2, <2>3, <2>4, <2>5, <2>6, <2>7 DEF TextStep
<1>4. ASSUME NEW t \in Times, KeepaliveStep(t) PROVE TypeOK'
  <2>1. /\ Trimmed(timings, t) \subseteq Timing
        /\ Trimmed(timings, t) \cup {NewTiming(t, t, "none")} \subseteq Timing
    BY NewTimingType DEF TypeOK, Trimmed, SavedData
  <2>2. KeepaliveGranule(t) => granulepos' \in Nat
    BY AcceptedType DEF KeepaliveGranule
  <2>3. CASE KeepaliveRejected(t)
    BY <2>1, <2>3, CallClock, FailType DEF KeepaliveRejected, TypeOK
  <2>4. CASE KeepaliveNoSlot(t)
    BY <2>1, <2>2, <2>4, CallClock, FailType DEF KeepaliveNoSlot, TypeOK
  <2>5. CASE KeepaliveNoPacket(t)
    BY <2>1, <2>2, <2>5, CallClock, FailType
    DEF KeepaliveNoPacket, TypeOK, Started, PacketOps, Empty
  <2>6. CASE EncodeKeepalive(t)
    <3>1. PacketOf("keepalive", NoId, t, t, t, granulepos', packetno + 1) \in Packet
      BY <2>2, <2>6, PacketType DEF EncodeKeepalive, TypeOK, PacketOps, NoId
    <3>2. stream' \in Seq(Packet) /\ kpb' = Empty
      BY <2>6, <3>1, AppendType DEF EncodeKeepalive, Emit
    <3> QED BY <2>1, <2>2, <2>6, <3>2, CallClock
            DEF EncodeKeepalive, TypeOK, PacketOps, Empty
  <2> QED BY <1>4, <2>3, <2>4, <2>5, <2>6 DEF KeepaliveStep
<1>5. ASSUME NEW t \in Times, NEW threshold \in Thresholds, RepeatStep(t, threshold)
      PROVE  TypeOK'
  <2>1. Trimmed(timings, t) \subseteq Timing
    BY DEF TypeOK, Trimmed
  <2>2. ASSUME NEW d \in Due(Trimmed(timings, t), t, threshold)
        PROVE  /\ Repeated(Trimmed(timings, t), d, t) \subseteq Timing
               /\ \A gp \in Nat : RepeatOf(d, t, gp) \in Packet
    <3>1. d \in Timing /\ d.data \in SavedData
      BY <2>1, <2>2 DEF Due, Timing
    <3> QED BY <2>1, <3>1 DEF Repeated, RepeatOf, Timing, Packet, TypeOK, PacketOps
  <2>3. CASE RepeatNothing(t, threshold)
    BY <2>1, <2>3, CallClock DEF RepeatNothing, TypeOK
  <2>4. CASE RepeatNoMemory(t, threshold)
    BY <2>2, <2>4, CallClock, FailType DEF RepeatNoMemory, TypeOK
  <2>5. CASE EncodeRepeat(t, threshold)
    <3>1. granulepos' \in Nat
      BY <2>5, AcceptedType DEF EncodeRepeat
    <3>2. timings' \subseteq Timing /\ stream' \in Seq(Packet)
      BY <2>2, <2>5, <3>1, AppendType DEF EncodeRepeat
    <3> QED BY <2>5, <3>1, <3>2, CallClock DEF EncodeRepeat, TypeOK
  <2> QED BY <1>5, <2>3, <2>4, <2>5 DEF RepeatStep
<1>6. ASSUME NEW t \in Times \cup {-1}, FinishStep(t) PROVE TypeOK'
  <2>1. Trimmed(timings, t) \subseteq Timing
    BY DEF TypeOK, Trimmed
  <2>2. CASE FinishRejected(t)
    BY <2>1, <2>2, FinishClock, FailType DEF FinishRejected, TypeOK
  <2>3. CASE FinishNoPacket(t)
    BY <2>1, <2>3, FinishClock, FailType, EndGranule
    DEF FinishNoPacket, TypeOK, Started, PacketOps, Empty
  <2>4. CASE EncodeFinish(t)
    <3>1. PICK e \in Times :
            /\ granulepos' = e * OffsetRange
            /\ Emit(PacketOf("end", NoId, e, e, e, granulepos', packetno + 1))
      BY <2>4 DEF EncodeFinish
    <3>2. PacketOf("end", NoId, e, e, e, granulepos', packetno + 1) \in Packet
      BY <3>1, EndGranule, PacketType DEF TypeOK, PacketOps, NoId
    <3>3. stream' \in Seq(Packet) /\ kpb' = Empty /\ granulepos' \in Nat
      BY <3>1, <3>2, AppendType, EndGranule DEF Emit
    <3> QED BY <2>1, <2>4, <3>3, FinishClock DEF EncodeFinish, TypeOK, PacketOps, Empty
  <2> QED BY <1>6, <2>2, <2>3, <2>4 DEF FinishStep
<1>7. CASE UNCHANGED vars
  BY <1>7 DEF vars, TypeOK
<1> QED BY <1>1, <1>2, <1>3, <1>4, <1>5, <1>6, <1>7 DEF Next

(* Every variable keeps its range, whatever the client does and whatever     *)
(* fails: the type invariant of the encoder.                                 *)
THEOREM TypeCorrect == Spec => []TypeOK
BY TypeInit, TypeStep, PTL DEF Spec

-----------------------------------------------------------------------------
(* What any client can rely on, in whatever order it calls.                  *)

(* The stream after a step: what it was, then at most one packet.            *)
Grown == stream' = stream \/ \E p \in Packet : stream' = Append(stream, p)

LEMMA Prefix ==
  ASSUME TypeOK, Grown
  PROVE  /\ \A k \in 1 .. Len(stream) :
              k \in 1 .. Len(stream') /\ stream'[k] = stream[k]
         /\ \A p : stream' = Append(stream, p) =>
              /\ Len(stream') = Len(stream) + 1
              /\ stream'[Len(stream) + 1] = p
         /\ Len(stream) \in Nat
BY DEF TypeOK, Grown

LEMMA StreamKept ==
  ASSUME TypeOK, TypeOK', Grown, StreamBehind, StreamNonDecreasing,
         granulepos <= granulepos',
         \A p \in Packet : stream' = Append(stream, p) =>
           granulepos <= p.gp /\ p.gp <= granulepos'
  PROVE  StreamBehind' /\ StreamNonDecreasing'
<1>1. granulepos \in Nat /\ granulepos' \in Nat
  BY DEF TypeOK
<1>2. \A i \in 1 .. Len(stream) :
        stream'[i] = stream[i] /\ stream[i].gp \in Nat /\ stream[i].gp <= granulepos
  <2>1. \A i \in 1 .. Len(stream) : stream[i] \in Packet
    BY DEF TypeOK
  <2> QED BY <2>1, Prefix DEF Packet, StreamBehind
<1>3. CASE stream' = stream
  <2>1. StreamNonDecreasing'
    BY <1>3 DEF StreamNonDecreasing
  <2>2. StreamBehind'
    BY <1>1, <1>2, <1>3 DEF StreamBehind
  <2> QED BY <2>1, <2>2
<1>4. ASSUME NEW p \in Packet, stream' = Append(stream, p)
      PROVE  StreamBehind' /\ StreamNonDecreasing'
  <2>1. /\ Len(stream') = Len(stream) + 1 /\ Len(stream) \in Nat
        /\ stream'[Len(stream) + 1] = p
    BY <1>4, Prefix
  <2>2. p.gp \in Nat /\ granulepos <= p.gp /\ p.gp <= granulepos'
    BY <1>4 DEF Packet
  <2>3. ASSUME NEW i \in 1 .. Len(stream')
        PROVE  i \in 1 .. Len(stream) \/ i = Len(stream) + 1
    BY <2>1
  <2>4. StreamBehind'
    BY <1>1, <1>2, <2>1, <2>2, <2>3 DEF StreamBehind
  <2>5. ASSUME NEW i \in 2 .. Len(stream')
        PROVE  stream'[i - 1].gp <= stream'[i].gp
    <3>1. i - 1 \in 1 .. Len(stream)
      BY <2>1
    <3>2. CASE i \in 2 .. Len(stream)
      <4>1. i \in 1 .. Len(stream)
        BY <2>1, <3>2
      <4>2. stream'[i - 1] = stream[i - 1] /\ stream'[i] = stream[i]
        BY <1>2, <3>1, <4>1
      <4> QED BY <3>2, <4>2 DEF StreamNonDecreasing
    <3>3. CASE i = Len(stream) + 1
      BY <1>1, <1>2, <2>1, <2>2, <3>1, <3>3
    <3> QED BY <2>1, <3>2, <3>3
  <2> QED BY <2>4, <2>5 DEF StreamNonDecreasing
<1> QED BY <1>3, <1>4 DEF Grown

LEMMA IdsKept ==
  ASSUME TypeOK, TypeOK', Grown, IdsAreUsed, id <= id',
         \A p \in Packet :
           stream' = Append(stream, p) /\ p.op \in Carriers => p.id < id'
  PROVE  IdsAreUsed'
<1>1. id \in Nat /\ id' \in Nat
  BY DEF TypeOK
<1>2. \A i \in 1 .. Len(stream) :
        stream'[i] = stream[i] /\ stream[i].id \in Nat \cup {NoId}
  <2>1. \A i \in 1 .. Len(stream) : stream[i] \in Packet
    BY DEF TypeOK
  <2> QED BY <2>1, Prefix DEF Packet
<1>3. ASSUME NEW i \in 1 .. Len(stream'), stream'[i].op \in Carriers
      PROVE  stream'[i].id < id'
  <2>1. CASE i \in 1 .. Len(stream)
    BY <1>1, <1>2, <1>3, <2>1 DEF IdsAreUsed, NoId
  <2>2. CASE i \notin 1 .. Len(stream)
    <3>1. PICK p \in Packet : stream' = Append(stream, p)
      BY <2>2 DEF Grown
    <3>2. i = Len(stream) + 1 /\ stream'[i] = p
      BY <2>2, <3>1, Prefix
    <3> QED BY <1>3, <3>1, <3>2
  <2> QED BY <2>1, <2>2
<1> QED BY <1>3 DEF IdsAreUsed

(* What is saved after a step was saved before it and has perhaps been       *)
(* repeated since, or is the text packet the step made.                      *)
Carried(d) ==
  \E e \in timings :
    /\ e.data = d.data /\ e.id = d.id /\ e.start = d.start /\ e.end = d.end
    /\ e.repeat <= d.repeat
    /\ \A p \in Packet :
         stream' = Append(stream, p) /\ p.op \in Carriers /\ p.id = d.id
         => p.t <= d.repeat

Written(d) ==
  \E p \in Packet :
    /\ stream' = Append(stream, p)
    /\ p.op = "text" /\ p.id = id /\ p.t = d.repeat
    /\ d.id = id /\ p.start = d.start /\ p.end = d.end
    /\ p.clean = (d.data = "text")

LEMMA SavedKept ==
  ASSUME TypeOK, TypeOK', Grown, IdsAreUsed, SavedIsEmitted, id <= id',
         \A d \in timings' : d.data # "none" =>
           Carried(d) \/ (Written(d) /\ id < id')
  PROVE  SavedIsEmitted'
<1> DEFINE Saved(d) ==
      /\ d.id < id'
      /\ \E j \in 1 .. Len(stream') :
           /\ stream'[j].op = "text"
           /\ stream'[j].id = d.id /\ stream'[j].start = d.start
           /\ stream'[j].end = d.end /\ stream'[j].clean = (d.data = "text")
      /\ \A j \in 1 .. Len(stream') :
           stream'[j].op \in Carriers /\ stream'[j].id = d.id
           => stream'[j].t <= d.repeat
<1>1. /\ id \in Nat /\ id' \in Nat /\ Len(stream) \in Nat
      /\ \A i \in 1 .. Len(stream) :
           /\ i \in 1 .. Len(stream') /\ stream'[i] = stream[i]
           /\ stream[i] \in Packet /\ stream[i].t \in Nat
  <2>1. \A i \in 1 .. Len(stream) : stream[i] \in Packet
    BY DEF TypeOK
  <2>2. \A q \in Packet : q.t \in Nat
    BY ConstantsAssumption DEF Packet, Times
  <2> QED BY <2>1, <2>2, Prefix DEF TypeOK
<1>2. ASSUME NEW d \in timings', d.data # "none", Carried(d)
      PROVE  Saved(d)
  <2>1. PICK e \in timings :
          /\ e.data = d.data /\ e.id = d.id /\ e.start = d.start /\ e.end = d.end
          /\ e.repeat <= d.repeat
          /\ \A p \in Packet :
               stream' = Append(stream, p) /\ p.op \in Carriers /\ p.id = d.id
               => p.t <= d.repeat
    BY <1>2 DEF Carried
  <2>2. e.id < id /\ e.id \in Nat /\ e.repeat \in Nat /\ d.repeat \in Nat
    BY <1>2, <2>1, ConstantsAssumption DEF SavedIsEmitted, TypeOK, Timing, Times
  <2>3. d.id < id'
    BY <1>1, <2>1, <2>2
  <2>4. \E j \in 1 .. Len(stream) :
          /\ stream[j].op = "text"
          /\ stream[j].id = e.id /\ stream[j].start = e.start
          /\ stream[j].end = e.end /\ stream[j].clean = (e.data = "text")
    BY <1>2, <2>1 DEF SavedIsEmitted
  <2>5. \E j \in 1 .. Len(stream') :
          /\ stream'[j].op = "text"
          /\ stream'[j].id = d.id /\ stream'[j].start = d.start
          /\ stream'[j].end = d.end /\ stream'[j].clean = (d.data = "text")
    BY <1>1, <2>1, <2>4, Zenon
  <2>6. ASSUME NEW j \in 1 .. Len(stream'), stream'[j].op \in Carriers,
               stream'[j].id = d.id
        PROVE  stream'[j].t <= d.repeat
    <3>1. CASE j \in 1 .. Len(stream)
      <4>1. stream[j].t <= e.repeat
        BY <1>1, <1>2, <2>1, <2>6, <3>1 DEF SavedIsEmitted
      <4> QED BY <1>1, <2>1, <2>2, <3>1, <4>1
    <3>2. CASE j \notin 1 .. Len(stream)
      <4>1. PICK p \in Packet : stream' = Append(stream, p)
        BY <3>2 DEF Grown
      <4>2. j = Len(stream) + 1 /\ stream'[j] = p
        BY <3>2, <4>1, Prefix
      <4> QED BY <2>1, <2>6, <4>1, <4>2
    <3> QED BY <3>1, <3>2
  <2> QED BY <2>3, <2>5, <2>6
<1>3. ASSUME NEW d \in timings', d.data # "none", Written(d), id < id'
      PROVE  Saved(d)
  <2>1. PICK p \in Packet :
          /\ stream' = Append(stream, p)
          /\ p.op = "text" /\ p.id = id /\ p.t = d.repeat
          /\ d.id = id /\ p.start = d.start /\ p.end = d.end
          /\ p.clean = (d.data = "text")
    BY <1>3 DEF Written
  <2>2. /\ Len(stream) + 1 \in 1 .. Len(stream')
        /\ stream'[Len(stream) + 1] = p /\ Len(stream') = Len(stream) + 1
    BY <2>1, Prefix
  <2>3. \E j \in 1 .. Len(stream') :
          /\ stream'[j].op = "text"
          /\ stream'[j].id = d.id /\ stream'[j].start = d.start
          /\ stream'[j].end = d.end /\ stream'[j].clean = (d.data = "text")
    BY <2>1, <2>2, Zenon
  <2>4. ASSUME NEW j \in 1 .. Len(stream'), stream'[j].op \in Carriers,
               stream'[j].id = d.id
        PROVE  stream'[j].t <= d.repeat
    <3>1. CASE j \in 1 .. Len(stream)
      BY <1>1, <2>1, <2>4, <3>1 DEF IdsAreUsed
    <3>2. CASE j \notin 1 .. Len(stream)
      <4>1. j = Len(stream) + 1 /\ p.t \in Nat
        BY <2>2, <3>2, ConstantsAssumption DEF Packet, Times
      <4> QED BY <2>1, <2>2, <4>1
    <3> QED BY <3>1, <3>2
  <2> QED BY <1>3, <2>1, <2>3, <2>4
<1> QED BY <1>2, <1>3 DEF SavedIsEmitted

LEMMA RepeatsKept ==
  ASSUME TypeOK, Grown, RepeatsAreLive,
         \A p \in Packet :
           stream' = Append(stream, p) /\ p.op = "repeat" =>
             /\ \E j \in 1 .. Len(stream) :
                  stream[j].op = "text" /\ SameEvent(stream[j], p)
             /\ p.t < p.end
             /\ \A j \in 1 .. Len(stream) :
                  stream[j].op \in Carriers /\ stream[j].id = p.id
                  => stream[j].t < p.t
  PROVE  RepeatsAreLive'
<1> DEFINE Live(i) ==
      /\ \E j \in 1 .. i - 1 :
           stream'[j].op = "text" /\ SameEvent(stream'[j], stream'[i])
      /\ stream'[i].t < stream'[i].end
      /\ \A j \in 1 .. i - 1 :
           stream'[j].op \in Carriers /\ stream'[j].id = stream'[i].id
           => stream'[j].t < stream'[i].t
<1>1. ASSUME NEW i \in 1 .. Len(stream'), stream'[i].op = "repeat"
      PROVE  Live(i)
  <2>1. CASE i \in 1 .. Len(stream)
    <3>1. \A j \in 1 .. i - 1 : j \in 1 .. Len(stream) /\ stream'[j] = stream[j]
      BY <2>1, Prefix
    <3>2. stream'[i] = stream[i]
      BY <2>1, Prefix
    <3> QED BY <1>1, <2>1, <3>1, <3>2 DEF RepeatsAreLive
  <2>2. CASE i \notin 1 .. Len(stream)
    <3>1. PICK p \in Packet : stream' = Append(stream, p)
      BY <2>2 DEF Grown
    <3>2. i = Len(stream) + 1 /\ stream'[i] = p
      BY <2>2, <3>1, Prefix
    <3>3. 1 .. i - 1 = 1 .. Len(stream)
      BY <3>2, Prefix
    <3>4. \A j \in 1 .. Len(stream) : stream'[j] = stream[j]
      BY Prefix
    <3> QED BY <1>1, <3>1, <3>2, <3>3, <3>4
  <2> QED BY <2>1, <2>2
<1> QED BY <1>1 DEF RepeatsAreLive

(* A step that puts nothing in the stream, or a packet of no event.          *)
Plain ==
  /\ Grown
  /\ granulepos <= granulepos' /\ id <= id'
  /\ \A d \in timings' : d.data = "none" \/ d \in timings
  /\ \A p \in Packet : stream' = Append(stream, p) =>
       p.op \notin Carriers /\ p.gp = granulepos'

LEMMA PlainStep ==
  ASSUME AnyOrderInvariant, TypeOK', Plain
  PROVE  AnyOrderInvariant'
<1>1. TypeOK /\ granulepos \in Nat /\ granulepos' \in Nat
  BY DEF AnyOrderInvariant, TypeOK
<1>2. StreamBehind' /\ StreamNonDecreasing'
  BY <1>1, StreamKept DEF AnyOrderInvariant, Plain
<1>3. IdsAreUsed'
  BY <1>1, IdsKept DEF AnyOrderInvariant, Plain
<1>4. SavedIsEmitted'
  <2>1. ASSUME NEW d \in timings', d.data # "none"
        PROVE  Carried(d)
    <3>1. d \in timings /\ d.repeat \in Nat
      BY <1>1, <2>1, ConstantsAssumption DEF Plain, TypeOK, Timing, Times
    <3> QED BY <3>1 DEF Carried, Plain
  <2> QED BY <1>1, <2>1, SavedKept DEF AnyOrderInvariant, Plain
<1>5. SavedOnce'
  BY DEF AnyOrderInvariant, SavedOnce, Plain
<1>6. RepeatsAreLive'
  <2>1. \A p \in Packet : stream' = Append(stream, p) => p.op # "repeat"
    BY DEF Plain, Carriers
  <2> QED BY <1>1, <2>1, RepeatsKept DEF AnyOrderInvariant, Plain
<1> QED BY <1>2, <1>3, <1>4, <1>5, <1>6 DEF AnyOrderInvariant

(* A step that puts nothing in the stream.                                   *)
NothingAdded ==
  /\ stream' = stream
  /\ granulepos <= granulepos' /\ id <= id'
  /\ \A d \in timings' : d.data = "none" \/ d \in timings

LEMMA NothingAddedStep ==
  ASSUME AnyOrderInvariant, TypeOK', NothingAdded
  PROVE  AnyOrderInvariant'
<1>1. \A p : stream' # Append(stream, p)
  BY DEF AnyOrderInvariant, TypeOK, NothingAdded
<1>2. Plain
  BY <1>1 DEF Plain, NothingAdded, Grown
<1> QED BY <1>2, PlainStep

(* A step that puts a packet of no event in the stream.                      *)
LEMMA MarkerStep ==
  ASSUME AnyOrderInvariant, TypeOK',
         NEW p \in Packet, stream' = Append(stream, p),
         p.op \notin Carriers, p.gp = granulepos', granulepos <= granulepos',
         id' = id, \A d \in timings' : d.data = "none" \/ d \in timings
  PROVE  AnyOrderInvariant'
<1>1. TypeOK /\ Grown
  BY DEF AnyOrderInvariant, Grown
<1>2. \A q \in Packet : stream' = Append(stream, q) => q = p
  <2>1. \A q \in Packet : stream' = Append(stream, q) => stream'[Len(stream) + 1] = q
    BY <1>1, Prefix, Zenon
  <2> QED BY <2>1, Zenon
<1>3. id <= id'
  BY <1>1 DEF TypeOK
<1>4. Plain
  BY <1>1, <1>2, <1>3 DEF Plain
<1> QED BY <1>4, PlainStep

LEMMA Advances ==
  ASSUME TypeOK, NEW b, NEW t, Accepted(b, t), granulepos' = Granule(b, t - b)
  PROVE  granulepos <= granulepos'
<1>1. granulepos' >= granulepos
  BY DEF Accepted
<1> QED BY <1>1

LEMMA Same ==
  ASSUME TypeOK
  PROVE  /\ granulepos <= granulepos /\ id <= id
         /\ \A t : \A d \in Trimmed(timings, t) : d \in timings
         /\ \A t0, t1, s : NewTiming(t0, t1, s).data = s
         /\ \A t0, t1 : \A d \in WithNew(t0, t1) : d.data = "none" \/ d \in timings
BY DEF TypeOK, Trimmed, NewTiming, WithNew

LEMMA HeaderAnyOrder ==
  ASSUME AnyOrderInvariant, TypeOK', EncodeHeaders \/ EncodeHeadersFails
  PROVE  AnyOrderInvariant'
<1>1. TypeOK
  BY DEF AnyOrderInvariant
<1>2. CASE EncodeHeaders
  <2> DEFINE p == PacketOf("header", NoId, 0, 0, 0, granulepos, packetno + 1)
  <2>1. stream' = Append(stream, p) /\ UNCHANGED <<timings, id, granulepos>>
    BY <1>2 DEF EncodeHeaders, Emit
  <2>2. p \in Packet
    <3>1. 0 \in Times
      BY ConstantsAssumption DEF Times
    <3> QED BY <1>1, <3>1, PacketType DEF TypeOK, PacketOps, NoId
  <2>3. p.op \notin Carriers /\ p.gp = granulepos
    BY DEF PacketOf, Carriers
  <2> HIDE DEF p
  <2> QED BY <1>1, <2>1, <2>2, <2>3, MarkerStep, Same
<1>3. CASE EncodeHeadersFails
  BY <1>1, <1>3, NothingAddedStep, Same DEF EncodeHeadersFails, NothingAdded
<1> QED BY <1>2, <1>3

LEMMA TextAnyOrder ==
  ASSUME AnyOrderInvariant, TypeOK',
         NEW t0 \in Times, NEW t1 \in Times, TextStep(t0, t1)
  PROVE  AnyOrderInvariant'
<1>1. TypeOK /\ id \in Nat /\ id <= id + 1 /\ id < id + 1
  BY DEF AnyOrderInvariant, TypeOK
<1>2. CASE EncodeTextRejected(t0, t1) \/ EncodeTextNoSlot(t0, t1)
           \/ EncodeTextBadMotion(t0, t1)
  BY <1>1, <1>2, NothingAddedStep, Same
  DEF EncodeTextRejected, EncodeTextNoSlot, EncodeTextBadMotion, NothingAdded
<1>3. CASE EncodeTextNoPacket(t0, t1) \/ EncodeTextNotSaved(t0, t1)
  <2>1. granulepos <= granulepos'
    BY <1>1, <1>3, Advances DEF EncodeTextNoPacket, EncodeTextNotSaved
  <2> QED BY <1>1, <1>3, <2>1, NothingAddedStep, Same
          DEF EncodeTextNoPacket, EncodeTextNotSaved, NothingAdded
<1>4. CASE EncodeText(t0, t1)
  <2> DEFINE p == PacketOf("text", id, t0, t1, t0, granulepos', packetno + 1)
             n == NewTiming(t0, t1, SavedAs)
  <2>1. /\ stream' = Append(stream, p) /\ id' = id + 1
        /\ timings' = Trimmed(timings, t0) \cup {n}
    BY <1>4 DEF EncodeText, Emit
  <2>2. granulepos <= granulepos' /\ granulepos' \in Nat /\ granulepos' <= granulepos'
    <3>1. granulepos' \in Nat
      BY DEF TypeOK
    <3> QED BY <1>1, <1>4, <3>1, Advances DEF EncodeText
  <2>3. p \in Packet
    BY <1>1, <2>2, PacketType DEF TypeOK, PacketOps, NoId
  <2>4. SavedAs \in SavedData /\ ((SavedAs = "text") <=> (kpb = Empty))
    BY DEF SavedAs, SavedData, Empty
  <2>5. /\ n.data = SavedAs /\ n.id = id
        /\ n.start = t0 /\ n.repeat = t0 /\ n.end = t1
    BY DEF NewTiming
  <2>6. /\ p.op = "text" /\ p.id = id /\ p.t = t0 /\ p.start = t0 /\ p.end = t1
        /\ p.gp = granulepos'
    BY DEF PacketOf
  <2>7. p.clean = (n.data = "text")
    BY <2>4, <2>5, Zenon DEF PacketOf
  <2> HIDE DEF p, n
  <2>8. Grown /\ \A q \in Packet : stream' = Append(stream, q) => q = p
    BY <1>1, <2>1, <2>3, Prefix DEF Grown
  <2>9. StreamBehind' /\ StreamNonDecreasing'
    BY <1>1, <2>2, <2>6, <2>8, StreamKept DEF AnyOrderInvariant
  <2>10. IdsAreUsed'
    BY <1>1, <2>1, <2>6, <2>8, IdsKept DEF AnyOrderInvariant
  <2>11. \A d \in timings' : d \in timings \/ d = n
    BY <2>1 DEF Trimmed
  <2>12. SavedIsEmitted'
    <3>1. Written(n)
      BY <2>1, <2>3, <2>5, <2>6, <2>7, Zenon DEF Written
    <3>2. ASSUME NEW d \in timings, d.data # "none"
          PROVE  Carried(d)
      <4>1. d.id < id /\ d.id \in Nat /\ d.repeat \in Nat
        BY <1>1, <3>2, ConstantsAssumption
        DEF AnyOrderInvariant, SavedIsEmitted, TypeOK, Timing, Times
      <4> QED BY <1>1, <2>6, <2>8, <4>1 DEF Carried
    <3> QED BY <1>1, <2>1, <2>8, <2>11, <3>1, <3>2, SavedKept DEF AnyOrderInvariant
  <2>13. SavedOnce'
    <3>1. \A d \in timings : d.data # "none" => d.id # id
      BY <1>1 DEF AnyOrderInvariant, SavedIsEmitted, TypeOK, Timing
    <3> QED BY <2>5, <2>11, <3>1 DEF AnyOrderInvariant, SavedOnce
  <2>14. RepeatsAreLive'
    BY <1>1, <2>6, <2>8, RepeatsKept DEF AnyOrderInvariant
  <2> QED BY <2>9, <2>10, <2>12, <2>13, <2>14 DEF AnyOrderInvariant
<1> QED BY <1>2, <1>3, <1>4 DEF TextStep

LEMMA KeepaliveAnyOrder ==
  ASSUME AnyOrderInvariant, TypeOK', NEW t \in Times, KeepaliveStep(t)
  PROVE  AnyOrderInvariant'
<1>1. TypeOK
  BY DEF AnyOrderInvariant
<1>2. KeepaliveGranule(t) => granulepos <= granulepos'
  BY <1>1, Advances DEF KeepaliveGranule
<1>3. CASE KeepaliveRejected(t) \/ KeepaliveNoSlot(t) \/ KeepaliveNoPacket(t)
  BY <1>1, <1>2, <1>3, NothingAddedStep, Same
  DEF KeepaliveRejected, KeepaliveNoSlot, KeepaliveNoPacket, NothingAdded
<1>4. CASE EncodeKeepalive(t)
  <2> DEFINE p == PacketOf("keepalive", NoId, t, t, t, granulepos', packetno + 1)
  <2>1. /\ stream' = Append(stream, p) /\ id' = id
        /\ timings' = Trimmed(timings, t) \cup {NewTiming(t, t, "none")}
        /\ granulepos <= granulepos'
    BY <1>2, <1>4 DEF EncodeKeepalive, Emit
  <2>2. p \in Packet
    <3>1. granulepos' \in Nat
      BY DEF TypeOK
    <3> QED BY <1>1, <3>1, PacketType DEF TypeOK, PacketOps, NoId
  <2>3. p.op \notin Carriers /\ p.gp = granulepos'
    BY DEF PacketOf, Carriers
  <2> HIDE DEF p
  <2> QED BY <1>1, <2>1, <2>2, <2>3, MarkerStep, Same
<1> QED BY <1>3, <1>4 DEF KeepaliveStep

(* What is due was saved, and was last emitted before.                       *)
LEMMA DueIsSaved ==
  ASSUME TypeOK, NEW t \in Times, NEW threshold \in Thresholds,
         NEW d \in Due(Trimmed(timings, t), t, threshold)
  PROVE  /\ d \in timings /\ d \in Timing /\ d.data \in {"text", "polluted"}
         /\ t < d.end /\ d.repeat < t
<1>1. /\ d \in timings /\ d \in Timing /\ d.data \in {"text", "polluted"}
      /\ d.end > t
      /\ IF threshold = 0 THEN d.repeat < t ELSE d.repeat <= t - threshold
  BY DEF Due, Trimmed, TypeOK
<1>2. /\ t \in Nat /\ d.repeat \in Nat /\ d.end \in Nat /\ threshold \in Nat
  BY <1>1, ConstantsAssumption DEF Timing, Times
<1> QED BY <1>1, <1>2

(* The books after d is repeated at t, whether the packet is made or not.    *)
LEMMA RepeatedBooks ==
  ASSUME AnyOrderInvariant, TypeOK', Grown, id' = id,
         NEW t \in Times, NEW threshold \in Thresholds,
         NEW d \in Due(Trimmed(timings, t), t, threshold),
         timings' = Repeated(Trimmed(timings, t), d, t),
         \A p \in Packet :
           stream' = Append(stream, p) /\ p.op \in Carriers => p.id = d.id /\ p.t = t
  PROVE  SavedIsEmitted' /\ SavedOnce'
<1>1. TypeOK /\ id \in Nat /\ id <= id' /\ t \in Nat
  BY ConstantsAssumption DEF AnyOrderInvariant, TypeOK, Times
<1>2. /\ d \in timings /\ d \in Timing /\ d.data # "none"
      /\ t < d.end /\ d.repeat < t /\ d.repeat \in Nat
  BY <1>1, DueIsSaved, ConstantsAssumption DEF Timing, Times
<1>3. PICK n \in Timing : n = [d EXCEPT !.repeat = t]
  BY <1>2 DEF Timing
<1>4. /\ n.data = d.data /\ n.id = d.id
      /\ n.start = d.start /\ n.repeat = t /\ n.end = d.end
  BY <1>2, <1>3 DEF Timing
<1>5. \A e \in timings' : e = n \/ (e \in timings /\ e # d)
  BY <1>3 DEF Repeated, Trimmed
<1>6. Carried(n)
  BY <1>1, <1>2, <1>4 DEF Carried
<1>7. ASSUME NEW e \in timings, e # d, e.data # "none"
      PROVE  Carried(e) /\ e.id # d.id
  <2>1. e.id # d.id
    BY <1>2, <1>7 DEF AnyOrderInvariant, SavedOnce
  <2>2. e.repeat \in Nat
    BY <1>1, ConstantsAssumption DEF TypeOK, Timing, Times
  <2> QED BY <2>1, <2>2 DEF Carried
<1>8. SavedIsEmitted'
  BY <1>1, <1>5, <1>6, <1>7, SavedKept DEF AnyOrderInvariant
<1>9. SavedOnce'
  <2> SUFFICES ASSUME NEW e \in timings', NEW f \in timings',
                      e.data # "none", f.data # "none", e.id = f.id
               PROVE  e = f
    BY DEF SavedOnce
  <2>1. CASE e = n /\ f # n
    BY <1>4, <1>5, <1>7, <2>1
  <2>2. CASE e # n /\ f = n
    BY <1>4, <1>5, <1>7, <2>2
  <2>3. CASE e # n /\ f # n
    BY <1>5, <2>3 DEF AnyOrderInvariant, SavedOnce
  <2> QED BY <2>1, <2>2, <2>3
<1> QED BY <1>8, <1>9

LEMMA RepeatAnyOrder ==
  ASSUME AnyOrderInvariant, TypeOK',
         NEW t \in Times, NEW threshold \in Thresholds, RepeatStep(t, threshold)
  PROVE  AnyOrderInvariant'
<1>1. TypeOK /\ id <= id
  BY DEF AnyOrderInvariant, TypeOK
<1>2. CASE RepeatNothing(t, threshold)
  BY <1>1, <1>2, NothingAddedStep, Same DEF RepeatNothing, NothingAdded
<1>3. CASE RepeatNoMemory(t, threshold)
  <2>1. /\ stream' = stream /\ UNCHANGED <<id, granulepos>> /\ Grown
        /\ granulepos <= granulepos'
    BY <1>1, <1>3, Same DEF RepeatNoMemory, Grown
  <2>2. \A p : stream' # Append(stream, p)
    BY <1>1, <2>1 DEF TypeOK
  <2>3. SavedIsEmitted' /\ SavedOnce'
    BY <1>1, <1>3, <2>1, <2>2, RepeatedBooks DEF RepeatNoMemory
  <2>4. StreamBehind' /\ StreamNonDecreasing'
    BY <1>1, <2>1, <2>2, StreamKept DEF AnyOrderInvariant
  <2>5. IdsAreUsed'
    BY <1>1, <2>1, <2>2, IdsKept DEF AnyOrderInvariant
  <2>6. RepeatsAreLive'
    BY <1>1, <2>1, <2>2, RepeatsKept DEF AnyOrderInvariant
  <2> QED BY <2>3, <2>4, <2>5, <2>6 DEF AnyOrderInvariant
<1>4. CASE EncodeRepeat(t, threshold)
  <2>1. PICK d \in Due(Trimmed(timings, t), t, threshold) :
          /\ timings' = Repeated(Trimmed(timings, t), d, t)
          /\ stream' = Append(stream, RepeatOf(d, t, granulepos'))
    BY <1>4 DEF EncodeRepeat
  <2> DEFINE p == RepeatOf(d, t, granulepos')
  <2>2. /\ d \in timings /\ d \in Timing /\ d.data \in {"text", "polluted"}
        /\ t < d.end /\ d.repeat < t
    BY <1>1, DueIsSaved
  <2>3. granulepos <= granulepos' /\ granulepos' \in Nat
        /\ granulepos' <= granulepos' /\ id' = id
    <3>1. granulepos' \in Nat
      BY DEF TypeOK
    <3> QED BY <1>1, <1>4, <3>1, Advances DEF EncodeRepeat
  <2>4. /\ p \in Packet /\ p.op = "repeat" /\ p.id = d.id /\ p.t = t
        /\ p.start = d.start /\ p.end = d.end /\ p.gp = granulepos'
    BY <1>1, <2>2, <2>3 DEF RepeatOf, Timing, Packet, PacketOps, TypeOK
  <2>5. p.clean = (d.data = "text")
    BY Zenon DEF RepeatOf
  <2>6. stream' = Append(stream, p)
    BY <2>1
  <2> HIDE DEF p
  <2>7. Grown /\ \A q \in Packet : stream' = Append(stream, q) => q = p
    BY <1>1, <2>4, <2>6, Prefix DEF Grown
  <2>8. SavedIsEmitted' /\ SavedOnce'
    BY <2>1, <2>3, <2>4, <2>7, RepeatedBooks
  <2>9. StreamBehind' /\ StreamNonDecreasing'
    BY <1>1, <2>3, <2>4, <2>7, StreamKept DEF AnyOrderInvariant
  <2>10. d.data # "none" /\ d.id < id /\ id <= id'
    BY <1>1, <2>2, <2>3 DEF AnyOrderInvariant, SavedIsEmitted
  <2>11. IdsAreUsed'
    BY <1>1, <2>3, <2>4, <2>7, <2>10, IdsKept DEF AnyOrderInvariant
  <2>12. RepeatsAreLive'
    <3>1. \E j \in 1 .. Len(stream) :
            /\ stream[j].op = "text"
            /\ stream[j].id = d.id /\ stream[j].start = d.start
            /\ stream[j].end = d.end /\ stream[j].clean = (d.data = "text")
      BY <2>2, <2>10 DEF AnyOrderInvariant, SavedIsEmitted
    <3>2. \E j \in 1 .. Len(stream) :
            stream[j].op = "text" /\ SameEvent(stream[j], p)
      BY <2>4, <2>5, <3>1, Zenon DEF SameEvent
    <3>3. ASSUME NEW j \in 1 .. Len(stream),
                 stream[j].op \in Carriers, stream[j].id = d.id
          PROVE  stream[j].t < t
      <4>1. stream[j].t <= d.repeat
        BY <2>2, <2>10, <3>3 DEF AnyOrderInvariant, SavedIsEmitted
      <4>2. stream[j] \in Packet
        BY <1>1 DEF TypeOK
      <4>3. stream[j].t \in Nat /\ d.repeat \in Nat /\ t \in Nat
        BY <2>2, <4>2, ConstantsAssumption DEF Packet, Timing, Times
      <4> QED BY <2>2, <4>1, <4>3
    <3>4. p.t < p.end
      BY <2>2, <2>4
    <3> QED BY <1>1, <2>4, <2>7, <3>2, <3>3, <3>4, RepeatsKept DEF AnyOrderInvariant
  <2> QED BY <2>8, <2>9, <2>11, <2>12 DEF AnyOrderInvariant
<1> QED BY <1>2, <1>3, <1>4 DEF RepeatStep

LEMMA FinishAnyOrder ==
  ASSUME AnyOrderInvariant, TypeOK', NEW t \in Times \cup {-1}, FinishStep(t)
  PROVE  AnyOrderInvariant'
<1>1. TypeOK /\ granulepos \in Nat
  BY DEF AnyOrderInvariant, TypeOK
<1>2. CASE FinishRejected(t)
  BY <1>1, <1>2, NothingAddedStep, Same DEF FinishRejected, NothingAdded
<1>3. ASSUME NEW e \in Times, e * OffsetRange >= granulepos,
             granulepos' = e * OffsetRange
      PROVE  granulepos <= granulepos'
  BY <1>1, <1>3, EndGranule
<1>4. CASE FinishNoPacket(t)
  BY <1>1, <1>3, <1>4, NothingAddedStep, Same DEF FinishNoPacket, NothingAdded
<1>5. CASE EncodeFinish(t)
  <2>1. PICK e \in Times :
          /\ e * OffsetRange >= granulepos
          /\ granulepos' = e * OffsetRange
          /\ stream' = Append(stream,
               PacketOf("end", NoId, e, e, e, granulepos', packetno + 1))
    BY <1>5 DEF EncodeFinish, Emit
  <2> DEFINE p == PacketOf("end", NoId, e, e, e, granulepos', packetno + 1)
  <2>2. p \in Packet
    <3>1. granulepos' \in Nat
      BY DEF TypeOK
    <3> QED BY <1>1, <3>1, PacketType DEF TypeOK, PacketOps, NoId
  <2>3. p.op \notin Carriers /\ p.gp = granulepos' /\ stream' = Append(stream, p)
    BY <2>1 DEF PacketOf, Carriers
  <2> HIDE DEF p
  <2>4. granulepos <= granulepos' /\ id' = id /\ timings' = Trimmed(timings, t)
    BY <1>3, <1>5, <2>1 DEF EncodeFinish
  <2> QED BY <1>1, <2>2, <2>3, <2>4, MarkerStep, Same
<1> QED BY <1>2, <1>4, <1>5 DEF FinishStep

LEMMA AnyOrderInit == Init => AnyOrderInvariant
<1> SUFFICES ASSUME Init PROVE AnyOrderInvariant
  OBVIOUS
<1>1. TypeOK
  BY TypeInit
<1>2. timings = {} /\ stream = << >>
  BY Zenon DEF Init
<1>3. 1 .. Len(stream) = {} /\ 2 .. Len(stream) = {}
  BY <1>2
<1> QED BY <1>1, <1>2, <1>3
        DEF AnyOrderInvariant, StreamBehind, StreamNonDecreasing, IdsAreUsed,
            SavedIsEmitted, SavedOnce, RepeatsAreLive

LEMMA AnyOrderStep == AnyOrderInvariant /\ [Next]_vars => AnyOrderInvariant'
<1> SUFFICES ASSUME AnyOrderInvariant, [Next]_vars PROVE AnyOrderInvariant'
  OBVIOUS
<1>1. TypeOK /\ TypeOK'
  BY TypeStep DEF AnyOrderInvariant
<1>2. CASE EncodeHeaders \/ EncodeHeadersFails
  BY <1>1, <1>2, HeaderAnyOrder
<1>3. CASE \E t0, t1 \in Times : TextStep(t0, t1)
  BY <1>1, <1>3, TextAnyOrder
<1>4. CASE \E t \in Times : KeepaliveStep(t)
  BY <1>1, <1>4, KeepaliveAnyOrder
<1>5. CASE \E t \in Times, threshold \in Thresholds : RepeatStep(t, threshold)
  BY <1>1, <1>5, RepeatAnyOrder
<1>6. CASE \E t \in Times \cup {-1} : FinishStep(t)
  BY <1>1, <1>6, FinishAnyOrder
<1>7. CASE UNCHANGED vars
  <2>1. NothingAdded
    BY <1>1, <1>7, Same DEF vars, NothingAdded
  <2> QED BY <1>1, <2>1, NothingAddedStep
<1> QED BY <1>2, <1>3, <1>4, <1>5, <1>6, <1>7 DEF Next

(* Whatever the client asks for and whatever fails, a demultiplexer sees     *)
(* granule positions that never decrease.                                    *)
THEOREM GranulesNeverDecrease == Spec => []StreamNonDecreasing
<1>1. Init => AnyOrderInvariant
  BY AnyOrderInit
<1>2. AnyOrderInvariant /\ [Next]_vars => AnyOrderInvariant'
  BY AnyOrderStep
<1>3. AnyOrderInvariant => StreamNonDecreasing
  BY DEF AnyOrderInvariant
<1> QED BY <1>1, <1>2, <1>3, PTL DEF Spec

(* Every repeat is a copy of an event already in the stream, still active,   *)
(* and later than all its other packets, for any client and any failure.     *)
THEOREM RepeatsAreCopies == Spec => []RepeatsAreLive
<1>1. Init => AnyOrderInvariant
  BY AnyOrderInit
<1>2. AnyOrderInvariant /\ [Next]_vars => AnyOrderInvariant'
  BY AnyOrderStep
<1>3. AnyOrderInvariant => RepeatsAreLive
  BY DEF AnyOrderInvariant
<1> QED BY <1>1, <1>2, <1>3, PTL DEF Spec

-----------------------------------------------------------------------------
(* That a stream encoded in time order can be seeked in, and that no call of *)
(* such a client is refused: for every value of the constants, with every    *)
(* failure the model knows but that of the copy a repeat is made from.       *)

-----------------------------------------------------------------------------
(* Granule positions.                                                        *)

LEMMA PackedGranule ==
  ASSUME NEW b \in Times, NEW o \in Nat, o < OffsetRange
  PROVE  /\ Granule(b, o) = b * OffsetRange + o
         /\ BaseOf(Granule(b, o)) = b
         /\ OffsetOf(Granule(b, o)) = o
<1>0. b \in Nat /\ 0 \in Times
  BY ConstantsAssumption DEF Times
<1>1. o \div OffsetRange = 0 /\ o % OffsetRange = o
  BY SmallDivision
<1>2. BitOr(b, 0) = b
  BY <1>0, BitOrAssumption
<1>3. Granule(b, o) = b * OffsetRange + o
  BY <1>1, <1>2 DEF Granule
<1> QED BY <1>0, <1>3, DivisionUnique DEF BaseOf, OffsetOf

LEMMA SplitGranule ==
  ASSUME NEW gp \in Nat
  PROVE  /\ BaseOf(gp) \in Nat /\ OffsetOf(gp) \in Nat
         /\ OffsetOf(gp) < OffsetRange
         /\ gp = BaseOf(gp) * OffsetRange + OffsetOf(gp)
<1>1. gp = (gp \div OffsetRange) * OffsetRange + (gp % OffsetRange)
  BY ConstantsAssumption, SMTT(30)
<1> QED BY <1>1, Division DEF BaseOf, OffsetOf

(* A packet that is not earlier than the last granule position, and is based *)
(* at the same time or later, has a granule position that is not smaller.    *)
LEMMA NotBackwards ==
  ASSUME NEW gp \in Nat, NEW b \in Nat, NEW t \in Nat,
         BaseOf(gp) + OffsetOf(gp) <= t, BaseOf(gp) <= b, b <= t
  PROVE  gp <= b * OffsetRange + (t - b)
<1>1. CASE BaseOf(gp) = b
  BY <1>1, SplitGranule, ConstantsAssumption
<1>2. CASE BaseOf(gp) < b
  <2>1. BaseOf(gp) * OffsetRange + OffsetOf(gp) <= b * OffsetRange + (t - b)
    BY <1>2, SplitGranule, Less
  <2> QED BY <2>1, SplitGranule
<1> QED BY <1>1, <1>2, SplitGranule

-----------------------------------------------------------------------------
(* The base a call chooses.                                                  *)

(* A client that keeps the order and the lifetimes it promised, on a system  *)
(* that never runs out of memory for the copy of a repeat.                   *)
InOrderClient ==
  /\ "order" \in Promises
  /\ "lifetime" \in Promises
  /\ "repeat" \notin Faults

(* Events a packet at time t can be based on: each was last emitted in the   *)
(* past, not before the last base, and near enough for an offset to reach.   *)
Within(S, t) ==
  \A d \in S : /\ d.repeat \in Times /\ d.repeat <= t
              /\ t - d.repeat < OffsetRange
              /\ BaseOf(granulepos) <= d.repeat

LEMMA TrimmedWithin ==
  ASSUME InOrderInvariant, ~eos, NEW t \in Times, clock <= t
  PROVE  /\ Within(Trimmed(timings, t), t)
         /\ \A t1 \in Times : Within(WithNew(t, t1), t)
<1>0. Times \subseteq Nat /\ clock \in Times /\ OffsetRange \in Nat \ {0}
  BY ConstantsAssumption DEF Times, InOrderInvariant, TypeOK
<1>1. BaseOf(granulepos) \in Nat /\ OffsetOf(granulepos) \in Nat
  BY SplitGranule DEF InOrderInvariant, TypeOK
<1>2. ASSUME NEW d \in Trimmed(timings, t)
      PROVE  /\ d.repeat \in Times /\ d.repeat <= t
             /\ t - d.repeat < OffsetRange
             /\ BaseOf(granulepos) <= d.repeat
  <2>1. d \in timings /\ d \in Timing /\ t < d.end
    BY DEF Trimmed, InOrderInvariant, TypeOK
  <2>2. /\ d.start <= d.repeat /\ d.repeat <= clock
        /\ d.end <= d.start + OffsetRange
        /\ BaseOf(granulepos) <= d.repeat
    BY <2>1 DEF InOrderInvariant, TimingsOrdered, BaseBehind
  <2>3. d.repeat \in Times
    BY <2>1 DEF Timing
  <2>4. /\ d.start \in Nat /\ d.end \in Nat /\ d.repeat \in Nat
        /\ t \in Nat /\ clock \in Nat /\ OffsetRange \in Nat
    BY <1>0, <2>1 DEF Timing
  <2>5. d.repeat <= t /\ t - d.repeat < OffsetRange
    BY <2>1, <2>2, <2>4
  <2> QED BY <2>2, <2>3, <2>5
<1>3. BaseOf(granulepos) <= t
  BY <1>0, <1>1 DEF InOrderInvariant, BaseBehind
<1>4. t <= t /\ t - t < OffsetRange
  BY <1>0
<1>5. \A t1 \in Times : NewTiming(t, t1, "none").repeat = t
  BY DEF NewTiming
<1>6. Within(Trimmed(timings, t), t)
  BY <1>2 DEF Within
<1>7. ASSUME NEW t1 \in Times PROVE Within(WithNew(t, t1), t)
  <2>1. ASSUME NEW d \in WithNew(t, t1)
        PROVE  d \in Trimmed(timings, t) \/ d.repeat = t
    BY <1>5 DEF WithNew
  <2> QED BY <1>2, <1>3, <1>4, <2>1 DEF Within
<1> QED BY <1>6, <1>7

(* Any base such a packet may have is live, fits, and keeps granule          *)
(* positions from decreasing.                                                *)
LEMMA BaseFits ==
  ASSUME InOrderInvariant, ~eos, NEW t \in Times, clock <= t,
         NEW S, Within(S, t), NEW b \in Times, IsBase(S, t, b)
  PROVE  /\ b <= t /\ t - b \in Nat /\ t - b < OffsetRange
         /\ BaseOf(granulepos) <= b
         /\ \A d \in S : b <= d.repeat
<1>0. Times \subseteq Nat /\ clock \in Times /\ OffsetRange \in Nat \ {0}
  BY ConstantsAssumption DEF Times, InOrderInvariant, TypeOK
<1>1. BaseOf(granulepos) \in Nat /\ OffsetOf(granulepos) \in Nat
  BY SplitGranule DEF InOrderInvariant, TypeOK
<1>2. CASE S = {}
  BY <1>0, <1>1, <1>2 DEF IsBase, InOrderInvariant, BaseBehind
<1>3. CASE S # {}
  <2>1. (\E d \in S : d.repeat = b) /\ \A d \in S : b <= d.repeat
    BY <1>3 DEF IsBase, IsEarliest
  <2> QED BY <1>0, <2>1 DEF Within
<1> QED BY <1>2, <1>3

LEMMA BaseAccepted ==
  ASSUME InOrderInvariant, ~eos, NEW t \in Times, clock <= t,
         NEW b \in Times, b <= t, t - b < OffsetRange, BaseOf(granulepos) <= b
  PROVE  /\ Accepted(b, t)
         /\ BaseOf(Granule(b, t - b)) = b
         /\ OffsetOf(Granule(b, t - b)) = t - b
<1>0. b \in Nat /\ t \in Nat /\ t - b \in Nat /\ clock \in Nat /\ granulepos \in Nat
  BY ConstantsAssumption DEF Times, InOrderInvariant, TypeOK
<1>1. BaseOf(granulepos) + OffsetOf(granulepos) <= t
  BY <1>0, SplitGranule DEF InOrderInvariant, BaseBehind
<1>2. granulepos <= b * OffsetRange + (t - b)
  BY <1>0, <1>1, NotBackwards
<1> QED BY <1>0, <1>2, PackedGranule DEF Accepted

-----------------------------------------------------------------------------
(* What a step leaves of each part of the invariant.                         *)

(* The granule position a step leaves reaches back from t to no event that   *)
(* was last emitted before its base.                                         *)
Based(t) ==
  /\ BaseOf(granulepos') + OffsetOf(granulepos') <= t
  /\ BaseOf(granulepos') <= t
  /\ \A d \in Trimmed(timings, t) : BaseOf(granulepos') <= d.repeat

LEMMA SameBased ==
  ASSUME InOrderInvariant, ~eos, NEW t \in Times, clock <= t,
         granulepos' = granulepos
  PROVE  Based(t)
<1>0. t \in Nat /\ clock \in Nat
  BY ConstantsAssumption DEF Times, InOrderInvariant, TypeOK
<1>1. BaseOf(granulepos) \in Nat /\ OffsetOf(granulepos) \in Nat
  BY SplitGranule DEF InOrderInvariant, TypeOK
<1>2. /\ BaseOf(granulepos') = BaseOf(granulepos)
      /\ OffsetOf(granulepos') = OffsetOf(granulepos)
  BY DEF BaseOf, OffsetOf
<1>3. BaseOf(granulepos) + OffsetOf(granulepos) <= clock
  BY DEF InOrderInvariant, BaseBehind
<1>4. Within(Trimmed(timings, t), t)
  BY TrimmedWithin
<1> QED BY <1>0, <1>1, <1>2, <1>3, <1>4 DEF Based, Within

LEMMA NewBased ==
  ASSUME InOrderInvariant, ~eos, NEW t \in Times, clock <= t,
         NEW S, Trimmed(timings, t) \subseteq S, Within(S, t),
         NEW b \in Times, IsBase(S, t, b), granulepos' = Granule(b, t - b)
  PROVE  Based(t)
<1>0. b \in Nat /\ t \in Nat
  BY ConstantsAssumption DEF Times
<1>1. /\ b <= t /\ t - b \in Nat /\ t - b < OffsetRange
      /\ BaseOf(granulepos) <= b
      /\ \A d \in S : b <= d.repeat
  BY BaseFits
<1>2. BaseOf(granulepos') = b /\ OffsetOf(granulepos') = t - b
  BY <1>1, BaseAccepted DEF BaseOf, OffsetOf
<1> QED BY <1>0, <1>1, <1>2 DEF Based

LEMMA TextBased ==
  ASSUME InOrderInvariant, ~eos, NEW t \in Times, clock <= t, NEW t1 \in Times,
         NEW b \in Times, IsEarliest(WithNew(t, t1), b),
         granulepos' = Granule(b, t - b)
  PROVE  Based(t)
<1>1. Within(WithNew(t, t1), t)
  BY TrimmedWithin
<1>2. Trimmed(timings, t) \subseteq WithNew(t, t1) /\ WithNew(t, t1) # {}
  BY DEF WithNew
<1>3. IsBase(WithNew(t, t1), t, b)
  BY <1>2 DEF IsBase
<1> QED BY <1>1, <1>2, <1>3, NewBased

LEMMA OtherBased ==
  ASSUME InOrderInvariant, ~eos, NEW t \in Times, clock <= t, KeepaliveGranule(t)
  PROVE  Based(t)
BY TrimmedWithin, NewBased DEF KeepaliveGranule

LEMMA BooksKept ==
  ASSUME InOrderInvariant, NEW t \in Times, clock <= t, clock' = t, Based(t),
         \A d \in timings' :
           \/ d \in Trimmed(timings, t)
           \/ /\ d \in Timing /\ d.repeat = t /\ d.start <= t
              /\ d.start <= d.end /\ d.end <= d.start + OffsetRange
  PROVE  TimingsOrdered' /\ BaseBehind'
<1>0. t \in Nat /\ clock \in Nat /\ Times \subseteq Nat
  BY ConstantsAssumption DEF Times, InOrderInvariant, TypeOK
<1>1. ASSUME NEW d \in timings'
      PROVE  /\ d.start <= d.repeat /\ d.repeat <= t
             /\ d.start <= d.end /\ d.end <= d.start + OffsetRange
             /\ BaseOf(granulepos') <= d.repeat
  <2>1. CASE d \in Trimmed(timings, t)
    <3>1. d \in timings /\ d.repeat \in Nat
      BY <1>0, <2>1 DEF Trimmed, InOrderInvariant, TypeOK, Timing
    <3>2. /\ d.start <= d.repeat /\ d.repeat <= clock
          /\ d.start <= d.end /\ d.end <= d.start + OffsetRange
      BY <3>1 DEF InOrderInvariant, TimingsOrdered
    <3> QED BY <1>0, <2>1, <3>1, <3>2 DEF Based
  <2>2. CASE /\ d \in Timing /\ d.repeat = t /\ d.start <= t
             /\ d.start <= d.end /\ d.end <= d.start + OffsetRange
    BY <1>0, <2>2 DEF Based
  <2> QED BY <2>1, <2>2
<1>2. TimingsOrdered'
  BY <1>1 DEF TimingsOrdered
<1>3. BaseBehind'
  BY <1>1 DEF BaseBehind, Based, BaseOf, OffsetOf
<1> QED BY <1>2, <1>3

LEMMA EmittedKept ==
  ASSUME InOrderInvariant, Grown,
         \A d \in timings' : d.data # "none" =>
           \/ d \in timings
           \/ \E p \in Packet :
                /\ stream' = Append(stream, p)
                /\ p.op \in Carriers /\ p.id = d.id /\ p.t = d.repeat
                /\ p.clean = (d.data = "text")
  PROVE  RepeatTimeIsEmitted'
<1>1. SUFFICES ASSUME NEW d \in timings', d.data # "none"
      PROVE  \E k \in 1 .. Len(stream') :
               /\ stream'[k].op \in Carriers /\ stream'[k].id = d.id
               /\ stream'[k].t = d.repeat
               /\ stream'[k].clean = (d.data = "text")
  BY DEF RepeatTimeIsEmitted
<1>2. TypeOK
  BY DEF InOrderInvariant
<1>3. CASE d \in timings
  <2>1. PICK k \in 1 .. Len(stream) :
          /\ stream[k].op \in Carriers /\ stream[k].id = d.id
          /\ stream[k].t = d.repeat
          /\ stream[k].clean = (d.data = "text")
    BY <1>1, <1>3 DEF InOrderInvariant, RepeatTimeIsEmitted
  <2> QED BY <1>2, <2>1, Prefix, Zenon
<1>4. ASSUME NEW p \in Packet, stream' = Append(stream, p),
             p.op \in Carriers, p.id = d.id, p.t = d.repeat,
             p.clean = (d.data = "text")
      PROVE  \E k \in 1 .. Len(stream') :
               /\ stream'[k].op \in Carriers /\ stream'[k].id = d.id
               /\ stream'[k].t = d.repeat
               /\ stream'[k].clean = (d.data = "text")
  <2>1. /\ Len(stream) + 1 \in 1 .. Len(stream')
        /\ stream'[Len(stream) + 1] = p
    BY <1>2, <1>4, Prefix
  <2> QED BY <1>4, <2>1, Zenon
<1> QED BY <1>1, <1>3, <1>4, Zenon

LEMMA LiveKept ==
  ASSUME InOrderInvariant, Grown, clock' \in Times, clock <= clock',
         \A d \in timings : clock' < d.end =>
           \E e \in timings' : e.data = d.data /\ e.id = d.id /\ e.end = d.end,
         \A p \in Packet :
           stream' = Append(stream, p) /\ p.op = "text" /\ p.clean /\ clock' < p.end
           => \E d \in timings' : d.data = "text" /\ d.id = p.id /\ d.end = p.end
  PROVE  LiveEventsKept'
<1>1. SUFFICES ASSUME NEW j \in 1 .. Len(stream'),
                      stream'[j].op = "text", stream'[j].clean,
                      clock' < stream'[j].end
      PROVE  \E d \in timings' : /\ d.data = "text" /\ d.id = stream'[j].id
                                /\ d.end = stream'[j].end
  BY DEF LiveEventsKept
<1>2. TypeOK
  BY DEF InOrderInvariant
<1>3. CASE j \in 1 .. Len(stream)
  <2>1. stream'[j] = stream[j] /\ stream[j] \in Packet
    BY <1>2, <1>3, Prefix DEF TypeOK
  <2>2. clock \in Nat /\ clock' \in Nat /\ stream[j].end \in Nat
    BY <1>2, <2>1, ConstantsAssumption DEF TypeOK, Times, Packet
  <2>3. clock < stream[j].end
    BY <1>1, <2>1, <2>2
  <2>4. PICK d \in timings : /\ d.data = "text" /\ d.id = stream[j].id
                             /\ d.end = stream[j].end
    BY <1>1, <1>3, <2>1, <2>3 DEF InOrderInvariant, LiveEventsKept
  <2>5. clock' < d.end
    BY <1>1, <2>1, <2>4
  <2>6. PICK e \in timings' : e.data = d.data /\ e.id = d.id /\ e.end = d.end
    BY <2>5
  <2> QED BY <2>1, <2>4, <2>6
<1>4. CASE j \notin 1 .. Len(stream)
  <2>1. PICK p \in Packet : stream' = Append(stream, p)
    BY <1>4 DEF Grown
  <2>2. j = Len(stream) + 1 /\ stream'[j] = p
    BY <1>2, <1>4, <2>1, Prefix
  <2> QED BY <1>1, <2>1, <2>2
<1> QED BY <1>3, <1>4

LEMMA CoveredKept ==
  ASSUME InOrderInvariant, Grown,
         \A p \in Packet :
           stream' = Append(stream, p) /\ p.op \in DataOps =>
             /\ clock <= p.t /\ BaseOf(p.gp) <= p.t
             /\ \A d \in Trimmed(timings, p.t) : BaseOf(p.gp) <= d.repeat
  PROVE  SeekCovers'
<1> DEFINE Covered(i, j) ==
      \E k \in 1 .. i :
        /\ stream'[k].op \in Carriers /\ stream'[k].clean
        /\ stream'[k].id = stream'[j].id
        /\ BaseOf(stream'[i].gp) <= stream'[k].t
<1>1. SUFFICES ASSUME NEW i \in 1 .. Len(stream'), stream'[i].op \in DataOps,
                      NEW j \in 1 .. i,
                      stream'[j].op = "text", stream'[j].clean,
                      stream'[j].start <= stream'[i].t,
                      stream'[i].t < stream'[j].end
      PROVE  Covered(i, j)
  BY DEF SeekCovers, BaseOf
<1>2. TypeOK
  BY DEF InOrderInvariant
<1>3. CASE i \in 1 .. Len(stream)
  <2>1. \A k \in 1 .. i : k \in 1 .. Len(stream) /\ stream'[k] = stream[k]
    BY <1>2, <1>3, Prefix
  <2>2. i \in 1 .. i
    BY <1>3
  <2>3. \E k \in 1 .. i :
          /\ stream[k].op \in Carriers /\ stream[k].clean
          /\ stream[k].id = stream[j].id
          /\ BaseOf(stream[i].gp) <= stream[k].t
    BY <1>1, <1>3, <2>1, <2>2 DEF InOrderInvariant, SeekCovers
  <2> QED BY <2>1, <2>2, <2>3
<1>4. CASE i \notin 1 .. Len(stream)
  <2>1. PICK p \in Packet : stream' = Append(stream, p)
    BY <1>4 DEF Grown
  <2>2. i = Len(stream) + 1 /\ stream'[i] = p
    BY <1>2, <1>4, <2>1, Prefix
  <2>3. /\ clock <= p.t /\ BaseOf(p.gp) <= p.t
        /\ \A d \in Trimmed(timings, p.t) : BaseOf(p.gp) <= d.repeat
    BY <1>1, <2>1, <2>2
  <2>4. CASE j = i
    BY <1>1, <2>2, <2>3, <2>4 DEF Carriers
  <2>5. CASE j # i
    <3>1. j \in 1 .. Len(stream) /\ stream'[j] = stream[j] /\ stream[j] \in Packet
      BY <1>2, <2>2, <2>5, Prefix DEF TypeOK
    <3>2. clock \in Nat /\ p.t \in Nat /\ stream[j].end \in Nat
      <4>1. p.t \in Times /\ stream[j].end \in Times
        BY <3>1 DEF Packet
      <4> QED BY <1>2, <4>1, ConstantsAssumption DEF TypeOK, Times
    <3>3. clock < stream[j].end /\ p.t < stream[j].end
      BY <1>1, <2>2, <2>3, <3>1, <3>2
    <3>4. PICK d \in timings : /\ d.data = "text" /\ d.id = stream[j].id
                               /\ d.end = stream[j].end
      BY <1>1, <3>1, <3>3 DEF InOrderInvariant, LiveEventsKept
    <3>5. BaseOf(p.gp) <= d.repeat
      BY <2>3, <3>3, <3>4, <3>2 DEF Trimmed
    <3>6. PICK k \in 1 .. Len(stream) :
            /\ stream[k].op \in Carriers /\ stream[k].id = d.id
            /\ stream[k].t = d.repeat
            /\ stream[k].clean = (d.data = "text")
      BY <3>4 DEF InOrderInvariant, RepeatTimeIsEmitted
    <3>7. k \in 1 .. i /\ stream'[k] = stream[k]
      BY <1>2, <2>2, <3>6, Prefix
    <3>8. stream'[k].op \in Carriers /\ stream'[k].clean
      BY <3>4, <3>6, <3>7, Zenon
    <3>9. stream'[k].id = stream'[j].id /\ BaseOf(stream'[i].gp) <= stream'[k].t
      BY <2>2, <3>1, <3>4, <3>5, <3>6, <3>7
    <3> QED BY <3>7, <3>8, <3>9, Zenon
  <2> QED BY <2>4, <2>5
<1> QED BY <1>3, <1>4

-----------------------------------------------------------------------------
(* The steps.                                                                *)

(* A call at time t that is let in and puts nothing in the stream.           *)
Quiet(t) ==
  /\ ~eos /\ clock <= t /\ clock' = t
  /\ stream' = stream
  /\ Based(t)
  /\ Trimmed(timings, t) \subseteq timings'
  /\ \A d \in timings' :
       \/ d \in Trimmed(timings, t)
       \/ /\ d \in Timing /\ d.data = "none" /\ d.start = t /\ d.repeat = t
          /\ t <= d.end /\ d.end <= t + OffsetRange

LEMMA QuietStep ==
  ASSUME InOrderInvariant, TypeOK', NEW t \in Times, Quiet(t)
  PROVE  InOrderInvariant'
<1>0. t \in Nat /\ clock \in Nat
  BY ConstantsAssumption DEF Times, InOrderInvariant, TypeOK
<1>1. Grown
  BY DEF Grown, Quiet
<1>2. TimingsOrdered' /\ BaseBehind'
  BY <1>0, BooksKept DEF Quiet
<1>3. RepeatTimeIsEmitted'
  BY <1>1, EmittedKept DEF Quiet, Trimmed
<1>4. \A p : stream' # Append(stream, p)
  BY DEF Quiet, InOrderInvariant, TypeOK
<1>5. LiveEventsKept'
  BY <1>0, <1>1, <1>4, LiveKept DEF Quiet, Trimmed, Times, TypeOK
<1>6. SeekCovers'
  BY <1>1, <1>4, CoveredKept
<1> QED BY <1>2, <1>3, <1>5, <1>6 DEF InOrderInvariant

LEMMA Clocked ==
  ASSUME InOrderInvariant, InOrderClient, NEW t \in Times, Call(t)
  PROVE  ~eos /\ clock <= t /\ clock' = t
BY ConstantsAssumption DEF InOrderInvariant, InOrderClient, Call, TypeOK, Times

(* Each call keeps the invariant, whoever makes it, if it does not go back in*)
(* time.                                                                     *)
LEMMA OnTime ==
  ASSUME InOrderInvariant, NEW t \in Times, clock <= t, Call(t)
  PROVE  ~eos /\ clock' = t
BY ConstantsAssumption DEF InOrderInvariant, Call, TypeOK, Times

LEMMA TextInOrder ==
  ASSUME InOrderInvariant, TypeOK', NEW t0 \in Times, NEW t1 \in Times,
         clock <= t0, t1 <= t0 + OffsetRange, TextStep(t0, t1)
  PROVE  InOrderInvariant'
<1>0. t0 \in Nat /\ t1 \in Nat /\ OffsetRange \in Nat
  BY ConstantsAssumption DEF Times
<1>1. TextCall(t0, t1)
  BY DEF TextStep, EncodeTextRejected, EncodeTextNoSlot, EncodeTextBadMotion,
         EncodeTextNoPacket, EncodeTextNotSaved, EncodeText
<1>2. ~eos /\ clock <= t0 /\ clock' = t0
  BY <1>1, OnTime DEF TextCall
<1>3. t0 <= t1 /\ t1 <= t0 + OffsetRange
  BY <1>1 DEF TextCall
<1>4. \A s \in SavedData :
        LET d == NewTiming(t0, t1, s)
        IN  /\ d \in Timing /\ d.data = s /\ d.id = id
            /\ d.start = t0 /\ d.repeat = t0 /\ d.end = t1
  BY NewTimingType DEF InOrderInvariant, NewTiming
<1>5. "none" \in SavedData
  BY DEF SavedData
<1>6. CASE EncodeTextNoSlot(t0, t1)
  <2>1. Based(t0)
    BY <1>2, <1>6, SameBased DEF EncodeTextNoSlot
  <2>2. Quiet(t0)
    BY <1>2, <1>6, <2>1 DEF EncodeTextNoSlot, Quiet
  <2> QED BY <2>2, QuietStep
<1>7. ASSUME timings' = WithNew(t0, t1), stream' = stream, Based(t0)
      PROVE  InOrderInvariant'
  <2>1. Quiet(t0)
    BY <1>2, <1>3, <1>4, <1>5, <1>7 DEF Quiet, WithNew
  <2> QED BY <2>1, QuietStep
<1>8. CASE EncodeTextRejected(t0, t1) \/ EncodeTextBadMotion(t0, t1)
  BY <1>2, <1>7, <1>8, SameBased DEF EncodeTextRejected, EncodeTextBadMotion
<1>9. CASE EncodeTextNoPacket(t0, t1) \/ EncodeTextNotSaved(t0, t1)
  BY <1>2, <1>7, <1>9, TextBased DEF EncodeTextNoPacket, EncodeTextNotSaved
<1>10. CASE EncodeText(t0, t1)
  <2> DEFINE p == PacketOf("text", id, t0, t1, t0, granulepos', packetno + 1)
             n == NewTiming(t0, t1, SavedAs)
  <2>1. Based(t0)
    BY <1>2, <1>10, TextBased DEF EncodeText
  <2>2. stream' = Append(stream, p) /\ timings' = Trimmed(timings, t0) \cup {n}
    BY <1>10 DEF EncodeText, Emit
  <2>3. p \in Packet
    <3>1. granulepos' \in Nat
      BY DEF TypeOK
    <3> QED BY <3>1, PacketType DEF InOrderInvariant, TypeOK, PacketOps, NoId
  <2>4. SavedAs \in SavedData /\ ((SavedAs = "text") <=> (kpb = Empty))
    BY DEF SavedAs, SavedData, Empty
  <2>5. /\ n \in Timing /\ n.data = SavedAs /\ n.id = id
        /\ n.start = t0 /\ n.repeat = t0 /\ n.end = t1
    BY <1>4, <2>4
  <2>6. /\ p.op = "text" /\ p.id = id /\ p.t = t0 /\ p.end = t1
        /\ p.gp = granulepos'
    BY DEF PacketOf
  <2>7. p.clean = (n.data = "text")
    BY <2>4, <2>5, Zenon DEF PacketOf
  <2>8. Grown
    BY <2>2, <2>3 DEF Grown
  <2>9. TimingsOrdered' /\ BaseBehind'
    BY <1>0, <1>2, <1>3, <2>1, <2>2, <2>5, BooksKept
  <2>10. RepeatTimeIsEmitted'
    <3>1. \A d \in timings' : d \in timings \/ d = n
      BY <2>2 DEF Trimmed
    <3>2. p.op \in Carriers /\ p.id = n.id /\ p.t = n.repeat
      BY <2>5, <2>6 DEF Carriers
    <3> HIDE DEF p, n
    <3> QED BY <2>2, <2>3, <2>7, <2>8, <3>1, <3>2, EmittedKept, Zenon
  <2>11. \A q : stream' = Append(stream, q) => q = p
    BY <2>2, <2>8, Prefix DEF InOrderInvariant
  <2>12. LiveEventsKept'
    <3>1. clock' \in Times /\ clock <= clock'
      BY <1>2
    <3>2. \A d \in timings : clock' < d.end => d \in timings'
      BY <1>2, <2>2 DEF Trimmed
    <3>3. p.clean => n.data = "text" /\ n.id = p.id /\ n.end = p.end
      BY <2>5, <2>6, <2>7
    <3> HIDE DEF p, n
    <3> QED BY <2>2, <2>8, <2>11, <3>1, <3>2, <3>3, LiveKept
  <2>13. SeekCovers'
    <3> HIDE DEF p
    <3> QED BY <1>2, <2>1, <2>6, <2>8, <2>11, CoveredKept DEF Based
  <2> QED BY <2>9, <2>10, <2>12, <2>13 DEF InOrderInvariant
<1> QED BY <1>6, <1>8, <1>9, <1>10 DEF TextStep

LEMMA KeepaliveInOrder ==
  ASSUME InOrderInvariant, TypeOK', NEW t \in Times, clock <= t, KeepaliveStep(t)
  PROVE  InOrderInvariant'
<1>0. t \in Nat /\ OffsetRange \in Nat /\ t <= t + OffsetRange
  BY ConstantsAssumption DEF Times
<1>1. Call(t)
  BY DEF KeepaliveStep, KeepaliveRejected, KeepaliveNoSlot, KeepaliveNoPacket,
         EncodeKeepalive
<1>2. ~eos /\ clock <= t /\ clock' = t
  BY <1>1, OnTime
<1> DEFINE n == NewTiming(t, t, "none")
<1>3. /\ n \in Timing /\ n.data = "none"
      /\ n.start = t /\ n.repeat = t /\ n.end = t
  BY NewTimingType DEF InOrderInvariant, NewTiming, SavedData
<1>4. CASE KeepaliveRejected(t)
  <2>1. Quiet(t)
    BY <1>2, <1>4, SameBased DEF KeepaliveRejected, Quiet
  <2> QED BY <2>1, QuietStep
<1>5. CASE KeepaliveNoSlot(t)
  <2>1. Quiet(t)
    BY <1>2, <1>5, OtherBased DEF KeepaliveNoSlot, Quiet
  <2> QED BY <2>1, QuietStep
<1>6. CASE KeepaliveNoPacket(t)
  <2>1. Quiet(t)
    BY <1>0, <1>2, <1>3, <1>6, OtherBased DEF KeepaliveNoPacket, Quiet
  <2> QED BY <2>1, QuietStep
<1>7. CASE EncodeKeepalive(t)
  <2> DEFINE p == PacketOf("keepalive", NoId, t, t, t, granulepos', packetno + 1)
  <2>1. Based(t)
    BY <1>2, <1>7, OtherBased DEF EncodeKeepalive
  <2>2. stream' = Append(stream, p) /\ timings' = Trimmed(timings, t) \cup {n}
    BY <1>7 DEF EncodeKeepalive, Emit
  <2>3. p \in Packet
    <3>1. granulepos' \in Nat
      BY DEF TypeOK
    <3> QED BY <3>1, PacketType DEF InOrderInvariant, TypeOK, PacketOps, NoId
  <2>4. p.op = "keepalive" /\ p.t = t /\ p.gp = granulepos'
    BY DEF PacketOf
  <2>5. Grown
    BY <2>2, <2>3 DEF Grown
  <2>6. \A q : stream' = Append(stream, q) => q = p
    BY <2>2, <2>5, Prefix DEF InOrderInvariant
  <2> HIDE DEF n, p
  <2>7. TimingsOrdered' /\ BaseBehind'
    BY <1>0, <1>2, <1>3, <2>1, <2>2, BooksKept
  <2>8. RepeatTimeIsEmitted'
    BY <1>3, <2>2, <2>5, EmittedKept DEF Trimmed
  <2>9. LiveEventsKept'
    BY <1>2, <2>2, <2>4, <2>5, <2>6, LiveKept DEF Trimmed
  <2>10. SeekCovers'
    BY <1>2, <2>1, <2>4, <2>5, <2>6, CoveredKept DEF Based
  <2> QED BY <2>7, <2>8, <2>9, <2>10 DEF InOrderInvariant
<1> QED BY <1>4, <1>5, <1>6, <1>7 DEF KeepaliveStep

LEMMA RepeatInOrder ==
  ASSUME InOrderInvariant, TypeOK', NEW t \in Times, clock <= t,
         NEW threshold \in Thresholds, RepeatStep(t, threshold),
         ~RepeatNoMemory(t, threshold)
  PROVE  InOrderInvariant'
<1>0. t \in Nat /\ clock \in Nat /\ OffsetRange \in Nat
  BY ConstantsAssumption DEF InOrderInvariant, TypeOK, Times
<1>1. Call(t)
  BY DEF RepeatStep, RepeatNothing, RepeatNoMemory, EncodeRepeat
<1>2. ~eos /\ clock <= t /\ clock' = t
  BY <1>1, OnTime
<1>3. CASE RepeatNothing(t, threshold)
  <2>1. Quiet(t)
    BY <1>2, <1>3, SameBased DEF RepeatNothing, Quiet
  <2> QED BY <2>1, QuietStep
<1>4. CASE EncodeRepeat(t, threshold)
  <2>1. Based(t)
    BY <1>2, <1>4, OtherBased DEF EncodeRepeat, KeepaliveGranule
  <2>2. PICK d \in Due(Trimmed(timings, t), t, threshold) :
          /\ timings' = Repeated(Trimmed(timings, t), d, t)
          /\ stream' = Append(stream, RepeatOf(d, t, granulepos'))
    BY <1>4 DEF EncodeRepeat
  <2>3. d \in timings /\ d \in Timing /\ t < d.end
    BY DEF Due, Trimmed, InOrderInvariant, TypeOK
  <2> DEFINE p == RepeatOf(d, t, granulepos')
             n == [d EXCEPT !.repeat = t]
  <2>4. /\ n \in Timing /\ n.data = d.data /\ n.id = d.id
        /\ n.start = d.start /\ n.repeat = t /\ n.end = d.end
    BY <2>3 DEF Timing
  <2>5. /\ \A e \in timings' : e \in Trimmed(timings, t) \/ e = n
        /\ n \in timings'
        /\ \A e \in Trimmed(timings, t) : e \in timings' \/ e = d
    BY <2>2 DEF Repeated
  <2>6. p \in Packet /\ p.op = "repeat" /\ p.id = d.id /\ p.t = t
        /\ p.gp = granulepos'
    <3>1. granulepos' \in Nat
      BY DEF TypeOK
    <3> QED BY <2>3, <3>1
            DEF RepeatOf, Timing, Packet, PacketOps, InOrderInvariant, TypeOK
  <2>7. p.clean = (n.data = "text")
    BY <2>4, Zenon DEF RepeatOf
  <2>8. stream' = Append(stream, p)
    BY <2>2
  <2>9. Grown
    BY <2>6, <2>8 DEF Grown
  <2> HIDE DEF n, p
  <2>10. \A q : stream' = Append(stream, q) => q = p
    <3>1. TypeOK
      BY DEF InOrderInvariant
    <3>2. stream'[Len(stream) + 1] = p
      BY <2>8, <2>9, <3>1, Prefix
    <3> QED BY <2>9, <3>1, <3>2, Prefix
  <2>11. TimingsOrdered' /\ BaseBehind'
    <3>1. /\ d.start <= d.repeat /\ d.repeat <= clock
          /\ d.start <= d.end /\ d.end <= d.start + OffsetRange
      BY <2>3 DEF InOrderInvariant, TimingsOrdered
    <3>2. d.start \in Nat /\ d.repeat \in Nat
      BY <2>3, ConstantsAssumption DEF Timing, Times
    <3>3. n.start <= t
      BY <1>0, <1>2, <2>4, <3>1, <3>2
    <3> QED BY <1>2, <2>1, <2>4, <2>5, <3>1, <3>3, BooksKept
  <2>12. RepeatTimeIsEmitted'
    <3>1. p.op \in Carriers /\ p.id = n.id /\ p.t = n.repeat
      BY <2>4, <2>6 DEF Carriers
    <3>2. \A e \in timings' : e \in timings \/ e = n
      BY <2>5 DEF Trimmed
    <3> QED BY <2>6, <2>7, <2>8, <2>9, <3>1, <3>2, EmittedKept, Zenon
  <2>13. LiveEventsKept'
    <3>1. \A e \in timings : clock' < e.end =>
            \E f \in timings' : f.data = e.data /\ f.id = e.id /\ f.end = e.end
      BY <1>2, <2>4, <2>5 DEF Trimmed
    <3> QED BY <1>2, <2>6, <2>9, <2>10, <3>1, LiveKept
  <2>14. SeekCovers'
    BY <1>2, <2>1, <2>6, <2>9, <2>10, CoveredKept DEF Based
  <2> QED BY <2>11, <2>12, <2>13, <2>14 DEF InOrderInvariant
<1> QED BY <1>3, <1>4 DEF RepeatStep

LEMMA FinishInOrder ==
  ASSUME InOrderInvariant, TypeOK', NEW t \in Times \cup {-1},
         t < 0 \/ clock <= t, FinishStep(t)
  PROVE  InOrderInvariant'
<1>0. clock \in Nat /\ OffsetRange \in Nat /\ Times \subseteq Nat
  BY ConstantsAssumption DEF InOrderInvariant, TypeOK, Times
<1>1. FinishCall(t)
  BY DEF FinishStep, FinishRejected, FinishNoPacket, EncodeFinish
<1>2. /\ ~eos /\ clock' \in Times /\ clock <= clock'
      /\ t \in Times => clock <= t /\ clock' = t
      /\ t = -1 => clock' = clock
  BY <1>0, <1>1 DEF FinishCall, TypeOK
<1>3. timings' = Trimmed(timings, t)
  BY DEF FinishStep, FinishRejected, FinishNoPacket, EncodeFinish
<1>4. \A d \in timings : clock' < d.end => d \in timings'
  <2>1. \A d \in timings : d.end \in Nat
    BY <1>0 DEF InOrderInvariant, TypeOK, Timing
  <2> QED BY <1>0, <1>2, <1>3, <2>1 DEF Trimmed
<1>5. CASE FinishRejected(t)
  <2>1. CASE t \in Times
    <3>1. Quiet(t)
      BY <1>2, <1>3, <1>5, <2>1, SameBased DEF FinishRejected, Quiet
    <3> QED BY <2>1, <3>1, QuietStep
  <2>2. CASE t = -1
    <3>1. timings' = timings
      <4>1. \A d \in timings : d.end \in Nat
        BY <1>0 DEF InOrderInvariant, TypeOK, Timing
      <4>2. \A d \in timings : d.end > -1
        BY <4>1
      <4> QED BY <1>3, <2>2, <4>2, Zenon DEF Trimmed
    <3>2. UNCHANGED <<timings, stream, clock, granulepos, eos>>
      BY <1>2, <1>5, <2>2, <3>1 DEF FinishRejected
    <3>3. TimingsOrdered' /\ BaseBehind'
      BY <3>2 DEF InOrderInvariant, TimingsOrdered, BaseBehind, BaseOf, OffsetOf
    <3>4. RepeatTimeIsEmitted' /\ LiveEventsKept'
      BY <3>2 DEF InOrderInvariant, RepeatTimeIsEmitted, LiveEventsKept
    <3>5. SeekCovers'
      BY <3>2 DEF InOrderInvariant, SeekCovers, BaseOf
    <3> QED BY <3>3, <3>4, <3>5 DEF InOrderInvariant
  <2> QED BY <2>1, <2>2
<1>6. CASE FinishNoPacket(t) \/ EncodeFinish(t)
  <2>1. eos'
    BY <1>6 DEF FinishNoPacket, EncodeFinish
  <2>2. \/ stream' = stream
        \/ \E p \in Packet : stream' = Append(stream, p) /\ p.op = "end"
    <3>1. CASE FinishNoPacket(t)
      BY <3>1 DEF FinishNoPacket
    <3>2. CASE EncodeFinish(t)
      <4>1. PICK e \in Times : stream' = Append(stream,
              PacketOf("end", NoId, e, e, e, granulepos', packetno + 1))
        BY <3>2 DEF EncodeFinish, Emit
      <4>2. granulepos' \in Nat
        BY DEF TypeOK
      <4>3. PacketOf("end", NoId, e, e, e, granulepos', packetno + 1) \in Packet
        BY <4>2, PacketType DEF InOrderInvariant, TypeOK, PacketOps, NoId
      <4> QED BY <4>1, <4>3 DEF PacketOf
    <3> QED BY <1>6, <3>1, <3>2
  <2>3. Grown
    BY <2>2 DEF Grown
  <2>4. \A q \in Packet : stream' = Append(stream, q) => q.op = "end"
    BY <2>2, <2>3, Prefix DEF InOrderInvariant
  <2>5. TimingsOrdered'
    <3>1. ASSUME NEW d \in timings'
          PROVE  d \in timings /\ d.repeat \in Nat
      BY <1>0, <1>3 DEF Trimmed, InOrderInvariant, TypeOK, Timing
    <3> QED BY <1>0, <1>2, <3>1 DEF InOrderInvariant, TimingsOrdered
  <2>6. BaseBehind'
    BY <2>1 DEF BaseBehind
  <2>7. RepeatTimeIsEmitted'
    BY <1>3, <2>3, EmittedKept DEF Trimmed
  <2>8. LiveEventsKept'
    BY <1>2, <1>4, <2>3, <2>4, LiveKept
  <2>9. SeekCovers'
    BY <2>3, <2>4, CoveredKept DEF DataOps
  <2> QED BY <2>5, <2>6, <2>7, <2>8, <2>9 DEF InOrderInvariant
<1> QED BY <1>5, <1>6 DEF FinishStep

LEMMA HeadersInOrder ==
  ASSUME InOrderInvariant, TypeOK', EncodeHeaders \/ EncodeHeadersFails
  PROVE  InOrderInvariant'
<1>1. /\ UNCHANGED <<timings, granulepos, clock, eos>>
      /\ \/ stream' = stream
         \/ \E p \in Packet : stream' = Append(stream, p) /\ p.op = "header"
  <2>1. CASE EncodeHeaders
    <3>1. 0 \in Times
      BY ConstantsAssumption DEF Times
    <3>2. PacketOf("header", NoId, 0, 0, 0, granulepos, packetno + 1) \in Packet
      BY <3>1, PacketType DEF InOrderInvariant, TypeOK, PacketOps, NoId
    <3> QED BY <2>1, <3>2 DEF EncodeHeaders, Emit, PacketOf
  <2>2. CASE EncodeHeadersFails
    BY <2>2 DEF EncodeHeadersFails
  <2> QED BY <2>1, <2>2
<1>2. Grown
  BY <1>1 DEF Grown
<1>3. \A q \in Packet : stream' = Append(stream, q) => q.op = "header"
  BY <1>1, <1>2, Prefix DEF InOrderInvariant
<1>4. TimingsOrdered' /\ BaseBehind'
  BY <1>1 DEF InOrderInvariant, TimingsOrdered, BaseBehind, BaseOf, OffsetOf
<1>5. RepeatTimeIsEmitted'
  BY <1>1, <1>2, EmittedKept
<1>6. LiveEventsKept'
  <2>1. clock' \in Times /\ clock <= clock'
    BY <1>1, ConstantsAssumption DEF InOrderInvariant, TypeOK, Times
  <2> QED BY <1>1, <1>2, <1>3, <2>1, LiveKept
<1>7. SeekCovers'
  BY <1>2, <1>3, CoveredKept DEF DataOps
<1> QED BY <1>4, <1>5, <1>6, <1>7 DEF InOrderInvariant

-----------------------------------------------------------------------------
(* The invariant holds, and what follows from it.                            *)

LEMMA InOrderInit == Init => InOrderInvariant
<1> SUFFICES ASSUME Init PROVE InOrderInvariant
  OBVIOUS
<1>1. TypeOK
  BY TypeInit
<1>2. /\ timings = {} /\ stream = << >> /\ granulepos = 0 /\ clock = 0
      /\ Len(stream) = 0
  BY Zenon DEF Init
<1>3. TimingsOrdered /\ RepeatTimeIsEmitted
  BY <1>2 DEF TimingsOrdered, RepeatTimeIsEmitted
<1>4. BaseBehind
  <2>1. 0 < OffsetRange
    BY ConstantsAssumption
  <2>2. BaseOf(granulepos) = 0 /\ OffsetOf(granulepos) = 0
    BY <1>2, <2>1, SmallDivision DEF BaseOf, OffsetOf
  <2> QED BY <1>2, <2>2 DEF BaseBehind
<1>5. LiveEventsKept /\ SeekCovers
  <2>1. 1 .. Len(stream) = {}
    BY <1>2
  <2> QED BY <2>1 DEF LiveEventsKept, SeekCovers
<1> QED BY <1>1, <1>3, <1>4, <1>5 DEF InOrderInvariant

LEMMA InOrderStutter ==
  ASSUME InOrderInvariant, UNCHANGED vars
  PROVE  InOrderInvariant'
<1>1. UNCHANGED <<timings, stream, clock, granulepos, eos>> /\ TypeOK'
  BY TypeStep DEF vars, InOrderInvariant
<1>2. TimingsOrdered' /\ BaseBehind'
  BY <1>1 DEF InOrderInvariant, TimingsOrdered, BaseBehind, BaseOf, OffsetOf
<1>3. RepeatTimeIsEmitted' /\ LiveEventsKept'
  BY <1>1 DEF InOrderInvariant, RepeatTimeIsEmitted, LiveEventsKept
<1>4. SeekCovers'
  BY <1>1 DEF InOrderInvariant, SeekCovers, BaseOf
<1> QED BY <1>1, <1>2, <1>3, <1>4 DEF InOrderInvariant

LEMMA InOrderStep ==
  ASSUME InOrderClient
  PROVE  InOrderInvariant /\ [Next]_vars => InOrderInvariant'
<1> SUFFICES ASSUME InOrderInvariant, [Next]_vars PROVE InOrderInvariant'
  OBVIOUS
<1>1. TypeOK'
  BY TypeStep DEF InOrderInvariant
<1>2. CASE EncodeHeaders \/ EncodeHeadersFails
  BY <1>1, <1>2, HeadersInOrder
<1>3. CASE \E t0, t1 \in Times : TextStep(t0, t1)
  <2>1. PICK t0, t1 \in Times : TextStep(t0, t1)
    BY <1>3
  <2>2. TextCall(t0, t1)
    BY <2>1 DEF TextStep, EncodeTextRejected, EncodeTextNoSlot, EncodeTextBadMotion,
                EncodeTextNoPacket, EncodeTextNotSaved, EncodeText
  <2>3. t0 \in Nat /\ t1 \in Nat /\ OffsetRange \in Nat
    BY ConstantsAssumption DEF Times
  <2>4. clock <= t0 /\ t1 <= t0 + OffsetRange
    BY <2>2, <2>3 DEF TextCall, Call, InOrderClient
  <2> QED BY <1>1, <2>1, <2>4, TextInOrder
<1>4. CASE \E t \in Times : KeepaliveStep(t)
  <2>1. PICK t \in Times : KeepaliveStep(t)
    BY <1>4
  <2>2. clock <= t
    BY <2>1 DEF KeepaliveStep, KeepaliveRejected, KeepaliveNoSlot, KeepaliveNoPacket,
                EncodeKeepalive, Call, InOrderClient
  <2> QED BY <1>1, <2>1, <2>2, KeepaliveInOrder
<1>5. CASE \E t \in Times, threshold \in Thresholds : RepeatStep(t, threshold)
  <2>1. PICK t \in Times, threshold \in Thresholds : RepeatStep(t, threshold)
    BY <1>5
  <2>2. clock <= t /\ ~RepeatNoMemory(t, threshold)
    BY <2>1 DEF RepeatStep, RepeatNothing, RepeatNoMemory, EncodeRepeat, Call,
                InOrderClient
  <2> QED BY <1>1, <2>1, <2>2, RepeatInOrder
<1>6. CASE \E t \in Times \cup {-1} : FinishStep(t)
  <2>1. PICK t \in Times \cup {-1} : FinishStep(t)
    BY <1>6
  <2>2. t < 0 \/ clock <= t
    BY <2>1 DEF FinishStep, FinishRejected, FinishNoPacket, EncodeFinish, FinishCall,
                InOrderClient
  <2> QED BY <1>1, <2>1, <2>2, FinishInOrder
<1>7. CASE UNCHANGED vars
  BY <1>7, InOrderStutter
<1> QED BY <1>2, <1>3, <1>4, <1>5, <1>6, <1>7 DEF Next

(* A stream that is encoded in time order can be seeked in: from the base of *)
(* any data packet, a player meets every event that is active there, however *)
(* many calls failed for want of memory or of a representable content.       *)
THEOREM StreamIsSeekable ==
  ASSUME InOrderClient
  PROVE  Spec => []SeekCovers
<1>1. Init => InOrderInvariant
  BY InOrderInit
<1>2. InOrderInvariant /\ [Next]_vars => InOrderInvariant'
  BY InOrderStep
<1>3. InOrderInvariant => SeekCovers
  BY DEF InOrderInvariant
<1> QED BY <1>1, <1>2, <1>3, PTL DEF Spec

(* The books of the encoder stay right: what it keeps of each event is what  *)
(* the stream holds, and no event is forgotten while it is active.           *)
THEOREM BooksAreRight ==
  ASSUME InOrderClient
  PROVE  Spec => []InOrderInvariant
<1>1. Init => InOrderInvariant
  BY InOrderInit
<1>2. InOrderInvariant /\ [Next]_vars => InOrderInvariant'
  BY InOrderStep
<1> QED BY <1>1, <1>2, PTL DEF Spec

(* No call of a client that goes forward in time is refused for its granule, *)
(* whatever failed before it.                                                *)
THEOREM NothingIsRejected ==
  ASSUME InOrderClient
  PROVE  Spec => []NoLateRejection
<1>1. InOrderInvariant => NoLateRejection
  <2> SUFFICES ASSUME InOrderInvariant, ~eos, NEW t \in clock .. MaxTime
               PROVE  /\ \A b \in Times : IsEarliest(WithNew(t, t), b) => Accepted(b, t)
                      /\ \A b \in Times :
                           IsBase(Trimmed(timings, t), t, b) => Accepted(b, t)
                      /\ t * OffsetRange >= granulepos
    BY DEF NoLateRejection
  <2>1. /\ t \in Times /\ t \in Nat /\ clock <= t /\ clock \in Nat
        /\ granulepos \in Nat /\ OffsetRange \in Nat \ {0}
    BY ConstantsAssumption DEF Times, InOrderInvariant, TypeOK
  <2>2. ASSUME NEW S, Within(S, t), NEW b \in Times, IsBase(S, t, b)
        PROVE  Accepted(b, t)
    BY <2>1, <2>2, BaseFits, BaseAccepted
  <2>3. Within(Trimmed(timings, t), t) /\ Within(WithNew(t, t), t)
    BY <2>1, TrimmedWithin
  <2>4. WithNew(t, t) # {}
    BY DEF WithNew
  <2>5. \A b \in Times : IsEarliest(WithNew(t, t), b) => Accepted(b, t)
    BY <2>2, <2>3, <2>4 DEF IsBase
  <2>6. \A b \in Times : IsBase(Trimmed(timings, t), t, b) => Accepted(b, t)
    BY <2>2, <2>3
  <2>7. t * OffsetRange >= granulepos
    <3>1. /\ BaseOf(granulepos) \in Nat /\ OffsetOf(granulepos) \in Nat
          /\ BaseOf(granulepos) + OffsetOf(granulepos) <= clock
      BY <2>1, SplitGranule DEF InOrderInvariant, BaseBehind
    <3>2. granulepos <= t * OffsetRange + (t - t)
      BY <2>1, <3>1, NotBackwards
    <3> QED BY <2>1, <3>2
  <2> QED BY <2>5, <2>6, <2>7
<1> QED BY <1>1, BooksAreRight, PTL

-----------------------------------------------------------------------------
(* What a player reads of a granule position.                                *)

PositionsInvariant ==
  /\ InOrderInvariant
  /\ KeptIsEmitted
  /\ GranuleTimeExact
  /\ BacklinkIsLiveUntilFailure

LEMMA ExactBase ==
  ASSUME InOrderInvariant, ~eos, NEW t \in Times, clock <= t,
         NEW S, Within(S, t), NEW b \in Times, IsBase(S, t, b),
         NEW gp, gp = Granule(b, t - b)
  PROVE  BaseOf(gp) = b /\ BaseOf(gp) + OffsetOf(gp) = t
<1>1. b \in Nat /\ t \in Nat
  BY ConstantsAssumption DEF Times
<1>2. b <= t /\ t - b \in Nat /\ t - b < OffsetRange /\ BaseOf(granulepos) <= b
  BY BaseFits
<1>3. BaseOf(gp) = b /\ OffsetOf(gp) = t - b
  BY <1>2, BaseAccepted
<1> QED BY <1>1, <1>3

LEMMA ExactOther ==
  ASSUME InOrderInvariant, TypeOK', ~eos, NEW t \in Times, clock <= t,
         KeepaliveGranule(t), NEW p, p.gp = granulepos', p.t = t
  PROVE  BaseOf(p.gp) + OffsetOf(p.gp) = p.t
<1>1. PICK b \in Times :
        IsBase(Trimmed(timings, t), t, b) /\ granulepos' = Granule(b, t - b)
  BY DEF KeepaliveGranule
<1>2. Within(Trimmed(timings, t), t)
  BY TrimmedWithin
<1> QED BY <1>1, <1>2, ExactBase

LEMMA ExactKept ==
  ASSUME TypeOK, Grown, GranuleTimeExact,
         \A p \in Packet : stream' = Append(stream, p) /\ p.op # "header" =>
           BaseOf(p.gp) + OffsetOf(p.gp) = p.t
  PROVE  GranuleTimeExact'
<1>1. ASSUME NEW i \in 1 .. Len(stream'), stream'[i].op # "header"
      PROVE  BaseOf(stream'[i].gp) + OffsetOf(stream'[i].gp) = stream'[i].t
  <2>1. CASE i \in 1 .. Len(stream)
    <3>1. stream'[i] = stream[i]
      BY <2>1, Prefix
    <3> QED BY <1>1, <2>1, <3>1 DEF GranuleTimeExact
  <2>2. CASE i \notin 1 .. Len(stream)
    <3>1. PICK p \in Packet : stream' = Append(stream, p)
      BY <2>2 DEF Grown
    <3>2. stream'[i] = p
      BY <2>2, <3>1, Prefix
    <3> QED BY <1>1, <3>1, <3>2
  <2> QED BY <2>1, <2>2
<1> QED BY <1>1 DEF GranuleTimeExact, BaseOf, OffsetOf

(* The event a base at time t goes back to is one to resume at.              *)
Resumable(p) ==
  \/ p.t = BaseOf(p.gp)
  \/ \E j \in 1 .. Len(stream) :
       /\ stream[j].op \in Carriers
       /\ stream[j].t = BaseOf(p.gp)
       /\ p.t < stream[j].end

LEMMA BacklinkKept ==
  ASSUME TypeOK, Grown, BacklinkIsLive,
         \A p \in Packet :
           stream' = Append(stream, p) /\ p.op = "text" => Resumable(p)
  PROVE  BacklinkIsLive'
<1> DEFINE Linked(i) ==
      \E j \in 1 .. i :
        /\ stream'[j].op \in Carriers
        /\ stream'[j].t = BaseOf(stream'[i].gp)
        /\ j = i \/ stream'[i].t < stream'[j].end
<1>1. ASSUME NEW i \in 1 .. Len(stream'), stream'[i].op = "text"
      PROVE  Linked(i)
  <2>1. CASE i \in 1 .. Len(stream)
    <3>1. /\ \A j \in 1 .. i : j \in 1 .. Len(stream) /\ stream'[j] = stream[j]
          /\ stream'[i] = stream[i]
      BY <2>1, Prefix
    <3> QED BY <1>1, <2>1, <3>1 DEF BacklinkIsLive
  <2>2. CASE i \notin 1 .. Len(stream)
    <3>1. PICK p \in Packet : stream' = Append(stream, p)
      BY <2>2 DEF Grown
    <3>2. i = Len(stream) + 1 /\ stream'[i] = p /\ Len(stream) \in Nat
      BY <2>2, <3>1, Prefix
    <3>3. Resumable(p) /\ p.op = "text"
      BY <1>1, <3>1, <3>2
    <3>4. i \in 1 .. i /\ \A j \in 1 .. Len(stream) : j \in 1 .. i /\ stream'[j] = stream[j]
      BY <3>2, Prefix
    <3>5. CASE p.t = BaseOf(p.gp)
      BY <3>2, <3>3, <3>4, <3>5 DEF Carriers
    <3>6. CASE \E j \in 1 .. Len(stream) :
                 /\ stream[j].op \in Carriers
                 /\ stream[j].t = BaseOf(p.gp)
                 /\ p.t < stream[j].end
      BY <3>2, <3>4, <3>6
    <3> QED BY <3>3, <3>5, <3>6 DEF Resumable
  <2> QED BY <2>1, <2>2
<1> QED BY <1>1 DEF BacklinkIsLive, BaseOf

LEMMA KeptKept ==
  ASSUME TypeOK, Grown, KeptIsEmitted, clock' \in Times, clock <= clock',
         failures' = failures,
         \A d \in timings' :
           \/ d \in timings
           \/ d.end <= clock'
           \/ \E p \in Packet : /\ stream' = Append(stream, p)
                               /\ p.op \in Carriers
                               /\ p.t = d.repeat /\ p.end = d.end
  PROVE  KeptIsEmitted'
<1> DEFINE Kept(d) ==
      \/ d.end <= clock'
      \/ \E k \in 1 .. Len(stream') : /\ stream'[k].op \in Carriers
                                      /\ stream'[k].t = d.repeat
                                      /\ stream'[k].end = d.end
<1>1. ASSUME failures = 0, NEW d \in timings'
      PROVE  Kept(d)
  <2>1. CASE d \in timings
    <3>1. CASE d.end <= clock
      <4>1. d.end \in Nat /\ clock \in Nat /\ clock' \in Nat
        BY <2>1, ConstantsAssumption DEF TypeOK, Timing, Times
      <4> QED BY <3>1, <4>1
    <3>2. CASE ~ (d.end <= clock)
      <4>1. PICK k \in 1 .. Len(stream) : /\ stream[k].op \in Carriers
                                          /\ stream[k].t = d.repeat
                                          /\ stream[k].end = d.end
        BY <1>1, <2>1, <3>2 DEF KeptIsEmitted
      <4>2. k \in 1 .. Len(stream') /\ stream'[k] = stream[k]
        BY Prefix
      <4> QED BY <4>1, <4>2
    <3> QED BY <3>1, <3>2
  <2>2. ASSUME NEW p \in Packet, stream' = Append(stream, p),
               p.op \in Carriers, p.t = d.repeat, p.end = d.end
        PROVE  Kept(d)
    <3>1. Len(stream) + 1 \in 1 .. Len(stream') /\ stream'[Len(stream) + 1] = p
      BY <2>2, Prefix
    <3> QED BY <2>2, <3>1
  <2> QED BY <2>1, <2>2
<1> QED BY <1>1 DEF KeptIsEmitted

(* A call that fails says nothing in the stream, and ends what is said of    *)
(* streams without failures.                                                 *)
LEMMA FailedPositions ==
  ASSUME PositionsInvariant, InOrderInvariant', Fail, stream' = stream
  PROVE  PositionsInvariant'
<1>1. failures' # 0
  BY DEF Fail, PositionsInvariant, InOrderInvariant, TypeOK
<1>2. KeptIsEmitted' /\ BacklinkIsLiveUntilFailure'
  BY <1>1 DEF KeptIsEmitted, BacklinkIsLiveUntilFailure
<1>3. GranuleTimeExact'
  BY DEF PositionsInvariant, GranuleTimeExact, BaseOf, OffsetOf
<1> QED BY <1>2, <1>3 DEF PositionsInvariant

(* A call that succeeds.                                                     *)
LEMMA GoodPositions ==
  ASSUME PositionsInvariant, InOrderInvariant', Grown, clock <= clock',
         failures' = failures,
         \A p \in Packet : stream' = Append(stream, p) =>
           /\ p.op # "header" => BaseOf(p.gp) + OffsetOf(p.gp) = p.t
           /\ failures = 0 /\ p.op = "text" => Resumable(p),
         \A d \in timings' :
           \/ d \in timings
           \/ d.end <= clock'
           \/ \E p \in Packet : /\ stream' = Append(stream, p)
                               /\ p.op \in Carriers
                               /\ p.t = d.repeat /\ p.end = d.end
  PROVE  PositionsInvariant'
<1>1. TypeOK /\ clock' \in Times
  BY DEF PositionsInvariant, InOrderInvariant, TypeOK
<1>2. KeptIsEmitted'
  BY <1>1, KeptKept DEF PositionsInvariant
<1>3. GranuleTimeExact'
  BY <1>1, ExactKept DEF PositionsInvariant
<1>4. BacklinkIsLiveUntilFailure'
  <2>1. failures = 0 => BacklinkIsLive'
    BY <1>1, BacklinkKept DEF PositionsInvariant, BacklinkIsLiveUntilFailure
  <2> QED BY <2>1 DEF BacklinkIsLiveUntilFailure
<1> QED BY <1>2, <1>3, <1>4 DEF PositionsInvariant

(* The base of an event packet, with no failure so far.                      *)
LEMMA TextResumable ==
  ASSUME PositionsInvariant, failures = 0, NEW t \in Times, clock <= t,
         NEW t1 \in Times, NEW b \in Times, IsEarliest(WithNew(t, t1), b),
         NEW p, p.t = t, BaseOf(p.gp) = b
  PROVE  Resumable(p)
<1>1. PICK d \in WithNew(t, t1) : d.repeat = b
  BY DEF IsEarliest
<1>2. CASE d \in Trimmed(timings, t)
  <2>1. d \in timings /\ d \in Timing /\ d.end > t
    BY <1>2 DEF Trimmed, PositionsInvariant, InOrderInvariant, TypeOK
  <2>2. ~ (d.end <= clock)
    <3>1. d.end \in Nat /\ t \in Nat /\ clock \in Nat
      BY <2>1, ConstantsAssumption
      DEF Timing, Times, PositionsInvariant, InOrderInvariant, TypeOK
    <3> QED BY <2>1, <3>1
  <2>3. PICK k \in 1 .. Len(stream) : /\ stream[k].op \in Carriers
                                      /\ stream[k].t = d.repeat
                                      /\ stream[k].end = d.end
    BY <2>1, <2>2 DEF PositionsInvariant, KeptIsEmitted
  <2>4. p.t < stream[k].end
    <3>1. d.end \in Nat /\ t \in Nat
      BY <2>1, ConstantsAssumption DEF Timing, Times
    <3> QED BY <2>1, <2>3, <3>1
  <2> QED BY <1>1, <2>3, <2>4 DEF Resumable
<1>3. CASE d \notin Trimmed(timings, t)
  BY <1>1, <1>3 DEF WithNew, NewTiming, Resumable
<1> QED BY <1>2, <1>3

LEMMA PositionsStep ==
  ASSUME InOrderClient, PositionsInvariant, InOrderInvariant', Next
  PROVE  PositionsInvariant'
<1>0. /\ InOrderInvariant /\ TypeOK /\ TypeOK' /\ granulepos' \in Nat
      /\ clock \in Nat /\ clock <= clock /\ Times \subseteq Nat
  BY ConstantsAssumption DEF PositionsInvariant, InOrderInvariant, TypeOK, Times
<1>1. CASE EncodeHeaders
  <2> DEFINE p == PacketOf("header", NoId, 0, 0, 0, granulepos, packetno + 1)
  <2>1. stream' = Append(stream, p) /\ UNCHANGED <<timings, clock, failures>>
    BY <1>1 DEF EncodeHeaders, Emit
  <2>2. p \in Packet /\ p.op = "header"
    <3>1. 0 \in Times
      BY ConstantsAssumption DEF Times
    <3>2. p \in Packet
      BY <1>0, <3>1, PacketType DEF TypeOK, PacketOps, NoId
    <3> QED BY <3>2 DEF PacketOf
  <2> HIDE DEF p
  <2>3. Grown /\ \A q \in Packet : stream' = Append(stream, q) => q = p
    BY <1>0, <2>1, <2>2, Prefix DEF Grown
  <2> QED BY <1>0, <2>1, <2>2, <2>3, GoodPositions
<1>2. CASE EncodeHeadersFails
  BY <1>2, FailedPositions DEF EncodeHeadersFails
<1>3. ASSUME NEW t0 \in Times, NEW t1 \in Times, TextStep(t0, t1)
      PROVE  PositionsInvariant'
  <2>1. CASE \/ EncodeTextRejected(t0, t1) \/ EncodeTextNoSlot(t0, t1)
             \/ EncodeTextBadMotion(t0, t1) \/ EncodeTextNoPacket(t0, t1)
             \/ EncodeTextNotSaved(t0, t1)
    BY <2>1, FailedPositions
    DEF EncodeTextRejected, EncodeTextNoSlot, EncodeTextBadMotion,
        EncodeTextNoPacket, EncodeTextNotSaved
  <2>2. CASE EncodeText(t0, t1)
    <3>1. ~eos /\ clock <= t0 /\ clock' = t0
      BY <1>0, <2>2, Clocked DEF EncodeText, TextCall
    <3> DEFINE p == PacketOf("text", id, t0, t1, t0, granulepos', packetno + 1)
               n == NewTiming(t0, t1, SavedAs)
    <3>2. PICK b \in Times : IsEarliest(WithNew(t0, t1), b) /\ granulepos' = Granule(b, t0 - b)
      BY <2>2 DEF EncodeText
    <3>3. /\ stream' = Append(stream, p) /\ failures' = failures
          /\ timings' = Trimmed(timings, t0) \cup {n}
      BY <2>2 DEF EncodeText, Emit
    <3>4. p \in Packet
      BY <1>0, PacketType DEF TypeOK, PacketOps, NoId
    <3>5. p.op = "text" /\ p.t = t0 /\ p.end = t1 /\ p.gp = granulepos'
      BY DEF PacketOf
    <3>6. n.repeat = t0 /\ n.end = t1
      BY DEF NewTiming
    <3> HIDE DEF p, n
    <3>7. BaseOf(p.gp) = b /\ BaseOf(p.gp) + OffsetOf(p.gp) = p.t
      <4>1. Within(WithNew(t0, t1), t0) /\ IsBase(WithNew(t0, t1), t0, b)
        BY <1>0, <3>1, <3>2, TrimmedWithin DEF IsBase, IsEarliest
      <4> QED BY <1>0, <3>1, <3>2, <3>5, <4>1, ExactBase
    <3>8. failures = 0 => Resumable(p)
      BY <3>1, <3>2, <3>5, <3>7, TextResumable
    <3>9. Grown /\ \A q \in Packet : stream' = Append(stream, q) => q = p
      BY <1>0, <3>3, <3>4, Prefix DEF Grown
    <3>10. \A d \in timings' : d \in timings \/ d = n
      BY <3>3 DEF Trimmed
    <3>11. p.op \in Carriers /\ p.t = n.repeat /\ p.end = n.end
      BY <3>5, <3>6 DEF Carriers
    <3> QED BY <3>1, <3>3, <3>4, <3>7, <3>8, <3>9, <3>10, <3>11, GoodPositions
  <2> QED BY <1>3, <2>1, <2>2 DEF TextStep
<1>4. ASSUME NEW t \in Times, KeepaliveStep(t)
      PROVE  PositionsInvariant'
  <2>1. CASE KeepaliveRejected(t) \/ KeepaliveNoSlot(t) \/ KeepaliveNoPacket(t)
    BY <2>1, FailedPositions DEF KeepaliveRejected, KeepaliveNoSlot, KeepaliveNoPacket
  <2>2. CASE EncodeKeepalive(t)
    <3>1. ~eos /\ clock <= t /\ clock' = t
      BY <1>0, <2>2, Clocked DEF EncodeKeepalive
    <3> DEFINE p == PacketOf("keepalive", NoId, t, t, t, granulepos', packetno + 1)
    <3>2. /\ stream' = Append(stream, p) /\ failures' = failures
          /\ timings' = Trimmed(timings, t) \cup {NewTiming(t, t, "none")}
      BY <2>2 DEF EncodeKeepalive, Emit
    <3>3. p \in Packet
      BY <1>0, PacketType DEF TypeOK, PacketOps, NoId
    <3>4. p.op = "keepalive" /\ p.t = t /\ p.gp = granulepos'
      BY DEF PacketOf
    <3> HIDE DEF p
    <3>5. BaseOf(p.gp) + OffsetOf(p.gp) = p.t
      BY <1>0, <2>2, <3>1, <3>4, ExactOther DEF EncodeKeepalive
    <3>6. Grown /\ \A q \in Packet : stream' = Append(stream, q) => q = p
      BY <1>0, <3>2, <3>3, Prefix DEF Grown
    <3>7. \A d \in timings' : d \in timings \/ d.end <= clock'
      BY <1>0, <3>1, <3>2 DEF Trimmed, NewTiming
    <3> QED BY <3>1, <3>2, <3>4, <3>5, <3>6, <3>7, GoodPositions
  <2> QED BY <1>4, <2>1, <2>2 DEF KeepaliveStep
<1>5. ASSUME NEW t \in Times, NEW threshold \in Thresholds, RepeatStep(t, threshold)
      PROVE  PositionsInvariant'
  <2>0. ~eos /\ clock <= t /\ clock' = t
    BY <1>0, <1>5, Clocked DEF RepeatStep, RepeatNothing, RepeatNoMemory, EncodeRepeat
  <2>1. CASE RepeatNothing(t, threshold)
    <3>1. /\ stream' = stream /\ failures' = failures
          /\ \A d \in timings' : d \in timings
      BY <2>1 DEF RepeatNothing, Trimmed
    <3>2. Grown /\ \A p : stream' # Append(stream, p)
      BY <1>0, <3>1 DEF Grown, TypeOK
    <3> QED BY <2>0, <3>1, <3>2, GoodPositions
  <2>2. CASE RepeatNoMemory(t, threshold)
    BY <2>2, FailedPositions DEF RepeatNoMemory
  <2>3. CASE EncodeRepeat(t, threshold)
    <3>1. PICK d \in Due(Trimmed(timings, t), t, threshold) :
            /\ timings' = Repeated(Trimmed(timings, t), d, t)
            /\ stream' = Append(stream, RepeatOf(d, t, granulepos'))
      BY <2>3 DEF EncodeRepeat
    <3>2. d \in Timing
      BY <1>0, DueIsSaved
    <3> DEFINE p == RepeatOf(d, t, granulepos')
    <3>3. PICK n \in Timing : n = [d EXCEPT !.repeat = t]
      BY <3>2 DEF Timing
    <3>4. n.repeat = t /\ n.end = d.end
      BY <3>2, <3>3 DEF Timing
    <3>5. \A e \in timings' : e \in timings \/ e = n
      BY <3>1, <3>3 DEF Repeated, Trimmed
    <3>6. /\ p \in Packet /\ p.op = "repeat" /\ p.t = t /\ p.end = d.end
          /\ p.gp = granulepos'
      BY <1>0, <3>2 DEF RepeatOf, Timing, Packet, PacketOps, TypeOK
    <3>7. stream' = Append(stream, p)
      BY <3>1
    <3> HIDE DEF p
    <3>8. Grown /\ \A q \in Packet : stream' = Append(stream, q) => q = p
      BY <1>0, <3>6, <3>7, Prefix DEF Grown
    <3>9. BaseOf(p.gp) + OffsetOf(p.gp) = p.t
      BY <1>0, <2>0, <2>3, <3>6, ExactOther DEF EncodeRepeat, KeepaliveGranule
    <3>10. p.op \in Carriers /\ p.t = n.repeat /\ p.end = n.end
      BY <3>4, <3>6 DEF Carriers
    <3>11. failures' = failures
      BY <2>3 DEF EncodeRepeat
    <3> QED BY <2>0, <3>5, <3>6, <3>7, <3>8, <3>9, <3>10, <3>11, GoodPositions
  <2> QED BY <1>5, <2>1, <2>2, <2>3 DEF RepeatStep
<1>6. ASSUME NEW t \in Times \cup {-1}, FinishStep(t)
      PROVE  PositionsInvariant'
  <2>1. CASE FinishRejected(t) \/ FinishNoPacket(t)
    BY <2>1, FailedPositions DEF FinishRejected, FinishNoPacket
  <2>2. CASE EncodeFinish(t)
    <3>1. PICK e \in Times :
            /\ granulepos' = e * OffsetRange
            /\ stream' = Append(stream,
                 PacketOf("end", NoId, e, e, e, granulepos', packetno + 1))
      BY <2>2 DEF EncodeFinish, Emit
    <3> DEFINE p == PacketOf("end", NoId, e, e, e, granulepos', packetno + 1)
    <3>2. p \in Packet
      BY <1>0, PacketType DEF TypeOK, PacketOps, NoId
    <3>3. p.op = "end" /\ p.t = e /\ p.gp = granulepos' /\ stream' = Append(stream, p)
      BY <3>1 DEF PacketOf
    <3> HIDE DEF p
    <3>4. BaseOf(p.gp) + OffsetOf(p.gp) = p.t
      <4>1. e \in Nat /\ 0 \in Nat /\ 0 < OffsetRange /\ p.gp = e * OffsetRange + 0
        BY <1>0, <3>1, <3>3, ConstantsAssumption DEF Times
      <4>2. BaseOf(p.gp) = e /\ OffsetOf(p.gp) = 0
        BY <4>1, DivisionUnique DEF BaseOf, OffsetOf
      <4> QED BY <3>3, <4>1, <4>2
    <3>5. Grown /\ \A q \in Packet : stream' = Append(stream, q) => q = p
      BY <1>0, <3>2, <3>3, Prefix DEF Grown
    <3>6. /\ failures' = failures /\ clock <= clock'
          /\ \A d \in timings' : d \in timings
      BY <1>0, <2>2 DEF EncodeFinish, FinishCall, Trimmed
    <3> QED BY <3>3, <3>4, <3>5, <3>6, GoodPositions
  <2> QED BY <1>6, <2>1, <2>2 DEF FinishStep
<1> QED BY <1>1, <1>2, <1>3, <1>4, <1>5, <1>6 DEF Next

LEMMA PositionsInit == Init => PositionsInvariant
<1> SUFFICES ASSUME Init PROVE PositionsInvariant
  OBVIOUS
<1>1. timings = {} /\ stream = << >>
  BY Zenon DEF Init
<1>2. 1 .. Len(stream) = {}
  BY <1>1
<1> QED BY <1>1, <1>2, InOrderInit
        DEF PositionsInvariant, KeptIsEmitted, GranuleTimeExact,
            BacklinkIsLiveUntilFailure, BacklinkIsLive

LEMMA PositionsNext ==
  ASSUME InOrderClient
  PROVE  PositionsInvariant /\ [Next]_vars => PositionsInvariant'
<1> SUFFICES ASSUME PositionsInvariant, [Next]_vars PROVE PositionsInvariant'
  OBVIOUS
<1>1. InOrderInvariant'
  BY InOrderStep DEF PositionsInvariant
<1>2. CASE Next
  BY <1>1, <1>2, PositionsStep
<1>3. CASE UNCHANGED vars
  <2>1. UNCHANGED <<timings, stream, clock, failures>>
    BY <1>3 DEF vars
  <2> QED BY <1>1, <2>1
          DEF PositionsInvariant, KeptIsEmitted, GranuleTimeExact,
              BacklinkIsLiveUntilFailure, BacklinkIsLive, BaseOf, OffsetOf
<1> QED BY <1>2, <1>3

(* What a player computes from the granule position of a packet is its time, *)
(* exactly; and until a call fails, the base it goes back to from an event   *)
(* is the time of a packet of an event that is still active there.           *)
THEOREM PositionsAreExact ==
  ASSUME InOrderClient
  PROVE  Spec => []PositionsAreRight
<1>1. Init => PositionsInvariant
  BY PositionsInit
<1>2. PositionsInvariant /\ [Next]_vars => PositionsInvariant'
  BY PositionsNext
<1>3. PositionsInvariant => PositionsAreRight
  BY DEF PositionsInvariant, PositionsAreRight
<1> QED BY <1>1, <1>2, <1>3, PTL DEF Spec
=============================================================================
