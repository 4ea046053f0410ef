--------------------------- MODULE KateDumpProofs ---------------------------
(* That katedec puts each stream of a file in a file of its own, whole, in   *)
(* order and at the right times: for every well formed file, whatever pages  *)
(* of it are lost and wherever it ends.                                      *)
EXTENDS KateDump, WellFoundedInduction, TLAPS

-----------------------------------------------------------------------------
(* Packets, queues and the list of streams.                                  *)

Kinds == {"header", "text", "silent", "end", "bad", "foreign"}

LEMMA PacketFacts ==
  ASSUME NEW p \in Packets
  PROVE  /\ p.serial \in Serials /\ p.no \in Nat /\ p.kind \in Kinds /\ p # Gap
         /\ p.kind = "header" => p.n \in Nat
         /\ p.kind = "text" => p.at \in Nat /\ p.for \in Nat
BY HeadersAssumption DEF Packets, Gap, Kinds

Below == {p \in Nat \X Nat : p[1] < p[2]}

LEMMA LeastNumber ==
  ASSUME NEW S, S \subseteq Nat, S # {}
  PROVE  \E x \in S : \A y \in S : x <= y
<1>1. IsWellFoundedOn(Below, Nat)
  BY NatLessThanWellFounded DEF OpToRel, Below
<1>2. PICK x \in S : \A y \in S : <<y, x>> \notin Below
  BY <1>1, WFMin, Zenon
<1>3. \A y \in S : ~ (y < x)
  BY <1>2 DEF Below
<1> QED BY <1>3

LEMMA FindFirst ==
  ASSUME NEW those, DOMAIN those \subseteq Nat \ {0}, NEW s
  PROVE  \/ /\ Find(those, s) = 0
            /\ \A j \in DOMAIN those : those[j].serial # s
         \/ /\ Find(those, s) \in DOMAIN those
            /\ those[Find(those, s)].serial = s
            /\ \A j \in DOMAIN those : j < Find(those, s) => those[j].serial # s
<1> DEFINE hit == {i \in DOMAIN those : those[i].serial = s}
<1>1. CASE hit = {}
  BY <1>1 DEF Find
<1>2. CASE hit # {}
  <2>1. \E i \in hit : \A j \in hit : i <= j
    BY <1>2, LeastNumber
  <2>2. Find(those, s) \in hit /\ \A j \in hit : Find(those, s) <= j
    BY <1>2, <2>1 DEF Find
  <2> QED BY <2>2
<1> QED BY <1>1, <1>2

LEMMA TailFacts ==
  ASSUME NEW S, NEW q \in Seq(S), q # <<>>
  PROVE  /\ Len(q) \in Nat \ {0} /\ Len(Tail(q)) = Len(q) - 1 /\ Tail(q) \in Seq(S)
         /\ DOMAIN Tail(q) = 1 .. Len(q) - 1 /\ DOMAIN q = 1 .. Len(q)
         /\ \A k \in DOMAIN Tail(q) : k + 1 \in DOMAIN q /\ Tail(q)[k] = q[k + 1]
         /\ Head(q) = q[1] /\ 1 \in DOMAIN q /\ Head(q) \in S
OBVIOUS

LEMMA ConcatFacts ==
  ASSUME NEW S, NEW q \in Seq(S), NEW r \in Seq(S)
  PROVE  /\ q \o r \in Seq(S) /\ Len(q \o r) = Len(q) + Len(r)
         /\ DOMAIN (q \o r) = 1 .. Len(q) + Len(r)
         /\ DOMAIN q = 1 .. Len(q) /\ DOMAIN r = 1 .. Len(r)
         /\ Len(q) \in Nat /\ Len(r) \in Nat
         /\ \A k \in DOMAIN q : k \in DOMAIN (q \o r) /\ (q \o r)[k] = q[k]
         /\ \A k \in DOMAIN r :
              Len(q) + k \in DOMAIN (q \o r) /\ (q \o r)[Len(q) + k] = r[k]
         /\ \A k \in DOMAIN (q \o r) :
              k \in DOMAIN q \/ (k - Len(q) \in DOMAIN r /\ (q \o r)[k] = r[k - Len(q)])
OBVIOUS

LEMMA WithoutFacts ==
  ASSUME NEW S, NEW q \in Seq(S), NEW i \in DOMAIN q
  PROVE  /\ RemoveAt(q, i) \in Seq(S) /\ Len(RemoveAt(q, i)) = Len(q) - 1
         /\ DOMAIN RemoveAt(q, i) = 1 .. Len(q) - 1
         /\ \A k \in 1 .. Len(q) - 1 :
              RemoveAt(q, i)[k] = IF k < i THEN q[k] ELSE q[k + 1]
<1>1. /\ Len(q) \in Nat /\ i \in 1 .. Len(q) /\ DOMAIN q = 1 .. Len(q)
  OBVIOUS
<1> DEFINE a == SubSeq(q, 1, i - 1)
           b == SubSeq(q, i + 1, Len(q))
<1>2. a \in Seq(S) /\ Len(a) = i - 1 /\ \A k \in 1 .. i - 1 : a[k] = q[k]
  BY <1>1
<1>3. b \in Seq(S) /\ Len(b) = Len(q) - i /\ \A k \in 1 .. Len(q) - i : b[k] = q[i + k]
  BY <1>1
<1> HIDE DEF a, b
<1>4. /\ a \o b \in Seq(S) /\ Len(a \o b) = Len(q) - 1
      /\ DOMAIN (a \o b) = 1 .. Len(q) - 1
  <2>1. Len(a) + Len(b) = Len(q) - 1
    BY <1>1, <1>2, <1>3
  <2>2. /\ a \o b \in Seq(S) /\ Len(a \o b) = Len(a) + Len(b)
        /\ DOMAIN (a \o b) = 1 .. Len(a) + Len(b)
    <3>1. a \in Seq(S) /\ b \in Seq(S)
      BY <1>2, <1>3
    <3> QED BY <3>1, ConcatFacts
  <2> QED BY <2>1, <2>2
<1>5. ASSUME NEW k \in 1 .. Len(q) - 1
      PROVE  (a \o b)[k] = IF k < i THEN q[k] ELSE q[k + 1]
  <2>1. CASE k < i
    <3>1. k \in 1 .. i - 1 /\ DOMAIN a = 1 .. i - 1
      BY <1>1, <1>2, <2>1
    <3>2. (a \o b)[k] = a[k]
      BY <1>2, <1>3, <3>1, ConcatFacts
    <3> QED BY <1>2, <2>1, <3>1, <3>2
  <2>2. CASE ~(k < i)
    <3>1. PICK j \in 1 .. Len(q) - i : j = k - (i - 1)
      BY <1>1, <2>2
    <3>2. (a \o b)[Len(a) + j] = b[j]
      BY <1>1, <1>2, <1>3, ConcatFacts
    <3>3. Len(a) + j = k /\ i + j = k + 1
      BY <1>1, <1>2, <3>1
    <3> QED BY <1>3, <2>2, <3>2, <3>3
  <2> QED BY <2>1, <2>2
<1>6. RemoveAt(q, i) = a \o b
  BY DEF RemoveAt, a, b
<1> QED BY <1>4, <1>5, <1>6

LEMMA IsSequence ==
  ASSUME NEW n \in Nat, NEW f, DOMAIN f = 1 .. n, f = [j \in DOMAIN f |-> f[j]]
  PROVE  f \in Seq({f[j] : j \in DOMAIN f})
<1>1. f \in [1 .. n -> {f[j] : j \in DOMAIN f}]
  OBVIOUS
<1> QED BY <1>1

LEMMA StreamFacts ==
  ASSUME TypeOK
  PROVE  /\ Len(streams) \in Nat /\ DOMAIN streams = 1 .. Len(streams)
         /\ \A i \in DOMAIN streams : streams[i] \in Streams
BY DEF TypeOK

-----------------------------------------------------------------------------
(* What a step does to the list of streams.                                  *)

(* Whichever of them takes the page, another may be added behind it.         *)
OldStream(s, i) == IF i \in DOMAIN streams THEN streams[i] ELSE NewStream(s)
TakesPage(s, i) ==
  /\ Idle /\ HasPage(s) /\ reading' = i
  /\ next' = [next EXCEPT ![s] = @ + 1]
  /\ UNCHANGED <<Options, lost, files, disk, phase>>
  /\ i \in 1 .. Len(streams) + 1 /\ i \in DOMAIN streams'
  /\ OldStream(s, i).serial = s
  /\ \A j \in DOMAIN streams : j < i => streams[j].serial # s
  /\ \/ streams'[i] = Taken(OldStream(s, i), Page(s))
     \/ streams'[i] = [Taken(OldStream(s, i), Page(s)) EXCEPT !.data = NewData]
  /\ streams'[i].data = IF Page(s).bos THEN NewData ELSE OldStream(s, i).data
  /\ \A j \in DOMAIN streams : j \in DOMAIN streams' /\ (j # i => streams'[j] = streams[j])
  /\ streams' \in Seq({streams'[j] : j \in DOMAIN streams'})
  /\ \/ /\ Len(streams') = Len(streams) /\ i \in DOMAIN streams /\ ~Page(s).bos
     \/ /\ Len(streams') = Len(streams) + 1 /\ Page(s).bos
        /\ i \in DOMAIN streams => streams'[Len(streams) + 1] = NewStream(s)

LEMMA TakesPageStep ==
  ASSUME TypeOK, NEW s \in Serials, BosPage(s) \/ NextPage(s)
  PROVE  /\ \E i \in Nat : TakesPage(s, i)
         /\ count' \in Nat
<1>1. /\ Len(streams) \in Nat /\ DOMAIN streams = 1 .. Len(streams)
      /\ \A i \in DOMAIN streams : streams[i] \in Streams
  BY StreamFacts
<1>2. CASE NextPage(s)
  <2> DEFINE i == Find(streams, s)
  <2>1. /\ i \in DOMAIN streams /\ streams[i].serial = s
        /\ \A j \in DOMAIN streams : j < i => streams[j].serial # s
    BY <1>1, <1>2, FindFirst DEF NextPage
  <2>2. streams' = [streams EXCEPT ![i] = Taken(streams[i], Page(s))]
    BY <1>2 DEF NextPage
  <2>3. /\ Idle /\ HasPage(s) /\ reading' = i
        /\ next' = [next EXCEPT ![s] = @ + 1]
        /\ UNCHANGED <<Options, lost, files, disk, phase>> /\ count' = count
        /\ ~Page(s).bos
    BY <1>2 DEF NextPage
  <2> HIDE DEF i
  <2>4. Len(streams') = Len(streams) /\ DOMAIN streams' = DOMAIN streams
    BY <1>1, <2>2 DEF TypeOK
  <2>5. /\ streams'[i] = Taken(streams[i], Page(s))
        /\ \A j \in DOMAIN streams : j # i => streams'[j] = streams[j]
    BY <2>1, <2>2
  <2>6. OldStream(s, i) = streams[i] /\ i \in Nat /\ i \in 1 .. Len(streams) + 1
    BY <1>1, <2>1 DEF OldStream
  <2>8. streams' \in Seq({streams'[j] : j \in DOMAIN streams'})
    <3>1. DOMAIN streams' = 1 .. Len(streams) /\ streams' = [j \in DOMAIN streams' |-> streams'[j]]
      BY <1>1, <2>2, <2>4
    <3> QED BY <1>1, <3>1, IsSequence
  <2>9. streams'[i].data = streams[i].data
    BY <1>1, <2>1, <2>5 DEF Taken, Streams
  <2>7. TakesPage(s, i)
    BY <2>1, <2>3, <2>4, <2>5, <2>6, <2>8, <2>9 DEF TakesPage
  <2> QED BY <2>3, <2>6, <2>7 DEF TypeOK
<1>3. CASE BosPage(s)
  <2> DEFINE added == Append(streams, NewStream(s))
             i == Find(added, s)
             ks == Taken(added[i], Page(s))
  <2>1. /\ Len(added) = Len(streams) + 1 /\ DOMAIN added = 1 .. Len(streams) + 1
        /\ added[Len(streams) + 1] = NewStream(s)
        /\ \A j \in DOMAIN streams : j \in DOMAIN added /\ added[j] = streams[j]
    BY <1>1 DEF TypeOK
  <2>2. NewStream(s).serial = s
    BY DEF NewStream
  <2>3. /\ i \in DOMAIN added /\ added[i].serial = s
        /\ \A j \in DOMAIN added : j < i => added[j].serial # s
    <3>1. DOMAIN added \subseteq Nat \ {0}
      BY <1>1, <2>1
    <3> HIDE DEF added
    <3>2. Len(streams) + 1 \in DOMAIN added
      BY <1>1, <2>1
    <3> QED BY <2>1, <2>2, <3>1, <3>2, FindFirst
  <2>4. streams' = [added EXCEPT ![i] = [ks EXCEPT !.data = NewData]]
    BY <1>3 DEF BosPage
  <2>5. /\ Idle /\ HasPage(s) /\ reading' = i
        /\ next' = [next EXCEPT ![s] = @ + 1]
        /\ UNCHANGED <<Options, lost, files, disk, phase>> /\ count' = count + 1
        /\ Page(s).bos
    BY <1>3 DEF BosPage
  <2>6. added[i] = OldStream(s, i)
    BY <1>1, <2>1, <2>3 DEF OldStream
  <2> HIDE DEF i
  <2>7. /\ DOMAIN streams' = DOMAIN added /\ Len(streams') = Len(added)
        /\ streams'[i] = [ks EXCEPT !.data = NewData]
        /\ \A j \in DOMAIN added : j # i => streams'[j] = added[j]
        /\ streams' \in Seq({streams'[j] : j \in DOMAIN streams'})
    <3> DEFINE one == [ks EXCEPT !.data = NewData]
               S == Streams \cup {NewStream(s), one}
    <3>1. added \in Seq(S)
      BY DEF TypeOK
    <3> HIDE DEF added, S, ks
    <3>2. one \in S
      BY DEF S
    <3> HIDE DEF one
    <3>3. streams' = [added EXCEPT ![i] = one]
      BY <2>4 DEF one
    <3>4. /\ DOMAIN streams' = DOMAIN added /\ Len(streams') = Len(added)
          /\ streams'[i] = one
          /\ \A j \in DOMAIN added : j # i => streams'[j] = added[j]
      BY <2>3, <3>1, <3>2, <3>3
    <3>5. streams' \in Seq({streams'[j] : j \in DOMAIN streams'})
      <4>1. /\ DOMAIN streams' = 1 .. Len(streams) + 1
            /\ streams' = [j \in DOMAIN streams' |-> streams'[j]]
        BY <2>1, <3>3, <3>4
      <4> QED BY <1>1, <4>1, IsSequence
    <3> QED BY <3>4, <3>5 DEF one
  <2>8. i \in 1 .. Len(streams) + 1 /\ i \in DOMAIN streams' /\ i \in Nat
    BY <1>1, <2>1, <2>3, <2>7
  <2> HIDE DEF added
  <2>9. /\ \A j \in DOMAIN streams : j < i => streams[j].serial # s
        /\ \A j \in DOMAIN streams : j \in DOMAIN streams' /\ (j # i => streams'[j] = streams[j])
        /\ i \in DOMAIN streams => streams'[Len(streams) + 1] = NewStream(s)
        /\ Len(streams') = Len(streams) + 1
    BY <1>1, <2>1, <2>3, <2>7, <2>8
  <2>10. TakesPage(s, i)
    BY <2>3, <2>5, <2>6, <2>7, <2>8, <2>9 DEF TakesPage
  <2> QED BY <2>5, <2>8, <2>10 DEF TypeOK
<1> QED BY <1>2, <1>3

(* A packet leaves the queue of the stream that is read.                     *)
ReadsPacket ==
  /\ Reads /\ reading \in DOMAIN streams /\ This.queue # <<>>
  /\ UNCHANGED <<Options, next, lost>>
  /\ Len(streams') = Len(streams) /\ DOMAIN streams' = DOMAIN streams
  /\ \A j \in DOMAIN streams : j # reading => streams'[j] = streams[j]
  /\ streams'[reading].queue = Tail(This.queue)
  /\ streams'[reading].serial = This.serial
  /\ streams'[reading].from = This.from
  /\ streams'[reading].page = This.page
  /\ reading' = reading \/ (reading' = 0 /\ Head(This.queue) = Gap)

LEMMA ThisFacts ==
  ASSUME TypeOK, Reads
  PROVE  /\ reading \in DOMAIN streams /\ This \in Streams /\ This = streams[reading]
         /\ This.queue # <<>> =>
              /\ Tail(This.queue) \in Seq(Packets \cup {Gap})
              /\ Head(This.queue) \in Packets \cup {Gap}
<1>1. reading \in DOMAIN streams /\ This \in Streams /\ This = streams[reading]
  BY DEF TypeOK, Reads, This
<1>2. This.queue \in Seq(Packets \cup {Gap})
  BY <1>1 DEF Streams
<1> QED BY <1>1, <1>2, TailFacts

LEMMA HasFacts ==
  ASSUME TypeOK, Reads, NEW kind, Has(kind)
  PROVE  /\ This.queue # <<>> /\ Head(This.queue).kind = kind
         /\ kind # "gap" => Head(This.queue) \in Packets
         /\ kind = "gap" => Head(This.queue) = Gap
BY ThisFacts, PacketFacts DEF Has, Gap, Kinds

LEMMA StreamsKept ==
  ASSUME DOMAIN files \subseteq DOMAIN files'
  PROVE  Streams \subseteq Streams'
BY DEF Streams

LEMMA OneChanged ==
  ASSUME TypeOK, NEW i \in DOMAIN streams, NEW ks \in Streams',
         DOMAIN files \subseteq DOMAIN files',
         streams' = [streams EXCEPT ![i] = ks]
  PROVE  /\ streams' \in Seq(Streams')
         /\ Len(streams') = Len(streams) /\ DOMAIN streams' = DOMAIN streams
         /\ streams'[i] = ks
         /\ \A j \in DOMAIN streams : j # i => streams'[j] = streams[j]
<1>1. streams \in Seq(Streams')
  <2>1. streams \in Seq(Streams) /\ Streams \subseteq Streams'
    BY StreamsKept DEF TypeOK
  <2> QED BY <2>1
<1> QED BY <1>1

LEMMA ReadsPacketStep ==
  ASSUME TypeOK, Hole \/ Header \/ Open \/ Text \/ Silent \/ Bad \/ End
  PROVE  ReadsPacket /\ TypeOK'
<1>1. Reads /\ This.queue # <<>>
  BY DEF Hole, Header, Open, Text, Silent, Bad, End, Has, HeaderFits, Ready
<1>2. /\ reading \in DOMAIN streams /\ This \in Streams
      /\ Tail(This.queue) \in Seq(Packets \cup {Gap})
      /\ This.queue \in Seq(Packets \cup {Gap})
  BY <1>1, ThisFacts DEF Streams
<1>3. /\ UNCHANGED <<Options, next, lost, count>>
      /\ DOMAIN files \subseteq DOMAIN files' /\ disk' \subseteq DOMAIN files'
      /\ reading' \in 0 .. Len(streams)
      /\ phase' \in {"reading", "closing", "done", "aborted", "crashed"}
  BY DEF TypeOK, Hole, Header, Open, Text, Silent, Bad, End, Write
<1>0. reading' = reading \/ (reading' = 0 /\ Head(This.queue) = Gap)
  <2>1. CASE Hole
    BY <1>1, <2>1, HasFacts DEF Hole
  <2> QED BY <2>1 DEF Header, Open, Text, Silent, Bad, End
<1>4. ASSUME NEW ks \in Streams', streams' = [streams EXCEPT ![reading] = ks],
             ks.queue = Tail(This.queue), ks.serial = This.serial,
             ks.from = This.from, ks.page = This.page
      PROVE  ReadsPacket /\ TypeOK'
  <2>1. /\ streams' \in Seq(Streams')
        /\ Len(streams') = Len(streams) /\ DOMAIN streams' = DOMAIN streams
        /\ streams'[reading] = ks
        /\ \A j \in DOMAIN streams : j # reading => streams'[j] = streams[j]
    BY <1>2, <1>3, <1>4, OneChanged
  <2> QED BY <1>0, <1>1, <1>2, <1>3, <1>4, <2>1 DEF ReadsPacket, TypeOK, Options
<1>5. This \in Streams'
  BY <1>2, <1>3, StreamsKept
<1>6. /\ Next1 \in Streams' /\ Next1.queue = Tail(This.queue)
      /\ Next1.serial = This.serial /\ Next1.from = This.from /\ Next1.page = This.page
      /\ Next1.data = This.data /\ Next1.ret = This.ret /\ Next1.probe = This.probe
  BY <1>2, <1>5 DEF Next1, Streams
<1>14. Next1.probe \in Nat /\ Next1.data \in Int /\ Next1.ret \in Int
  BY <1>6 DEF Streams
<1>7. CASE Hole
  BY <1>4, <1>6, <1>7 DEF Hole
<1>8. CASE Header
  <2> DEFINE a == [Next1 EXCEPT !.init = "header_info"]
             ks == [a EXCEPT !.probe = @ + 1]
  <2>1. a \in Streams' /\ a.probe = Next1.probe
    BY <1>6 DEF Streams
  <2>2. ks \in Streams'
    <3> HIDE DEF a
    <3> QED BY <1>14, <2>1 DEF Streams
  <2> QED BY <1>4, <1>6, <1>8, <2>2 DEF Header, Streams
<1>9. CASE Open
  <2> DEFINE a == [Next1 EXCEPT !.init = "data"]
             b == [a EXCEPT !.probe = @ + 1]
             ks == [b EXCEPT !.fout = {Name(This)}]
  <2>1. Name(This) \in DOMAIN files'
    BY <1>9 DEF Open
  <2>2. a \in Streams' /\ a.probe = Next1.probe
    BY <1>6 DEF Streams
  <2>3. b \in Streams'
    <3> HIDE DEF a
    <3> QED BY <1>14, <2>2 DEF Streams
  <2>4. ks \in Streams'
    <3> HIDE DEF b
    <3> QED BY <2>1, <2>3 DEF Streams
  <2> QED BY <1>4, <1>6, <1>9, <2>4 DEF Open, Streams
<1>10. CASE Text
  <2> DEFINE e == Head(This.queue)
             ks == [Next1 EXCEPT !.data = DataAfter(@, e), !.ret = Status(@, 0)]
  <2>1. e \in Packets /\ e.kind = "text"
    BY <1>1, <1>10, HasFacts DEF Text
  <2>2. e.at \in Nat /\ e.for \in Nat
    BY <2>1, PacketFacts
  <2>3. DataAfter(Next1.data, e) \in Int /\ Status(Next1.ret, 0) \in Int
    BY <1>14, <2>2 DEF DataAfter, Status
  <2>4. ks \in Streams'
    BY <1>6, <1>14, <2>3 DEF Streams
  <2> QED BY <1>4, <1>6, <1>10, <2>4 DEF Text, Streams
<1>11. CASE Silent
  <2> DEFINE ks == [Next1 EXCEPT !.ret = Status(@, 0)]
  <2>1. ks \in Streams'
    BY <1>6, <1>14 DEF Streams, Status
  <2> QED BY <1>4, <1>6, <1>11, <2>1 DEF Silent, Streams
<1>12. CASE Bad
  <2> DEFINE ks == [Next1 EXCEPT !.ret = Status(@, -1)]
  <2>1. ks \in Streams'
    BY <1>6, <1>14 DEF Streams, Status
  <2> QED BY <1>4, <1>6, <1>12, <2>1 DEF Bad, Streams
<1>13. CASE End
  <2> DEFINE a == [Next1 EXCEPT !.init = "eos"]
             ks == [a EXCEPT !.ret = Status(@, 0)]
  <2>1. a \in Streams' /\ a.ret = Next1.ret
    BY <1>6 DEF Streams
  <2>2. ks \in Streams'
    <3> HIDE DEF a
    <3> QED BY <1>14, <2>1 DEF Streams, Status
  <2> QED BY <1>4, <1>6, <1>13, <2>2 DEF End, Streams
<1> QED BY <1>7, <1>8, <1>9, <1>10, <1>11, <1>12, <1>13

(* A stream goes.                                                            *)
Removes ==
  /\ Reads /\ reading \in DOMAIN streams /\ ~InData(This)
  /\ UNCHANGED <<Options, next, lost, files, disk, phase>> /\ reading' = 0
  /\ Len(streams') = Len(streams) - 1 /\ DOMAIN streams' = 1 .. Len(streams) - 1
  /\ \A k \in DOMAIN streams' :
       streams'[k] = IF k < reading THEN streams[k] ELSE streams[k + 1]

LEMMA RemovesStep ==
  ASSUME TypeOK, WrongHeader \/ Ignore
  PROVE  Removes /\ TypeOK'
<1>1. Reads /\ reading \in DOMAIN streams
  BY ThisFacts DEF WrongHeader, Ignore, Ready
<1>2. /\ UNCHANGED <<Options, next, lost, files, disk, phase, count>> /\ reading' = 0
      /\ streams' = RemoveAt(streams, reading) /\ ~InData(This)
  BY DEF WrongHeader, Ignore, Without, Ready
<1>3. /\ streams' \in Seq(Streams)
      /\ Len(streams') = Len(streams) - 1 /\ DOMAIN streams' = 1 .. Len(streams) - 1
      /\ \A k \in 1 .. Len(streams) - 1 :
           streams'[k] = IF k < reading THEN streams[k] ELSE streams[k + 1]
  BY <1>1, <1>2, WithoutFacts DEF TypeOK
<1>4. Streams' = Streams
  BY <1>2 DEF Streams
<1> QED BY <1>1, <1>2, <1>3, <1>4 DEF Removes, TypeOK, Options

LEMMA PageFacts ==
  ASSUME TypeOK, NEW s \in Serials
  PROVE  /\ given[s] \in Seq(Pages) /\ WellFormed(s, given[s])
         /\ Len(given[s]) \in Nat /\ DOMAIN given[s] = 1 .. Len(given[s])
         /\ next[s] \in Nat
         /\ HasPage(s) => /\ next[s] \in 1 .. Len(given[s])
                          /\ Page(s) \in Pages /\ Page(s).packets \in Seq(Packets)
<1>1. given[s] \in Seq(Pages) /\ WellFormed(s, given[s]) /\ next[s] \in Nat
  BY InputsAssumption DEF TypeOK
<1>2. Len(given[s]) \in Nat /\ DOMAIN given[s] = 1 .. Len(given[s])
  BY <1>1
<1>3. ASSUME HasPage(s)
      PROVE  next[s] \in 1 .. Len(given[s]) /\ Page(s) \in Pages
  BY <1>1, <1>2, <1>3 DEF HasPage, Page
<1> QED BY <1>1, <1>2, <1>3 DEF Pages

LEMMA NewStreamType ==
  ASSUME TypeOK, NEW s \in Serials
  PROVE  NewStream(s) \in Streams
<1>1. Len(given[s]) + 1 \in Nat /\ count \in Nat
  BY PageFacts DEF TypeOK
<1> QED BY <1>1 DEF NewStream, Streams

LEMMA TakenType ==
  ASSUME TypeOK, NEW s \in Serials, NEW ks \in Streams, ks.serial = s, HasPage(s)
  PROVE  /\ Taken(ks, Page(s)) \in Streams
         /\ [Taken(ks, Page(s)) EXCEPT !.data = NewData] \in Streams
         /\ ks.queue \in Seq(Packets \cup {Gap})
<1>1. Page(s).no \in Nat /\ Page(s).packets \in Seq(Packets) /\ next[s] \in Nat
  BY PageFacts DEF Pages
<1>2. ks.queue \in Seq(Packets \cup {Gap}) /\ Page(s).packets \in Seq(Packets \cup {Gap})
  BY <1>1 DEF Streams
<1>3. Queued(ks, Page(s)) \in Seq(Packets \cup {Gap})
  <2> DEFINE gap == IF Page(s).no = ks.page THEN <<>> ELSE <<Gap>>
  <2>1. gap \in Seq(Packets \cup {Gap})
    <3>1. <<Gap>> \in Seq(Packets \cup {Gap}) /\ <<>> \in Seq(Packets \cup {Gap})
      OBVIOUS
    <3> QED BY <3>1
  <2> HIDE DEF gap
  <2>2. ks.queue \o gap \in Seq(Packets \cup {Gap})
    BY <1>2, <2>1
  <2>3. (ks.queue \o gap) \o Page(s).packets \in Seq(Packets \cup {Gap})
    BY <1>2, <2>2
  <2> QED BY <2>3 DEF gap, Queued
<1>4. Taken(ks, Page(s)) \in Streams
  <2> DEFINE first == IF ks.from < next[ks.serial] THEN ks.from ELSE next[ks.serial]
             q == Queued(ks, Page(s))
             m == Page(s).no + 1
  <2>1. first \in Nat /\ m \in Nat
    BY <1>1 DEF Streams
  <2>2. Taken(ks, Page(s)) = [ks EXCEPT !.from = first, !.page = m, !.queue = q]
    BY DEF Taken
  <2> HIDE DEF first, q, m
  <2> QED BY <1>3, <2>1, <2>2 DEF Streams, q
<1>5. [Taken(ks, Page(s)) EXCEPT !.data = NewData] \in Streams
  <2>1. NewData \in Int
    BY DEF NewData
  <2> QED BY <1>4, <2>1 DEF Streams
<1> QED BY <1>2, <1>4, <1>5

LEMMA TakesPageType ==
  ASSUME TypeOK, NEW s \in Serials, BosPage(s) \/ NextPage(s)
  PROVE  TypeOK'
<1>1. PICK i \in Nat : TakesPage(s, i)
  BY TakesPageStep
<1>2. /\ OldStream(s, i) \in Streams /\ HasPage(s)
      /\ OldStream(s, i).serial = s
  BY <1>1, NewStreamType, StreamFacts DEF OldStream, TakesPage
<1>3. streams'[i] \in Streams /\ NewStream(s) \in Streams
  BY <1>1, <1>2, TakenType, NewStreamType DEF TakesPage
<1>4. Streams' = Streams
  BY <1>1 DEF Streams, TakesPage
<1>5. \A j \in DOMAIN streams' : streams'[j] \in Streams
  <2> TAKE j \in DOMAIN streams'
  <2>1. CASE j = i
    BY <1>3, <2>1
  <2>2. CASE j # i /\ j \in DOMAIN streams
    BY <1>1, <2>2, StreamFacts DEF TakesPage
  <2> QED BY <1>1, <1>3, <2>1, <2>2, StreamFacts DEF TakesPage
<1>6. streams' \in Seq(Streams)
  BY <1>1, <1>5 DEF TakesPage
<1>7. next' \in [Serials -> Nat]
  BY <1>1 DEF TakesPage, TypeOK
<1>8. reading' \in 0 .. Len(streams')
  BY <1>1, <1>6, StreamFacts DEF TakesPage
<1> QED BY <1>1, <1>4, <1>6, <1>7, <1>8, TakesPageStep DEF TakesPage, TypeOK, Options

(* The streams that are left are told that they are at their end.            *)
Closes ==
  /\ Idle /\ UNCHANGED <<Options, next, lost, reading, disk>>
  /\ DOMAIN files' = DOMAIN files
  /\ phase' \in {"closing", "crashed"}
  /\ Len(streams') = Len(streams) /\ DOMAIN streams' = DOMAIN streams
  /\ \A i \in DOMAIN streams : streams'[i] = [streams[i] EXCEPT !.init = "eos"]

LEMMA ClosesStep ==
  ASSUME TypeOK, ForceEnd
  PROVE  Closes /\ TypeOK'
<1>1. /\ streams' = [i \in DOMAIN streams |-> [streams[i] EXCEPT !.init = "eos"]]
      /\ Idle /\ UNCHANGED <<Options, next, lost, count, reading, disk>>
      /\ DOMAIN files' = DOMAIN files
      /\ phase' \in {"closing", "crashed"}
  BY DEF ForceEnd
<1>2. \A i \in DOMAIN streams : [streams[i] EXCEPT !.init = "eos"] \in Streams
  BY StreamFacts DEF Streams
<1>3. streams' \in [1 .. Len(streams) -> Streams] /\ Len(streams) \in Nat
  BY <1>1, <1>2, StreamFacts
<1>4. streams' \in Seq(Streams) /\ Len(streams') = Len(streams)
  BY <1>3
<1>5. Streams' = Streams
  BY <1>1 DEF Streams
<1> QED BY <1>1, <1>3, <1>4, <1>5, StreamFacts DEF Closes, TypeOK, Options

LEMMA PagesInit == Init => PagesSound
<1> SUFFICES ASSUME Init PROVE PagesSound
  OBVIOUS
<1>1. TypeOK
  BY DEF Init, TypeOK
<1>2. \A s \in Serials : next[s] \in 1 .. Len(given[s]) + 1
  BY <1>1, PageFacts DEF Init
<1> QED BY <1>1, <1>2 DEF Init, PagesSound

(* A page less to come, lost or not.                                         *)
LEMMA OnePageLess ==
  ASSUME PagesSound, NEW s \in Serials, HasPage(s), given' = given,
         next' = [next EXCEPT ![s] = @ + 1], TypeOK', phase' = "reading",
         lost' \in {lost, lost \cup {<<s, next[s]>>}}
  PROVE  PagesSound'
<1>1. next[s] \in 1 .. Len(given[s]) /\ Len(given[s]) \in Nat
  BY PageFacts DEF PagesSound
<1>2. next'[s] = next[s] + 1 /\ \A r \in Serials : r # s => next'[r] = next[r]
  BY DEF PagesSound, TypeOK
<1>3. ASSUME NEW l \in lost'
      PROVE  l \in Serials \X Nat /\ l[2] < next'[l[1]]
  <2>1. CASE l \in lost
    <3>1. l[1] \in Serials /\ l[2] \in Nat /\ l[2] < next[l[1]] /\ next[l[1]] \in Nat
      BY <2>1 DEF PagesSound, TypeOK
    <3> QED BY <1>1, <1>2, <2>1, <3>1 DEF PagesSound
  <2>2. CASE l = <<s, next[s]>>
    BY <1>1, <1>2, <2>2
  <2> QED BY <2>1, <2>2
<1>4. \A r \in Serials : next'[r] \in 1 .. Len(given[r]) + 1
  BY <1>1, <1>2 DEF PagesSound
<1> QED BY <1>3, <1>4 DEF PagesSound

LEMMA PagesSame ==
  ASSUME PagesSound, TypeOK', given' = given, next' = next, lost' = lost,
         phase' = "closing" => reading' = 0
  PROVE  PagesSound'
BY DEF PagesSound

LEMMA PagesStep == PagesSound /\ [Next]_vars => PagesSound'
<1> SUFFICES ASSUME PagesSound, [Next]_vars PROVE PagesSound'
  OBVIOUS
<1>0. TypeOK
  BY DEF PagesSound
<1>1. CASE \E s \in Serials : BosPage(s) \/ NextPage(s)
  <2>1. PICK s \in Serials : BosPage(s) \/ NextPage(s)
    BY <1>1
  <2>2. TypeOK'
    BY <1>0, <2>1, TakesPageType
  <2> QED BY <2>1, <2>2, OnePageLess DEF BosPage, NextPage, Options, Idle
<1>2. CASE \E s \in Serials : StrayPage(s) \/ LosePage(s)
  <2>1. PICK s \in Serials : StrayPage(s) \/ LosePage(s)
    BY <1>2
  <2>2. /\ next' = [next EXCEPT ![s] = @ + 1] /\ HasPage(s)
        /\ UNCHANGED <<Options, count, streams, reading, files, disk, phase>>
        /\ lost' \in {lost, lost \cup {<<s, next[s]>>}} /\ phase = "reading"
    BY <2>1 DEF StrayPage, LosePage, Idle
  <2>3. TypeOK'
    <3>1. Streams' = Streams
      BY <2>2 DEF Streams
    <3> QED BY <1>0, <2>2, <3>1 DEF TypeOK, Options
  <2> QED BY <2>2, <2>3, OnePageLess DEF Options
<1>3. CASE EndOfPage \/ Abort \/ UNCHANGED vars
  <2>1. /\ UNCHANGED <<Options, next, lost, count, streams, files, disk>>
        /\ reading' \in {0, reading} /\ phase' \in {phase, "aborted"}
        /\ phase = phase' => reading' \in {0, reading}
    BY <1>3 DEF EndOfPage, Abort, vars, Options
  <2>2. Streams' = Streams
    BY <2>1 DEF Streams
  <2>3. TypeOK' /\ (phase' = "closing" => reading' = 0)
    BY <1>0, <2>1, <2>2 DEF TypeOK, Options, PagesSound
  <2> QED BY <2>1, <2>3, PagesSame DEF Options
<1>4. CASE Hole \/ Header \/ Open \/ Text \/ Silent \/ Bad \/ End
  <2>1. phase' # "closing"
    BY <1>4 DEF Hole, Header, Open, Text, Silent, Bad, End, Reads, Ready, Write
  <2> QED BY <1>0, <1>4, <2>1, ReadsPacketStep, PagesSame DEF ReadsPacket, Options
<1>5. CASE WrongHeader \/ Ignore
  BY <1>0, <1>5, RemovesStep, PagesSame DEF Removes, Options
<1>6. CASE ForceEnd
  BY <1>0, <1>6, ClosesStep, PagesSame DEF Closes, Options, Idle
<1>7. CASE ClearSet
  <2>1. /\ UNCHANGED <<Options, next, lost, count, reading, files>>
        /\ streams' = <<>> /\ phase' = "done" /\ reading = 0 /\ disk' \subseteq disk
    BY <1>7 DEF ClearSet, PagesSound
  <2>2. TypeOK'
    BY <1>0, <2>1 DEF TypeOK, Options
  <2> QED BY <2>1, <2>2, PagesSame DEF Options
<1> QED BY <1>1, <1>2, <1>3, <1>4, <1>5, <1>6, <1>7 DEF Next

-----------------------------------------------------------------------------
(* Queues: what waits is the last of what has come.                          *)

LEMMA QueueRead ==
  ASSUME NEW ks, ks.queue \in Seq(Packets \cup {Gap}), ks.queue # <<>>,
         NEW got \in SUBSET Packets, QueueSound(ks, got),
         NEW kt, kt.queue = Tail(ks.queue)
  PROVE  /\ QueueSound(kt, got)
         /\ Head(ks.queue) = Gap => Waiting(kt) = Waiting(ks)
         /\ Head(ks.queue) # Gap =>
              /\ Head(ks.queue) \in Waiting(ks)
              /\ \A p \in got \ Waiting(ks) : p.no < Head(ks.queue).no
              /\ got \ Waiting(kt) = (got \ Waiting(ks)) \cup {Head(ks.queue)}
              /\ \A q \in Waiting(kt) : Head(ks.queue).no < q.no
<1> DEFINE q == ks.queue
           r == Tail(q)
<1>1. /\ Len(q) \in Nat \ {0} /\ DOMAIN q = 1 .. Len(q) /\ DOMAIN r = 1 .. Len(q) - 1
      /\ \A k \in DOMAIN r : k + 1 \in DOMAIN q /\ r[k] = q[k + 1]
      /\ Head(q) = q[1] /\ 1 \in DOMAIN q /\ q = ks.queue /\ r = kt.queue
  BY TailFacts
<1> HIDE DEF q, r
<1>2. \A k \in DOMAIN q : q[k] = Head(q) \/ \E j \in DOMAIN r : r[j] = q[k]
  <2> TAKE k \in DOMAIN q
  <2>1. CASE k = 1
    BY <1>1, <2>1
  <2>2. CASE k # 1
    <3>1. k - 1 \in DOMAIN r /\ (k - 1) + 1 = k
      BY <1>1, <2>2
    <3> QED BY <1>1, <3>1
  <2> QED BY <2>1, <2>2
<1>3. \A x : x \in ToSet(q) <=> x = Head(q) \/ x \in ToSet(r)
  <2>1. ASSUME NEW x \in ToSet(q) PROVE x = Head(q) \/ x \in ToSet(r)
    <3>1. PICK k \in DOMAIN q : q[k] = x
      BY DEF ToSet
    <3>2. CASE q[k] = Head(q)
      BY <3>1, <3>2
    <3>3. CASE \E j \in DOMAIN r : r[j] = q[k]
      BY <3>1, <3>3 DEF ToSet
    <3> QED BY <1>2, <3>2, <3>3
  <2>2. ASSUME NEW x \in ToSet(r) PROVE x \in ToSet(q)
    <3>1. PICK k \in DOMAIN r : r[k] = x
      BY DEF ToSet
    <3>2. k + 1 \in DOMAIN q /\ q[k + 1] = x
      BY <1>1, <3>1
    <3> QED BY <3>2 DEF ToSet
  <2>3. Head(q) \in ToSet(q)
    BY <1>1 DEF ToSet
  <2> QED BY <2>1, <2>2, <2>3
<1>4. \A j, k \in DOMAIN q : j < k /\ q[j] # Gap /\ q[k] # Gap => q[j].no < q[k].no
  BY <1>1 DEF QueueSound
<1>5. Waiting(ks) = ToSet(q) \ {Gap} /\ Waiting(kt) = ToSet(r) \ {Gap}
  BY <1>1 DEF Waiting
<1>6. \A j, k \in DOMAIN r : j < k /\ r[j] # Gap /\ r[k] # Gap => r[j].no < r[k].no
  <2> SUFFICES ASSUME NEW j \in DOMAIN r, NEW k \in DOMAIN r,
                      j < k, r[j] # Gap, r[k] # Gap
               PROVE  r[j].no < r[k].no
    OBVIOUS
  <2>1. j + 1 \in DOMAIN q /\ k + 1 \in DOMAIN q /\ j + 1 < k + 1
    BY <1>1
  <2> QED BY <1>1, <1>4, <2>1
<1>7. Head(q) # Gap => \A x \in Waiting(kt) : Head(q).no < x.no
  <2> SUFFICES ASSUME Head(q) # Gap, NEW x \in Waiting(kt) PROVE Head(q).no < x.no
    OBVIOUS
  <2>1. PICK k \in DOMAIN r : r[k] = x
    BY <1>5 DEF ToSet
  <2>2. k + 1 \in DOMAIN q /\ 1 < k + 1 /\ q[k + 1] = x
    BY <1>1, <2>1
  <2> QED BY <1>1, <1>4, <1>5, <2>2
<1>8. /\ Waiting(ks) \subseteq got /\ Waiting(kt) \subseteq Waiting(ks)
      /\ \A p \in got \ Waiting(ks), x \in Waiting(ks) : p.no < x.no
  BY <1>3, <1>5 DEF QueueSound
<1>9. CASE Head(q) = Gap
  <2>1. Waiting(kt) = Waiting(ks)
    BY <1>3, <1>5, <1>9
  <2> QED BY <1>1, <1>6, <1>8, <1>9, <2>1 DEF QueueSound
<1>10. CASE Head(q) # Gap
  <2>1. Head(q) \in Waiting(ks) /\ Waiting(ks) = Waiting(kt) \cup {Head(q)}
    BY <1>3, <1>5, <1>10
  <2>2. Head(q).no \in Nat
    BY <1>8, <2>1, PacketFacts
  <2>3. Head(q) \notin Waiting(kt)
    BY <1>7, <1>10, <2>2
  <2>4. got \ Waiting(kt) = (got \ Waiting(ks)) \cup {Head(q)}
    BY <1>8, <2>1, <2>3
  <2>5. \A p \in got \ Waiting(kt), x \in Waiting(kt) : p.no < x.no
    BY <1>7, <1>8, <1>10, <2>4
  <2> QED BY <1>1, <1>6, <1>7, <1>8, <1>10, <2>1, <2>4, <2>5 DEF QueueSound
<1> QED BY <1>1, <1>9, <1>10

LEMMA QueuedFacts ==
  ASSUME NEW ks, ks.queue \in Seq(Packets \cup {Gap}), NEW page, page.packets \in Seq(Packets)
  PROVE  \E off \in Nat :
           /\ Len(ks.queue) <= off /\ Len(ks.queue) \in Nat
           /\ DOMAIN ks.queue = 1 .. Len(ks.queue)
           /\ DOMAIN page.packets = 1 .. Len(page.packets)
           /\ DOMAIN Queued(ks, page) = 1 .. off + Len(page.packets)
           /\ \A k \in DOMAIN ks.queue : Queued(ks, page)[k] = ks.queue[k]
           /\ \A k \in Len(ks.queue) + 1 .. off : Queued(ks, page)[k] = Gap
           /\ \A k \in DOMAIN page.packets : Queued(ks, page)[off + k] = page.packets[k]
           /\ page.no = ks.page => off = Len(ks.queue)
<1> DEFINE S == Packets \cup {Gap}
           gap == IF page.no = ks.page THEN <<>> ELSE <<Gap>>
           a == ks.queue \o gap
           off == Len(a)
<1>1. gap \in Seq(S) /\ Len(gap) \in {0, 1} /\ (page.no = ks.page => Len(gap) = 0)
      /\ \A k \in DOMAIN gap : gap[k] = Gap
  <2>1. <<Gap>> \in Seq(S) /\ <<>> \in Seq(S)
    OBVIOUS
  <2>2. CASE page.no = ks.page
    BY <2>1, <2>2
  <2>3. CASE page.no # ks.page
    BY <2>1, <2>3
  <2> QED BY <2>2, <2>3
<1>2. page.packets \in Seq(S) /\ ks.queue \in Seq(S)
  OBVIOUS
<1> HIDE DEF gap, S
<1>3. /\ a \in Seq(S) /\ Len(a) = Len(ks.queue) + Len(gap)
      /\ DOMAIN ks.queue = 1 .. Len(ks.queue) /\ Len(ks.queue) \in Nat
      /\ DOMAIN gap = 1 .. Len(gap)
      /\ \A k \in DOMAIN ks.queue : k \in DOMAIN a /\ a[k] = ks.queue[k]
      /\ \A k \in DOMAIN gap : a[Len(ks.queue) + k] = gap[k]
      /\ DOMAIN a = 1 .. Len(ks.queue) + Len(gap)
  BY <1>1, <1>2, ConcatFacts
<1>4. \A k \in Len(ks.queue) + 1 .. off : k \in DOMAIN a /\ a[k] = Gap
  <2> TAKE k \in Len(ks.queue) + 1 .. off
  <2>1. PICK j \in DOMAIN gap : k = Len(ks.queue) + j
    <3>1. k - Len(ks.queue) \in DOMAIN gap /\ k = Len(ks.queue) + (k - Len(ks.queue))
      BY <1>1, <1>3
    <3> QED BY <3>1
  <2> QED BY <1>1, <1>3, <2>1
<1> HIDE DEF a
<1>5. /\ DOMAIN (a \o page.packets) = 1 .. Len(a) + Len(page.packets)
      /\ \A k \in DOMAIN a : (a \o page.packets)[k] = a[k]
      /\ \A k \in DOMAIN page.packets : (a \o page.packets)[Len(a) + k] = page.packets[k]
      /\ DOMAIN page.packets = 1 .. Len(page.packets)
  <2>1. a \in Seq(S) /\ page.packets \in Seq(S)
    BY <1>2, <1>3
  <2>2. /\ DOMAIN (a \o page.packets) = 1 .. Len(a) + Len(page.packets)
        /\ DOMAIN page.packets = 1 .. Len(page.packets)
    BY <2>1, ConcatFacts
  <2>3. \A k \in DOMAIN a : (a \o page.packets)[k] = a[k]
    BY <2>1, ConcatFacts
  <2>4. \A k \in DOMAIN page.packets : (a \o page.packets)[Len(a) + k] = page.packets[k]
    BY <2>1, ConcatFacts
  <2> QED BY <2>2, <2>3, <2>4
<1>6. Queued(ks, page) = a \o page.packets
  BY DEF Queued, a, gap
<1>7. off \in Nat /\ Len(ks.queue) <= off /\ (page.no = ks.page => off = Len(ks.queue))
  BY <1>1, <1>3
<1> QED BY <1>3, <1>4, <1>5, <1>6, <1>7

(* The packets of a page are in order, and after those that were got.        *)
Follows(page, got) ==
  /\ \A j, k \in DOMAIN page.packets : j < k => page.packets[j].no < page.packets[k].no
  /\ \A p \in got, q \in ToSet(page.packets) : p.no < q.no

LEMMA QueueFed ==
  ASSUME NEW ks, ks.queue \in Seq(Packets \cup {Gap}),
         NEW page, page.packets \in Seq(Packets),
         NEW got \in SUBSET Packets, QueueSound(ks, got),
         Follows(page, got),
         NEW kt, kt.queue = Queued(ks, page)
  PROVE  /\ QueueSound(kt, got \cup ToSet(page.packets))
         /\ (got \cup ToSet(page.packets)) \ Waiting(kt) = got \ Waiting(ks)
<1> DEFINE q == kt.queue
           new == ToSet(page.packets)
<1>1. PICK off \in Nat :
           /\ Len(ks.queue) <= off /\ Len(ks.queue) \in Nat
           /\ DOMAIN ks.queue = 1 .. Len(ks.queue)
           /\ DOMAIN page.packets = 1 .. Len(page.packets)
           /\ DOMAIN q = 1 .. off + Len(page.packets)
           /\ \A k \in DOMAIN ks.queue : q[k] = ks.queue[k]
           /\ \A k \in Len(ks.queue) + 1 .. off : q[k] = Gap
           /\ \A k \in DOMAIN page.packets : q[off + k] = page.packets[k]
  BY QueuedFacts
<1>2. /\ Len(page.packets) \in Nat
      /\ \A j, k \in DOMAIN page.packets : j < k => page.packets[j].no < page.packets[k].no
      /\ \A p \in got, x \in new : p.no < x.no
  BY DEF Follows
<1>3. \A k \in DOMAIN q :
        \/ k \in DOMAIN ks.queue \/ k \in Len(ks.queue) + 1 .. off
        \/ (k - off \in DOMAIN page.packets /\ q[k] = page.packets[k - off])
  <2> TAKE k \in DOMAIN q
  <2>1. k \in DOMAIN ks.queue \/ k \in Len(ks.queue) + 1 .. off \/ k - off \in DOMAIN page.packets
    BY <1>1, <1>2
  <2>2. k - off \in DOMAIN page.packets => q[k] = page.packets[k - off]
    <3>1. k = off + (k - off)
      BY <1>1
    <3> QED BY <1>1, <3>1
  <2> QED BY <2>1, <2>2
<1>4. new \subseteq Packets /\ Gap \notin new /\ \A x \in new : x.no \in Nat
  BY PacketFacts DEF ToSet
<1>5. Waiting(kt) = Waiting(ks) \cup new
  <2>1. \A x : x \in ToSet(q) \ {Gap} => x \in (ToSet(ks.queue) \ {Gap}) \cup new
    BY <1>1, <1>3 DEF ToSet
  <2>2. \A k \in DOMAIN page.packets : off + k \in DOMAIN q
    BY <1>1, <1>2
  <2>3. \A x : x \in (ToSet(ks.queue) \ {Gap}) \cup new => x \in ToSet(q) \ {Gap}
    <3>1. DOMAIN ks.queue \subseteq DOMAIN q
      BY <1>1, <1>2
    <3> QED BY <1>1, <1>4, <2>2, <3>1 DEF ToSet
  <2> QED BY <2>1, <2>3 DEF Waiting
<1>6. /\ Waiting(ks) \subseteq got
      /\ \A p \in got \ Waiting(ks), x \in Waiting(ks) : p.no < x.no
      /\ \A j, k \in DOMAIN ks.queue :
           j < k /\ ks.queue[j] # Gap /\ ks.queue[k] # Gap => ks.queue[j].no < ks.queue[k].no
  BY DEF QueueSound
<1>7. got \cap new = {}
  BY <1>2, <1>4
<1>8. (got \cup new) \ Waiting(kt) = got \ Waiting(ks)
  BY <1>5, <1>6, <1>7
<1>9. \A p \in (got \cup new) \ Waiting(kt), x \in Waiting(kt) : p.no < x.no
  BY <1>2, <1>5, <1>6, <1>8
<1>10. ASSUME NEW j \in DOMAIN q, NEW k \in DOMAIN q, j < k, q[j] # Gap, q[k] # Gap
       PROVE  q[j].no < q[k].no
  <2>1. CASE j \in DOMAIN ks.queue /\ k \in DOMAIN ks.queue
    BY <1>1, <1>6, <1>10, <2>1
  <2>2. CASE j \in DOMAIN ks.queue /\ k - off \in DOMAIN page.packets
                                   /\ q[k] = page.packets[k - off]
    <3>1. q[j] \in Waiting(ks) /\ q[k] \in new
      BY <1>1, <1>10, <2>2 DEF Waiting, ToSet
    <3> QED BY <1>2, <1>6, <3>1
  <2>3. CASE j - off \in DOMAIN page.packets /\ q[j] = page.packets[j - off]
    <3>1. k - off \in DOMAIN page.packets /\ q[k] = page.packets[k - off] /\ j - off < k - off
      BY <1>1, <1>2, <1>3, <1>10, <2>3
    <3> QED BY <1>2, <2>3, <3>1
  <2> QED BY <1>1, <1>3, <1>10, <2>1, <2>2, <2>3
<1> QED BY <1>5, <1>6, <1>8, <1>9, <1>10 DEF QueueSound

-----------------------------------------------------------------------------
(* Streams: what has been taken of the pages of each.                        *)

Sound(i) ==
  /\ \E n \in PagesOf(streams[i].serial) : given[streams[i].serial][n].bos
  /\ QueueSound(streams[i], Got(i))
Idles(i) == Untouched(streams[i])

LEMMA SoundStreams ==
  StreamsSound <=>
    /\ PagesSound
    /\ \A i, j \in DOMAIN streams :
         i < j /\ streams[i].serial = streams[j].serial => Idles(j)
    /\ \A i \in DOMAIN streams : Sound(i)
BY DEF StreamsSound, Sound, Idles

LEMMA PagesOfFacts ==
  ASSUME TypeOK, NEW s \in Serials
  PROVE  /\ PagesOf(s) \subseteq Nat \ {0}
         /\ \A n \in PagesOf(s) : n < next[s]
         /\ next[s] \in Nat
<1>1. next[s] \in Nat
  BY DEF TypeOK
<1> QED BY <1>1 DEF PagesOf

LEMMA InGot ==
  ASSUME NEW i, NEW p
  PROVE  p \in Got(i) <=>
           \E n \in PagesOf(streams[i].serial) :
             n >= streams[i].from /\ p \in ToSet(given[streams[i].serial][n].packets)
BY DEF Got, TakenIn

LEMMA GotPackets ==
  ASSUME PagesSound, NEW i \in DOMAIN streams
  PROVE  /\ Got(i) \in SUBSET Packets
         /\ streams[i].serial \in Serials
         /\ streams[i].queue \in Seq(Packets \cup {Gap})
         /\ streams[i].from \in Nat
<1>1. streams[i] \in Streams
  BY StreamFacts DEF PagesSound
<1>2. PICK s \in Serials : s = streams[i].serial
  BY <1>1 DEF Streams
<1>3. /\ given[s] \in Seq(Pages) /\ DOMAIN given[s] = 1 .. Len(given[s])
      /\ Len(given[s]) \in Nat
  BY PageFacts DEF PagesSound
<1>4. ASSUME NEW n \in PagesOf(s) PROVE n \in DOMAIN given[s] /\ given[s][n].packets \in Seq(Packets)
  <2>1. n \in Nat \ {0} /\ n < next[s] /\ next[s] \in 1 .. Len(given[s]) + 1
    BY PagesOfFacts DEF PagesSound
  <2>2. n \in DOMAIN given[s]
    BY <1>3, <2>1
  <2>3. given[s][n] \in Pages
    BY <1>3, <2>2
  <2> QED BY <2>2, <2>3 DEF Pages
<1>5. ASSUME NEW p \in Got(i) PROVE p \in Packets
  <2>1. PICK n \in PagesOf(s) : p \in ToSet(given[s][n].packets)
    BY <1>2, InGot
  <2>2. given[s][n].packets \in Seq(Packets)
    BY <1>4
  <2> QED BY <2>1, <2>2 DEF ToSet
<1> QED BY <1>1, <1>2, <1>5 DEF Streams

LEMMA GotSame ==
  ASSUME NEW r, NEW j, NEW k, PagesOf(r)' = PagesOf(r), given' = given,
         streams'[j].serial = r, streams[k].serial = r,
         streams'[j].from = streams[k].from
  PROVE  Got(j)' = Got(k)
<1>1. Got(k) = UNION {ToSet(given[r][n].packets) : n \in {m \in PagesOf(r) : m >= streams[k].from}}
  BY DEF Got, TakenIn
<1>2. Got(j)' = UNION {ToSet(given'[r][n].packets) : n \in {m \in PagesOf(r)' : m >= streams'[j].from}}
  BY DEF Got, TakenIn, PagesOf
<1> QED BY <1>1, <1>2

LEMMA PagesKept ==
  ASSUME NEW r, next'[r] = next[r], \A n : <<r, n>> \in lost' <=> <<r, n>> \in lost
  PROVE  PagesOf(r)' = PagesOf(r)
BY DEF PagesOf

(* A stream that is as it was, though perhaps in another place.              *)
LEMMA StreamKept ==
  ASSUME NEW r, NEW j, NEW k, PagesOf(r)' = PagesOf(r), given' = given,
         streams[k].serial = r, streams'[j].serial = r,
         streams'[j].from = streams[k].from,
         streams'[j].queue = streams[k].queue
  PROVE  /\ Got(j)' = Got(k)
         /\ Sound(k) => Sound(j)'
         /\ Idles(k) /\ streams'[j].probe = streams[k].probe
              /\ streams'[j].fout = streams[k].fout /\ streams'[j].ret = streams[k].ret
            => Idles(j)'
<1>1. Got(j)' = Got(k)
  BY GotSame
<1>2. StartsOnce(r)' = StartsOnce(r)
  BY DEF StartsOnce
<1>3. ASSUME Sound(k) PROVE Sound(j)'
  <2>1. PICK n \in PagesOf(r) : given[r][n].bos
    BY <1>3 DEF Sound
  <2>2. n \in PagesOf(r)' /\ given'[r][n].bos
    BY <2>1
  <2>3. QueueSound(streams[j], Got(j))'
    BY <1>1, <1>3 DEF Sound, QueueSound, Waiting
  <2>4. (\E m \in PagesOf(streams[j].serial) : given[streams[j].serial][m].bos)'
    BY <2>2 DEF PagesOf
  <2> QED BY <2>3, <2>4 DEF Sound
<1>4. ASSUME Idles(k), streams'[j].probe = streams[k].probe,
             streams'[j].fout = streams[k].fout, streams'[j].ret = streams[k].ret
      PROVE  Idles(j)'
  <2>1. /\ streams'[j].from = Len(given'[r]) + 1 /\ streams'[j].queue = <<>>
        /\ streams'[j].probe = 0 /\ streams'[j].fout = {} /\ streams'[j].ret = 0
        /\ ~StartsOnce(r)
    BY <1>4 DEF Idles, Untouched
  <2>2. (~StartsOnce(streams[j].serial))'
    BY <1>2, <2>1 DEF StartsOnce, PagesOf
  <2> QED BY <2>1, <2>2 DEF Idles, Untouched
<1> QED BY <1>1, <1>3, <1>4

LEMMA PagesGrow ==
  ASSUME PagesSound, NEW s \in Serials, HasPage(s), given' = given,
         next' = [next EXCEPT ![s] = @ + 1]
  PROVE  /\ \A r \in Serials : r # s => next'[r] = next[r]
         /\ next'[s] = next[s] + 1 /\ next[s] \in Nat \ {0}
         /\ lost' = lost => /\ PagesOf(s)' = PagesOf(s) \cup {next[s]}
                            /\ \A r \in Serials : r # s => PagesOf(r)' = PagesOf(r)
         /\ lost' = lost \cup {<<s, next[s]>>} =>
              \A r \in Serials : PagesOf(r)' = PagesOf(r)
<1>1. next[s] \in Nat \ {0} /\ next'[s] = next[s] + 1
  BY PageFacts DEF PagesSound, TypeOK
<1>2. \A r \in Serials : r # s => next'[r] = next[r]
  BY DEF PagesSound, TypeOK
<1>3. <<s, next[s]>> \notin lost
  <2>1. ASSUME <<s, next[s]>> \in lost PROVE FALSE
    <3> DEFINE l == <<s, next[s]>>
    <3>1. l[2] < next[l[1]]
      BY <2>1 DEF PagesSound
    <3> QED BY <1>1, <3>1
  <2> QED BY <2>1
<1>4. ASSUME lost' = lost
      PROVE  /\ PagesOf(s)' = PagesOf(s) \cup {next[s]}
             /\ \A r \in Serials : r # s => PagesOf(r)' = PagesOf(r)
  <2>1. PagesOf(s)' = {n \in 1 .. next[s] : <<s, n>> \notin lost}
    BY <1>1, <1>4 DEF PagesOf
  <2>2. \A n : n \in 1 .. next[s] <=> n \in 1 .. next[s] - 1 \/ n = next[s]
    BY <1>1
  <2>3. PagesOf(s)' = PagesOf(s) \cup {next[s]}
    BY <1>3, <2>1, <2>2 DEF PagesOf
  <2>4. \A r \in Serials : r # s => PagesOf(r)' = PagesOf(r)
    BY <1>2, <1>4, PagesKept
  <2> QED BY <2>3, <2>4
<1>5. ASSUME lost' = lost \cup {<<s, next[s]>>}, NEW r \in Serials
      PROVE  PagesOf(r)' = PagesOf(r)
  <2>1. CASE r # s
    <3>1. \A n : <<r, n>> \in lost' <=> <<r, n>> \in lost
      BY <1>5, <2>1
    <3> QED BY <1>2, <2>1, <3>1, PagesKept
  <2>2. CASE r = s
    <3>1. PagesOf(r)' = {n \in 1 .. next[s] : <<s, n>> \notin lost'}
      BY <1>1, <2>2 DEF PagesOf
    <3>2. \A n : n \in 1 .. next[s] /\ <<s, n>> \notin lost' <=>
                 n \in 1 .. next[s] - 1 /\ <<s, n>> \notin lost
      BY <1>1, <1>5
    <3> QED BY <2>2, <3>1, <3>2 DEF PagesOf
  <2> QED BY <2>1, <2>2
<1> QED BY <1>1, <1>2, <1>4, <1>5

(* The numbers of the packets of a page, and of those before it.             *)
LEMMA PageIsLater ==
  ASSUME PagesSound, NEW s \in Serials, HasPage(s)
  PROVE  /\ \A j, k \in DOMAIN Page(s).packets :
              j < k => Page(s).packets[j].no < Page(s).packets[k].no
         /\ \A n \in PagesOf(s) : n \in DOMAIN given[s] /\
              \A p \in ToSet(given[s][n].packets), q \in ToSet(Page(s).packets) : p.no < q.no
         /\ \A q \in ToSet(Page(s).packets) : q.serial = s
<1>1. /\ next[s] \in DOMAIN given[s] /\ Page(s) = given[s][next[s]] /\ next[s] \in Nat
      /\ WellFormed(s, given[s]) /\ DOMAIN given[s] = 1 .. Len(given[s]) /\ Len(given[s]) \in Nat
  BY PageFacts DEF HasPage, Page, PagesSound
<1>2. \A n \in PagesOf(s) : n \in DOMAIN given[s] /\ n < next[s]
  BY <1>1, PagesOfFacts DEF PagesSound
<1>3. \A q \in ToSet(Page(s).packets) : q.serial = s
  BY <1>1 DEF WellFormed, ToSet
<1>4. \A j, k \in DOMAIN Page(s).packets :
        j < k => Page(s).packets[j].no < Page(s).packets[k].no
  BY <1>1 DEF WellFormed
<1>5. ASSUME NEW n \in PagesOf(s), NEW p \in ToSet(given[s][n].packets),
             NEW q \in ToSet(Page(s).packets)
      PROVE  p.no < q.no
  <2>1. PICK j \in DOMAIN given[s][n].packets : p = given[s][n].packets[j]
    BY DEF ToSet
  <2>2. PICK k \in DOMAIN given[s][next[s]].packets : q = given[s][next[s]].packets[k]
    BY <1>1 DEF ToSet
  <2>3. n < next[s] /\ n \in DOMAIN given[s]
    BY <1>2
  <2> QED BY <1>1, <2>1, <2>2, <2>3 DEF WellFormed
<1> QED BY <1>2, <1>3, <1>4, <1>5

(* What the stream that takes the page is then.                              *)
Before(i) == IF i \in DOMAIN streams THEN Got(i) ELSE {}

LEMMA PageTaken ==
  ASSUME PagesSound, NEW s \in Serials, NEW i \in Nat, TakesPage(s, i)
  PROVE  /\ Got(i)' = Before(i) \cup ToSet(Page(s).packets)
         /\ Before(i) \in SUBSET Packets
         /\ \A p \in Before(i), q \in ToSet(Page(s).packets) : p.no < q.no
         /\ OldStream(s, i) \in Streams
         /\ i \notin DOMAIN streams => OldStream(s, i) = NewStream(s) /\ i = Len(streams) + 1
         /\ i \in DOMAIN streams => OldStream(s, i) = streams[i]
         /\ streams'[i].serial = s
         /\ streams'[i].from <= next[s] /\ streams'[i].from \in Nat
         /\ streams'[i].queue = Queued(OldStream(s, i), Page(s))
         /\ streams'[i].page = Page(s).no + 1
         /\ streams'[i].probe = OldStream(s, i).probe
         /\ streams'[i].init = OldStream(s, i).init
         /\ streams'[i].fout = OldStream(s, i).fout
         /\ streams'[i].ret = OldStream(s, i).ret
<1>0. TypeOK /\ HasPage(s) /\ given' = given /\ lost' = lost
      /\ next' = [next EXCEPT ![s] = @ + 1]
  BY DEF PagesSound, TakesPage, Options
<1>1. /\ OldStream(s, i) \in Streams /\ OldStream(s, i).serial = s
      /\ i \notin DOMAIN streams => OldStream(s, i) = NewStream(s) /\ i = Len(streams) + 1
      /\ i \in DOMAIN streams => OldStream(s, i) = streams[i]
  BY <1>0, NewStreamType, StreamFacts DEF OldStream, TakesPage
<1> DEFINE from == OldStream(s, i).from
<1>2. /\ streams'[i].serial = s
      /\ streams'[i].from = IF from < next[s] THEN from ELSE next[s]
      /\ streams'[i].queue = Queued(OldStream(s, i), Page(s))
      /\ streams'[i].page = Page(s).no + 1
      /\ streams'[i].probe = OldStream(s, i).probe
      /\ streams'[i].init = OldStream(s, i).init
      /\ streams'[i].fout = OldStream(s, i).fout
      /\ streams'[i].ret = OldStream(s, i).ret
  <2> DEFINE o == OldStream(s, i)
  <2>1. streams'[i] = Taken(o, Page(s)) \/ streams'[i] = [Taken(o, Page(s)) EXCEPT !.data = NewData]
    BY DEF TakesPage
  <2>2. o \in Streams /\ o.serial = s
    BY <1>1
  <2> HIDE DEF o
  <2>3. /\ Taken(o, Page(s)).serial = s
        /\ Taken(o, Page(s)).from = IF o.from < next[s] THEN o.from ELSE next[s]
        /\ Taken(o, Page(s)).queue = Queued(o, Page(s))
        /\ Taken(o, Page(s)).page = Page(s).no + 1
        /\ Taken(o, Page(s)).probe = o.probe /\ Taken(o, Page(s)).init = o.init
        /\ Taken(o, Page(s)).fout = o.fout /\ Taken(o, Page(s)).ret = o.ret
    BY <2>2 DEF Taken, Streams
  <2>4. Taken(o, Page(s)) \in Streams
    BY <1>0, <2>2, TakenType
  <2> HIDE DEF Taken
  <2>5. /\ streams'[i].serial = Taken(o, Page(s)).serial
        /\ streams'[i].from = Taken(o, Page(s)).from
        /\ streams'[i].queue = Taken(o, Page(s)).queue
        /\ streams'[i].page = Taken(o, Page(s)).page
        /\ streams'[i].probe = Taken(o, Page(s)).probe
        /\ streams'[i].init = Taken(o, Page(s)).init
        /\ streams'[i].fout = Taken(o, Page(s)).fout
        /\ streams'[i].ret = Taken(o, Page(s)).ret
    BY <2>1, <2>4 DEF Streams
  <2> QED BY <2>3, <2>5 DEF o
<1>3. /\ PagesOf(s)' = PagesOf(s) \cup {next[s]} /\ next[s] \in Nat \ {0}
      /\ \A n \in PagesOf(s) : n \in Nat /\ n < next[s]
  BY <1>0, PagesGrow, PagesOfFacts
<1>4. from \in Nat
  BY <1>1 DEF Streams
<1>5. \A p : p \in Before(i) <=> \E n \in PagesOf(s) : n >= from /\ p \in ToSet(given[s][n].packets)
  <2>1. CASE i \in DOMAIN streams
    BY <1>1, <2>1, InGot DEF Before
  <2>2. CASE i \notin DOMAIN streams
    <3>1. from = Len(given[s]) + 1
      BY <1>1, <2>2 DEF NewStream
    <3>2. \A n \in PagesOf(s) : ~(n >= from)
      BY <1>0, <1>3, <3>1, PageFacts
    <3> QED BY <2>2, <3>2 DEF Before
  <2> QED BY <2>1, <2>2
<1>6. \A p : p \in Got(i)' <=> \E n \in PagesOf(s)' :
               n >= streams'[i].from /\ p \in ToSet(given[s][n].packets)
  BY <1>0, <1>2 DEF Got, TakenIn, PagesOf
<1>7. \A n \in PagesOf(s) : n >= streams'[i].from <=> n >= from
  BY <1>2, <1>3, <1>4
<1>8. next[s] >= streams'[i].from /\ streams'[i].from \in Nat
  BY <1>2, <1>3, <1>4
<1>9. \A p : p \in Got(i)' <=> p \in Before(i) \/ p \in ToSet(Page(s).packets)
  BY <1>3, <1>5, <1>6, <1>7, <1>8 DEF Page
<1>10. Before(i) \in SUBSET Packets
  BY GotPackets DEF Before
<1>11. \A p \in Before(i), q \in ToSet(Page(s).packets) : p.no < q.no
  BY <1>0, <1>5, PageIsLater
<1> QED BY <1>1, <1>2, <1>8, <1>9, <1>10, <1>11

LEMMA NoneTaken ==
  ASSUME NEW ks, ks.queue = <<>>
  PROVE  QueueSound(ks, {}) /\ Waiting(ks) = {}
<1>1. Waiting(ks) = {} /\ DOMAIN ks.queue = {}
  BY DEF Waiting, ToSet
<1> QED BY <1>1 DEF QueueSound

LEMMA StartsTwice ==
  ASSUME NEW r, PagesOf(r) \subseteq PagesOf(r)', given' = given, ~StartsOnce(r)
  PROVE  (~StartsOnce(r))'
<1>1. PICK m \in PagesOf(r), n \in PagesOf(r) :
        given[r][m].bos /\ given[r][n].bos /\ m # n
  BY DEF StartsOnce
<1> QED BY <1>1 DEF StartsOnce

LEMMA StreamsTakes ==
  ASSUME StreamsSound, PagesSound', NEW s \in Serials, NEW i \in Nat, TakesPage(s, i)
  PROVE  /\ StreamsSound'
         /\ \A j \in DOMAIN streams : j # i => Got(j)' = Got(j) /\ streams'[j] = streams[j]
         /\ \A j \in DOMAIN streams' : j = i \/ j \in DOMAIN streams \/
              (i \in DOMAIN streams /\ j = Len(streams) + 1 /\ streams'[j] = NewStream(s)
               /\ Got(j)' = {})
         /\ (Got(i) \ Waiting(streams[i]))' =
              IF i \in DOMAIN streams THEN Got(i) \ Waiting(streams[i]) ELSE {}
<1>0. /\ PagesSound /\ TypeOK /\ HasPage(s) /\ given' = given /\ lost' = lost
      /\ next' = [next EXCEPT ![s] = @ + 1]
      /\ \A j, k \in DOMAIN streams :
           j < k /\ streams[j].serial = streams[k].serial => Idles(k)
      /\ \A j \in DOMAIN streams : Sound(j)
  BY SoundStreams DEF PagesSound, TakesPage, Options
<1>1. /\ Len(streams) \in Nat /\ DOMAIN streams = 1 .. Len(streams)
      /\ \A j \in DOMAIN streams : streams[j] \in Streams
  BY <1>0, StreamFacts
<1>2. /\ Got(i)' = Before(i) \cup ToSet(Page(s).packets)
      /\ Before(i) \in SUBSET Packets
      /\ \A p \in Before(i), q \in ToSet(Page(s).packets) : p.no < q.no
      /\ OldStream(s, i) \in Streams
      /\ i \notin DOMAIN streams => OldStream(s, i) = NewStream(s) /\ i = Len(streams) + 1
      /\ i \in DOMAIN streams => OldStream(s, i) = streams[i]
      /\ streams'[i].serial = s
      /\ streams'[i].queue = Queued(OldStream(s, i), Page(s))
  BY <1>0, PageTaken
<1>3. /\ PagesOf(s)' = PagesOf(s) \cup {next[s]} /\ next[s] \in Nat \ {0}
      /\ \A r \in Serials : r # s => PagesOf(r)' = PagesOf(r)
      /\ \A n \in PagesOf(s) : n \in Nat /\ n < next[s]
  BY <1>0, PagesGrow, PagesOfFacts
<1>4. next[s] < Len(given[s]) + 1 /\ next[s] \in Nat /\ Len(given[s]) \in Nat
  BY <1>0, PageFacts
<1>5. /\ i \in DOMAIN streams' /\ streams' \in Seq({streams'[j] : j \in DOMAIN streams'})
      /\ \A j \in DOMAIN streams : j \in DOMAIN streams' /\ (j # i => streams'[j] = streams[j])
      /\ \A j \in DOMAIN streams : j < i => streams[j].serial # s
      /\ \/ /\ Len(streams') = Len(streams) /\ i \in DOMAIN streams /\ ~Page(s).bos
         \/ /\ Len(streams') = Len(streams) + 1 /\ Page(s).bos
            /\ i \in DOMAIN streams => streams'[Len(streams) + 1] = NewStream(s)
      /\ OldStream(s, i).serial = s
  BY DEF TakesPage
<1>6. /\ DOMAIN streams' = 1 .. Len(streams') /\ i \in 1 .. Len(streams) + 1
      /\ Len(streams') = Len(streams) \/ Len(streams') = Len(streams) + 1
  BY <1>5 DEF TakesPage
<1>16. PICK was \in Nat : was = Len(streams)
  BY <1>1
<1>17. PICK is \in {was, was + 1} : is = Len(streams')
  BY <1>6, <1>16
<1>18. /\ DOMAIN streams = 1 .. was /\ DOMAIN streams' = 1 .. is /\ i \in 1 .. was + 1
       /\ is = was => i \in 1 .. was
       /\ is = was + 1 =>
            Page(s).bos /\ (i \in DOMAIN streams => streams'[was + 1] = NewStream(s))
  <2>1. /\ DOMAIN streams = 1 .. was /\ DOMAIN streams' = 1 .. is /\ i \in 1 .. was + 1
    BY <1>1, <1>6, <1>16, <1>17
  <2>2. CASE is = was
    <3>1. i \in DOMAIN streams
      BY <1>5, <1>16, <1>17, <2>2
    <3> QED BY <2>1, <2>2, <3>1
  <2>3. CASE is = was + 1
    <3>1. Len(streams') = Len(streams) + 1 /\ Len(streams') # Len(streams)
      BY <1>16, <1>17, <2>3
    <3>2. Page(s).bos /\ (i \in DOMAIN streams => streams'[Len(streams) + 1] = NewStream(s))
      BY <1>5, <3>1
    <3> QED BY <1>16, <2>1, <2>3, <3>2
  <2> QED BY <2>2, <2>3
<1>7. \A j \in DOMAIN streams' :
        j = i \/ j \in DOMAIN streams \/
        (i \in DOMAIN streams /\ j = Len(streams) + 1 /\ streams'[j] = NewStream(s) /\ Page(s).bos)
  <2> SUFFICES ASSUME NEW j \in DOMAIN streams', j # i, j \notin DOMAIN streams
               PROVE  /\ i \in DOMAIN streams /\ j = Len(streams) + 1
                      /\ streams'[j] = NewStream(s) /\ Page(s).bos
    OBVIOUS
  <2>1. j = was + 1 /\ is = was + 1 /\ i \in DOMAIN streams
    BY <1>17, <1>18
  <2> QED BY <1>16, <1>18, <2>1
(* The old ones. *)
<1>8. ASSUME NEW j \in DOMAIN streams, j # i
      PROVE  /\ Got(j)' = Got(j) /\ Sound(j)' /\ (Idles(j) => Idles(j)')
  <2>1. PICK r \in Serials : r = streams[j].serial
    BY <1>1 DEF Streams
  <2>2. streams'[j] = streams[j]
    BY <1>5, <1>8
  <2>3. CASE r # s
    <3>1. PagesOf(r)' = PagesOf(r)
      BY <1>3, <2>3
    <3> QED BY <1>0, <2>1, <2>2, <3>1, StreamKept
  <2>4. CASE r = s
    <3>1. i \in DOMAIN streams /\ i < j
      <4>1. ~(j < i)
        BY <1>5, <2>1, <2>4
      <4> QED BY <1>8, <1>18, <4>1
    <3>2. streams[i].serial = s
      BY <1>2, <1>5, <3>1
    <3>3. Idles(j)
      BY <1>0, <2>1, <2>4, <3>1, <3>2
    <3>4. /\ streams'[j].from = Len(given[s]) + 1 /\ streams'[j].queue = <<>>
          /\ streams'[j].serial = s /\ ~StartsOnce(s)
          /\ streams'[j].probe = 0 /\ streams'[j].fout = {} /\ streams'[j].ret = 0
      BY <2>1, <2>2, <2>4, <3>3 DEF Idles, Untouched
    <3>5. Got(j)' = {}
      <4>1. \A n \in PagesOf(s)' : ~(n >= streams'[j].from)
        BY <1>3, <1>4, <3>4
      <4> QED BY <3>4, <4>1 DEF Got, TakenIn, PagesOf
    <3>6. Got(j) = {}
      <4>1. \A n \in PagesOf(s) : ~(n >= streams[j].from)
        BY <1>3, <1>4, <2>2, <3>4
      <4> QED BY <2>2, <3>4, <4>1 DEF Got, TakenIn
    <3>7. Idles(j)'
      <4>1. (~StartsOnce(s))'
        BY <1>0, <1>3, <3>4, StartsTwice
      <4> QED BY <1>0, <3>4, <4>1 DEF Idles, Untouched, StartsOnce, PagesOf
    <3>8. Sound(j)'
      <4>1. PICK n \in PagesOf(s) : given[s][n].bos
        BY <1>0, <2>1, <2>4 DEF Sound
      <4>2. (\E m \in PagesOf(streams[j].serial) : given[streams[j].serial][m].bos)'
        BY <1>0, <1>3, <3>4, <4>1 DEF PagesOf
      <4>3. QueueSound(streams[j], Got(j))'
        <5>1. QueueSound(streams[j], {})
          BY <2>2, <3>4, NoneTaken
        <5> QED BY <2>2, <3>5, <5>1 DEF QueueSound, Waiting
      <4> QED BY <4>2, <4>3 DEF Sound
    <3> QED BY <3>5, <3>6, <3>7, <3>8
  <2> QED BY <2>3, <2>4
(* The one that takes the page. *)
<1>9. /\ QueueSound(streams[i], Got(i))'
      /\ (Got(i) \ Waiting(streams[i]))' =
           IF i \in DOMAIN streams THEN Got(i) \ Waiting(streams[i]) ELSE {}
  <2>1. PICK ks : ks = OldStream(s, i)
    OBVIOUS
  <2>2. PICK page : page = Page(s)
    OBVIOUS
  <2>3. PICK got : got = Before(i)
    OBVIOUS
  <2>4. ks.queue \in Seq(Packets \cup {Gap}) /\ page.packets \in Seq(Packets)
    BY <1>0, <1>2, <2>1, <2>2, PageFacts DEF Streams
  <2>5. QueueSound(ks, got) /\ got \ Waiting(ks) =
           IF i \in DOMAIN streams THEN Got(i) \ Waiting(streams[i]) ELSE {}
    <3>1. CASE i \in DOMAIN streams
      BY <1>0, <1>2, <2>1, <2>3, <3>1 DEF Sound, Before
    <3>2. CASE i \notin DOMAIN streams
      <4>1. ks.queue = <<>> /\ got = {}
        BY <1>2, <2>1, <2>3, <3>2 DEF NewStream, Before
      <4> QED BY <3>2, <4>1, NoneTaken
    <3> QED BY <3>1, <3>2
  <2>6. \A j, k \in DOMAIN page.packets : j < k => page.packets[j].no < page.packets[k].no
    BY <1>0, <2>2, PageIsLater
  <2>7. Follows(page, got)
    BY <1>2, <2>2, <2>3, <2>6 DEF Follows
  <2>8. PICK kt : kt = streams'[i]
    OBVIOUS
  <2>9. kt.queue = Queued(ks, page) /\ got \in SUBSET Packets
    BY <1>2, <2>1, <2>2, <2>3, <2>8
  <2>10. /\ QueueSound(kt, got \cup ToSet(page.packets))
         /\ (got \cup ToSet(page.packets)) \ Waiting(kt) = got \ Waiting(ks)
    BY <2>4, <2>5, <2>7, <2>9, QueueFed
  <2>11. Got(i)' = got \cup ToSet(page.packets)
    BY <1>2, <2>2, <2>3
  <2> QED BY <2>5, <2>8, <2>10, <2>11 DEF QueueSound, Waiting
<1>10. Sound(i)'
  <2>1. \E n \in PagesOf(s)' : given[s][n].bos
    <3>1. CASE i \in DOMAIN streams
      <4>1. \E n \in PagesOf(s) : given[s][n].bos
        BY <1>0, <1>2, <1>5, <3>1 DEF Sound
      <4> QED BY <1>3, <4>1
    <3>2. CASE Page(s).bos
      BY <1>3, <3>2 DEF Page
    <3> QED BY <1>5, <3>1, <3>2
  <2>2. (\E m \in PagesOf(streams[i].serial) : given[streams[i].serial][m].bos)'
    BY <1>0, <1>2, <2>1 DEF PagesOf
  <2> QED BY <1>9, <2>2 DEF Sound
(* The one that is added behind. *)
<1>11. ASSUME NEW j \in DOMAIN streams', j # i, j \notin DOMAIN streams
       PROVE  Sound(j)' /\ Idles(j)' /\ Got(j)' = {} /\ streams'[j].serial = s
  <2>1. i \in DOMAIN streams /\ streams'[j] = NewStream(s) /\ Page(s).bos
    BY <1>7, <1>11
  <2>2. /\ streams'[j].serial = s /\ streams'[j].from = Len(given[s]) + 1
        /\ streams'[j].queue = <<>> /\ streams'[j].probe = 0
        /\ streams'[j].fout = {} /\ streams'[j].ret = 0
    BY <2>1 DEF NewStream
  <2>3. PICK n \in PagesOf(s) : given[s][n].bos
    BY <1>0, <1>2, <1>5, <2>1 DEF Sound
  <2>4. (~StartsOnce(s))'
    <3>1. /\ n \in PagesOf(s)' /\ next[s] \in PagesOf(s)' /\ n # next[s]
          /\ given'[s][n].bos /\ given'[s][next[s]].bos
      BY <1>0, <1>3, <2>1, <2>3 DEF Page
    <3> QED BY <3>1 DEF StartsOnce
  <2>5. Idles(j)'
    BY <1>0, <2>2, <2>4 DEF Idles, Untouched, StartsOnce, PagesOf
  <2>6. Got(j)' = {}
    <3>1. \A m \in PagesOf(s)' : ~(m >= streams'[j].from)
      BY <1>3, <1>4, <2>2
    <3> QED BY <2>2, <3>1 DEF Got, TakenIn, PagesOf
  <2>7. Sound(j)'
    <3>1. (\E m \in PagesOf(streams[j].serial) : given[streams[j].serial][m].bos)'
      BY <1>0, <1>3, <2>2, <2>3 DEF PagesOf
    <3>2. QueueSound(streams[j], Got(j))'
      <4>1. QueueSound(NewStream(s), {})
        BY NoneTaken DEF NewStream
      <4> QED BY <2>1, <2>6, <4>1 DEF QueueSound, Waiting
    <3> QED BY <3>1, <3>2 DEF Sound
  <2> QED BY <2>2, <2>5, <2>6, <2>7
<1>12. \A j \in DOMAIN streams' : Sound(j)'
  BY <1>8, <1>10, <1>11
<1>13. ASSUME NEW j \in DOMAIN streams', NEW k \in DOMAIN streams',
              j < k, streams'[j].serial = streams'[k].serial
       PROVE  Idles(k)'
  <2>1. CASE k # i /\ k \notin DOMAIN streams
    BY <1>11, <2>1
  <2>2. CASE k = i
    <3>1. j \in DOMAIN streams /\ j # i
      BY <1>13, <1>17, <1>18, <2>2
    <3> QED BY <1>2, <1>5, <1>13, <2>2, <3>1
  <2>3. CASE k # i /\ k \in DOMAIN streams
    <3>1. j \in DOMAIN streams
      BY <1>13, <1>17, <1>18, <2>3
    <3>2. j # i => streams'[j] = streams[j]
      BY <1>5, <3>1
    <3>3. streams'[j].serial = streams[j].serial
      BY <1>2, <1>5, <3>1, <3>2
    <3>4. Idles(k)
      BY <1>0, <1>5, <1>13, <2>3, <3>1, <3>3
    <3> QED BY <1>8, <2>3, <3>4
  <2> QED BY <2>1, <2>2, <2>3
<1>14. StreamsSound'
  BY <1>12, <1>13 DEF StreamsSound, Sound, Idles
<1> QED BY <1>5, <1>7, <1>8, <1>9, <1>11, <1>14

LEMMA StreamsReads ==
  ASSUME StreamsSound, PagesSound', ReadsPacket
  PROVE  /\ StreamsSound'
         /\ \A j \in DOMAIN streams : Got(j)' = Got(j)
         /\ \A j \in DOMAIN streams : j # reading => Done(j)' = Done(j)
         /\ \A j \in DOMAIN streams : j = reading =>
              /\ Head(This.queue) = Gap => Done(j)' = Done(j)
              /\ Head(This.queue) # Gap =>
                   /\ Head(This.queue) \in Waiting(streams[j])
                   /\ \A p \in Done(j) : p.no < Head(This.queue).no
                   /\ Done(j)' = Done(j) \cup {Head(This.queue)}
<1>0. /\ PagesSound /\ TypeOK /\ Reads
      /\ \A j, k \in DOMAIN streams :
           j < k /\ streams[j].serial = streams[k].serial => Idles(k)
      /\ \A j \in DOMAIN streams : Sound(j)
  BY SoundStreams DEF PagesSound, ReadsPacket
<1>1. /\ reading \in DOMAIN streams /\ This.queue # <<>> /\ This = streams[reading]
      /\ given' = given /\ next' = next /\ lost' = lost /\ DOMAIN streams' = DOMAIN streams
      /\ \A j \in DOMAIN streams : j # reading => streams'[j] = streams[j]
      /\ streams'[reading].queue = Tail(This.queue)
      /\ streams'[reading].serial = This.serial
      /\ streams'[reading].from = This.from
  BY DEF ReadsPacket, This, Options
<1>2. \A r : PagesOf(r)' = PagesOf(r)
  BY <1>1 DEF PagesOf
<1>3. \A j \in DOMAIN streams : /\ streams'[j].serial = streams[j].serial
                               /\ streams'[j].from = streams[j].from
  BY <1>1
<1>4. ASSUME NEW j \in DOMAIN streams
      PROVE  /\ Got(j)' = Got(j)
             /\ j # reading => Sound(j)' /\ (Idles(j) => Idles(j)')
  <2>1. PICK r : r = streams[j].serial
    OBVIOUS
  <2>2. Got(j)' = Got(j)
    BY <1>1, <1>2, <1>3, <2>1, GotSame
  <2>3. ASSUME j # reading PROVE Sound(j)' /\ (Idles(j) => Idles(j)')
    <3>1. streams'[j] = streams[j]
      BY <1>1, <2>3
    <3> QED BY <1>0, <1>1, <1>2, <2>1, <3>1, StreamKept
  <2> QED BY <2>2, <2>3
<1>5. PICK i \in DOMAIN streams : i = reading
  BY <1>1
<1>6. PICK ks : ks = streams[i]
  OBVIOUS
<1>7. PICK kt : kt = streams'[i]
  OBVIOUS
<1>8. PICK got : got = Got(i)
  OBVIOUS
<1>9. /\ ks.queue \in Seq(Packets \cup {Gap}) /\ ks.queue # <<>> /\ got \in SUBSET Packets
      /\ QueueSound(ks, got) /\ kt.queue = Tail(ks.queue) /\ ks = This
  BY <1>0, <1>1, <1>5, <1>6, <1>7, <1>8, GotPackets DEF Sound
<1>10. /\ QueueSound(kt, got)
       /\ Head(ks.queue) = Gap => Waiting(kt) = Waiting(ks)
       /\ Head(ks.queue) # Gap =>
            /\ Head(ks.queue) \in Waiting(ks)
            /\ \A p \in got \ Waiting(ks) : p.no < Head(ks.queue).no
            /\ got \ Waiting(kt) = (got \ Waiting(ks)) \cup {Head(ks.queue)}
  BY <1>9, QueueRead
<1>11. Done(i) = got \ Waiting(ks) /\ Done(i)' = got \ Waiting(kt)
  BY <1>4, <1>6, <1>7, <1>8 DEF Done, Waiting
<1>12. Sound(i)'
  <2>1. QueueSound(streams[i], Got(i))'
    BY <1>4, <1>7, <1>8, <1>10 DEF QueueSound, Waiting
  <2>2. PICK n \in PagesOf(streams[i].serial) : given[streams[i].serial][n].bos
    BY <1>0 DEF Sound
  <2>3. (\E m \in PagesOf(streams[i].serial) : given[streams[i].serial][m].bos)'
    BY <1>1, <1>3, <2>2 DEF PagesOf
  <2> QED BY <2>1, <2>3 DEF Sound
<1>13. ASSUME NEW j \in DOMAIN streams', NEW k \in DOMAIN streams',
              j < k, streams'[j].serial = streams'[k].serial
       PROVE  Idles(k)'
  <2>1. Idles(k)
    BY <1>0, <1>1, <1>3, <1>13
  <2>2. k # reading
    BY <1>1, <2>1 DEF Idles, Untouched
  <2> QED BY <1>1, <1>4, <2>1, <2>2
<1>14. \A j \in DOMAIN streams' : Sound(j)'
  BY <1>1, <1>4, <1>5, <1>12
<1>15. StreamsSound'
  BY <1>13, <1>14 DEF StreamsSound, Sound, Idles
<1>16. \A j \in DOMAIN streams : j # reading => Done(j)' = Done(j)
  BY <1>1, <1>4 DEF Done, Waiting
<1> QED BY <1>4, <1>5, <1>6, <1>9, <1>10, <1>11, <1>15, <1>16

(* Streams as they were, some of which may be gone: the one at k was at f[k]. *)
Unmoved(k, j) ==
  /\ j \in DOMAIN streams
  /\ streams'[k].serial = streams[j].serial /\ streams'[k].from = streams[j].from
  /\ streams'[k].queue = streams[j].queue /\ streams'[k].probe = streams[j].probe
  /\ streams'[k].fout = streams[j].fout /\ streams'[k].ret = streams[j].ret
  /\ \A r \in Serials : r = streams[j].serial => PagesOf(r)' = PagesOf(r)

LEMMA StreamsMoved ==
  ASSUME StreamsSound, PagesSound', given' = given, NEW f,
         \A k \in DOMAIN streams' : Unmoved(k, f[k]),
         \A j, k \in DOMAIN streams' : j < k => f[j] < f[k]
  PROVE  /\ StreamsSound'
         /\ \A k \in DOMAIN streams' : /\ Got(k)' = Got(f[k]) /\ Done(k)' = Done(f[k])
                                       /\ (Waiting(streams[k]))' = Waiting(streams[f[k]])
<1>0. /\ PagesSound /\ TypeOK
      /\ \A j, k \in DOMAIN streams :
           j < k /\ streams[j].serial = streams[k].serial => Idles(k)
      /\ \A j \in DOMAIN streams : Sound(j)
  BY SoundStreams DEF PagesSound
<1>1. ASSUME NEW k \in DOMAIN streams'
      PROVE  /\ Got(k)' = Got(f[k]) /\ Done(k)' = Done(f[k])
             /\ (Waiting(streams[k]))' = Waiting(streams[f[k]])
             /\ Sound(k)' /\ (Idles(f[k]) => Idles(k)')
  <2>0. PICK j : j = f[k]
    OBVIOUS
  <2>1. Unmoved(k, j)
    BY <1>1, <2>0
  <2>2. PICK r \in Serials : r = streams[j].serial
    BY <1>0, <2>1, StreamFacts DEF Unmoved, Streams
  <2>3. PagesOf(r)' = PagesOf(r)
    BY <2>1, <2>2 DEF Unmoved
  <2>4. /\ streams'[k].serial = r /\ streams'[k].from = streams[j].from
        /\ streams'[k].queue = streams[j].queue /\ streams'[k].probe = streams[j].probe
        /\ streams'[k].fout = streams[j].fout /\ streams'[k].ret = streams[j].ret
        /\ j \in DOMAIN streams
    BY <2>1, <2>2 DEF Unmoved
  <2>5. Got(k)' = Got(j) /\ (Sound(j) => Sound(k)') /\ (Idles(j) => Idles(k)')
    BY <2>2, <2>3, <2>4, StreamKept
  <2>6. Done(k)' = Done(j) /\ (Waiting(streams[k]))' = Waiting(streams[j])
    BY <2>4, <2>5 DEF Done, Waiting
  <2> QED BY <1>0, <2>0, <2>4, <2>5, <2>6
<1>2. ASSUME NEW j \in DOMAIN streams', NEW k \in DOMAIN streams',
             j < k, streams'[j].serial = streams'[k].serial
      PROVE  Idles(k)'
  <2>1. /\ f[j] \in DOMAIN streams /\ f[k] \in DOMAIN streams /\ f[j] < f[k]
        /\ streams[f[j]].serial = streams[f[k]].serial
    BY <1>2 DEF Unmoved
  <2> QED BY <1>0, <1>1, <2>1
<1>3. StreamsSound'
  BY <1>1, <1>2 DEF StreamsSound, Sound, Idles
<1> QED BY <1>1, <1>3

Shift(n, m) == [k \in 1 .. n |-> IF k < m THEN k ELSE k + 1]

LEMMA RemovesMoves ==
  ASSUME PagesSound, Removes, NEW n, n = Len(streams) - 1, NEW m, m = reading
  PROVE  /\ DOMAIN streams' = 1 .. n /\ given' = given /\ n \in Nat /\ m \in 1 .. n + 1
         /\ \A k \in DOMAIN streams' : /\ Unmoved(k, Shift(n, m)[k])
                                       /\ streams'[k] = streams[Shift(n, m)[k]]
                                       /\ Shift(n, m)[k] # m
         /\ \A j, k \in DOMAIN streams' : j < k => Shift(n, m)[j] < Shift(n, m)[k]
<1>1. /\ DOMAIN streams' = 1 .. n /\ given' = given /\ next' = next /\ lost' = lost
      /\ \A k \in DOMAIN streams' :
           streams'[k] = IF k < reading THEN streams[k] ELSE streams[k + 1]
      /\ DOMAIN streams = 1 .. Len(streams) /\ Len(streams) \in Nat
      /\ reading \in DOMAIN streams
  BY StreamFacts DEF Removes, Options, PagesSound
<1>2. \A r : PagesOf(r)' = PagesOf(r)
  BY <1>1 DEF PagesOf
<1>3. n \in Nat /\ m \in 1 .. n + 1 /\ DOMAIN streams = 1 .. n + 1
  BY <1>1
<1>4. \A k \in 1 .. n : /\ Shift(n, m)[k] = IF k < m THEN k ELSE k + 1
                        /\ Shift(n, m)[k] \in 1 .. n + 1 /\ Shift(n, m)[k] # m
  BY <1>3 DEF Shift
<1>5. \A j, k \in 1 .. n : j < k => Shift(n, m)[j] < Shift(n, m)[k]
  BY <1>3, <1>4
<1>6. \A k \in 1 .. n : streams'[k] = streams[Shift(n, m)[k]]
  BY <1>1, <1>4
<1> HIDE DEF Shift
<1>7. \A k \in 1 .. n : Unmoved(k, Shift(n, m)[k])
  BY <1>2, <1>3, <1>4, <1>6 DEF Unmoved
<1> QED BY <1>1, <1>3, <1>4, <1>5, <1>6, <1>7

LEMMA StreamsStay ==
  ASSUME StreamsSound, PagesSound', given' = given, DOMAIN streams' = DOMAIN streams,
         \A k \in DOMAIN streams : Unmoved(k, k)
  PROVE  /\ StreamsSound'
         /\ \A k \in DOMAIN streams : /\ Got(k)' = Got(k) /\ Done(k)' = Done(k)
                                      /\ (Waiting(streams[k]))' = Waiting(streams[k])
<1>1. PICK D : D = DOMAIN streams
  OBVIOUS
<1> DEFINE f == [k \in D |-> k]
<1>2. \A k \in D : f[k] = k
  OBVIOUS
<1> HIDE DEF f
<1>3. /\ \A k \in DOMAIN streams' : Unmoved(k, f[k])
      /\ \A j, k \in DOMAIN streams' : j < k => f[j] < f[k]
  BY <1>1, <1>2
<1>4. /\ StreamsSound'
      /\ \A k \in DOMAIN streams' : /\ Got(k)' = Got(f[k]) /\ Done(k)' = Done(f[k])
                                    /\ (Waiting(streams[k]))' = Waiting(streams[f[k]])
  BY <1>3, StreamsMoved
<1> QED BY <1>1, <1>2, <1>4

(* The steps that move no packet.                                            *)
Quiet ==
  \/ \E s \in Serials : StrayPage(s) \/ LosePage(s)
  \/ EndOfPage \/ Abort \/ UNCHANGED vars \/ Closes

LEMMA QuietStays ==
  ASSUME PagesSound, Quiet
  PROVE  /\ given' = given /\ DOMAIN streams' = DOMAIN streams
         /\ \A k \in DOMAIN streams : Unmoved(k, k)
<1>0. TypeOK /\ \A k \in DOMAIN streams : streams[k] \in Streams
  BY StreamFacts DEF PagesSound
<1>1. ASSUME given' = given, next' = next, lost' = lost, DOMAIN streams' = DOMAIN streams,
             \A k \in DOMAIN streams : streams'[k] = streams[k] \/
                                       streams'[k] = [streams[k] EXCEPT !.init = "eos"]
      PROVE  \A k \in DOMAIN streams : Unmoved(k, k)
  <2>1. \A r : PagesOf(r)' = PagesOf(r)
    BY <1>1 DEF PagesOf
  <2> QED BY <1>0, <1>1, <2>1 DEF Unmoved, Streams
<1>2. CASE \E s \in Serials : LosePage(s)
  <2>1. PICK s \in Serials : LosePage(s)
    BY <1>2
  <2>2. /\ HasPage(s) /\ given' = given /\ next' = [next EXCEPT ![s] = @ + 1]
        /\ lost' = lost \cup {<<s, next[s]>>} /\ streams' = streams
    BY <2>1 DEF LosePage, Options
  <2>3. \A r \in Serials : PagesOf(r)' = PagesOf(r)
    BY <2>2, PagesGrow
  <2> QED BY <2>2, <2>3 DEF Unmoved
<1>3. CASE \E s \in Serials : StrayPage(s)
  <2>1. PICK s \in Serials : StrayPage(s)
    BY <1>3
  <2>2. /\ HasPage(s) /\ given' = given /\ next' = [next EXCEPT ![s] = @ + 1]
        /\ lost' = lost /\ streams' = streams /\ Find(streams, s) = 0
    BY <2>1 DEF StrayPage, Options
  <2>3. \A r \in Serials : r # s => PagesOf(r)' = PagesOf(r)
    BY <2>2, PagesGrow
  <2>4. \A k \in DOMAIN streams : streams[k].serial # s
    BY <1>0, <2>2, FindFirst, StreamFacts
  <2> QED BY <2>2, <2>3, <2>4 DEF Unmoved
<1>4. CASE EndOfPage \/ Abort \/ UNCHANGED vars
  BY <1>1, <1>4 DEF EndOfPage, Abort, vars, Options
<1>5. CASE Closes
  BY <1>1, <1>5 DEF Closes, Options
<1> QED BY <1>2, <1>3, <1>4, <1>5 DEF Quiet

LEMMA StreamsInit == Init => StreamsSound
<1> SUFFICES ASSUME Init PROVE StreamsSound
  OBVIOUS
<1>1. streams = <<>> /\ PagesSound
  BY PagesInit DEF Init
<1> QED BY <1>1 DEF StreamsSound

(* The steps, told apart by what they do to the list of streams.             *)
LEMMA StepShapes ==
  ASSUME PagesSound, [Next]_vars
  PROVE  \/ \E s \in Serials, i \in Nat : TakesPage(s, i)
         \/ Quiet
         \/ ReadsPacket
         \/ Removes
         \/ streams' = <<>> /\ ClearSet
<1>0. TypeOK
  BY DEF PagesSound
<1>1. CASE \E s \in Serials : BosPage(s) \/ NextPage(s)
  BY <1>0, <1>1, TakesPageStep
<1>2. CASE (\E s \in Serials : StrayPage(s) \/ LosePage(s)) \/ EndOfPage \/ Abort \/ UNCHANGED vars
  BY <1>2 DEF Quiet
<1>3. CASE Hole \/ Header \/ Open \/ Text \/ Silent \/ Bad \/ End
  BY <1>0, <1>3, ReadsPacketStep
<1>4. CASE WrongHeader \/ Ignore
  BY <1>0, <1>4, RemovesStep
<1>5. CASE ForceEnd
  BY <1>0, <1>5, ClosesStep DEF Quiet
<1>6. CASE ClearSet
  BY <1>6 DEF ClearSet
<1> QED BY <1>1, <1>2, <1>3, <1>4, <1>5, <1>6 DEF Next

LEMMA StreamsStep ==
  ASSUME StreamsSound, PagesSound', [Next]_vars
  PROVE  StreamsSound'
<1>0. PagesSound
  BY DEF StreamsSound
<1>1. CASE \E s \in Serials, i \in Nat : TakesPage(s, i)
  BY <1>1, StreamsTakes
<1>2. CASE Quiet
  BY <1>0, <1>2, QuietStays, StreamsStay
<1>3. CASE ReadsPacket
  BY <1>3, StreamsReads
<1>4. CASE Removes
  <2>1. PICK n : n = Len(streams) - 1
    OBVIOUS
  <2>2. PICK m : m = reading
    OBVIOUS
  <2>3. /\ given' = given
        /\ \A k \in DOMAIN streams' : Unmoved(k, Shift(n, m)[k])
        /\ \A j, k \in DOMAIN streams' : j < k => Shift(n, m)[j] < Shift(n, m)[k]
    BY <1>0, <1>4, <2>1, <2>2, RemovesMoves
  <2> QED BY <2>3, StreamsMoved
<1>5. CASE streams' = <<>>
  BY <1>5 DEF StreamsSound
<1> QED BY <1>0, <1>1, <1>2, <1>3, <1>4, <1>5, StepShapes

-----------------------------------------------------------------------------
(* Gaps: where nothing is lost, none is seen.                                *)

Clean(i) == StartsOnce(streams[i].serial) /\ Whole(streams[i].serial)
GapFree(i) ==
  Clean(i) =>
    /\ streams[i].from < next[streams[i].serial]
    /\ streams[i].page = given[streams[i].serial][next[streams[i].serial] - 1].no + 1
    /\ \A k \in DOMAIN streams[i].queue : streams[i].queue[k] # Gap
    /\ i # reading => streams[i].queue = <<>>

LEMMA GapsFree == GapsAreLosses <=> \A i \in DOMAIN streams : GapFree(i)
BY DEF GapsAreLosses, GapFree, Clean

LEMMA StillClean ==
  ASSUME NEW r, given' = given, PagesOf(r) \subseteq PagesOf(r)', lost \subseteq lost',
         StartsOnce(r)', Whole(r)'
  PROVE  StartsOnce(r) /\ Whole(r)
BY DEF StartsOnce, Whole

LEMMA TailFree ==
  ASSUME NEW S, NEW q \in Seq(S), q # <<>>, \A k \in DOMAIN q : q[k] # Gap
  PROVE  (\A k \in DOMAIN Tail(q) : Tail(q)[k] # Gap) /\ Head(q) # Gap
BY TailFacts

LEMMA QueuedFree ==
  ASSUME NEW ks, ks.queue = <<>>, NEW page, page.packets \in Seq(Packets), page.no = ks.page
  PROVE  \A k \in DOMAIN Queued(ks, page) : Queued(ks, page)[k] # Gap
<1>1. Queued(ks, page) = page.packets
  BY DEF Queued
<1>2. \A k \in DOMAIN page.packets : page.packets[k] \in Packets
  OBVIOUS
<1> QED BY <1>1, <1>2, PacketFacts

LEMMA GapsTake ==
  ASSUME StreamsSound, StreamsSound', GapsAreLosses,
         NEW s \in Serials, NEW i \in Nat, TakesPage(s, i)
  PROVE  GapsAreLosses'
<1>0. /\ PagesSound /\ TypeOK /\ HasPage(s) /\ given' = given /\ lost' = lost
      /\ next' = [next EXCEPT ![s] = @ + 1] /\ reading = 0 /\ reading' = i
      /\ \A j \in DOMAIN streams : Sound(j)
      /\ \A j \in DOMAIN streams : GapFree(j)
      /\ \A j \in DOMAIN streams : streams[j] \in Streams
  BY SoundStreams, GapsFree, StreamFacts DEF PagesSound, TakesPage, Options, Idle
<1>1. /\ PagesOf(s)' = PagesOf(s) \cup {next[s]} /\ next[s] \in Nat \ {0}
      /\ next'[s] = next[s] + 1
      /\ \A r \in Serials : r # s => PagesOf(r)' = PagesOf(r) /\ next'[r] = next[r]
      /\ \A n \in PagesOf(s) : n \in Nat \ {0} /\ n < next[s]
  BY <1>0, PagesGrow, PagesOfFacts
<1>2. /\ i \in DOMAIN streams => OldStream(s, i) = streams[i] /\ streams[i].serial = s
      /\ i \notin DOMAIN streams => OldStream(s, i) = NewStream(s) /\ Page(s).bos
      /\ streams'[i].serial = s /\ streams'[i].from <= next[s] /\ streams'[i].from \in Nat
      /\ streams'[i].queue = Queued(OldStream(s, i), Page(s))
      /\ streams'[i].page = Page(s).no + 1
      /\ i \in DOMAIN streams'
      /\ \A j \in DOMAIN streams : j # i => streams'[j] = streams[j]
  <2>1. /\ i \in DOMAIN streams => OldStream(s, i) = streams[i]
        /\ i \notin DOMAIN streams => OldStream(s, i) = NewStream(s)
        /\ streams'[i].serial = s /\ streams'[i].from <= next[s] /\ streams'[i].from \in Nat
        /\ streams'[i].queue = Queued(OldStream(s, i), Page(s))
        /\ streams'[i].page = Page(s).no + 1
    BY <1>0, PageTaken
  <2>2. /\ OldStream(s, i).serial = s /\ i \in DOMAIN streams'
        /\ i \notin DOMAIN streams => Page(s).bos
        /\ \A j \in DOMAIN streams : j # i => streams'[j] = streams[j]
    BY DEF TakesPage
  <2> QED BY <2>1, <2>2
<1>3. \A j \in DOMAIN streams' : j = i \/ j \in DOMAIN streams \/ streams'[j].serial = s
  <2> TAKE j \in DOMAIN streams'
  <2>1. j = i \/ j \in DOMAIN streams \/ streams'[j] = NewStream(s)
    BY StreamsTakes, <1>0 DEF StreamsSound
  <2> QED BY <2>1 DEF NewStream
<1>4. ASSUME NEW r \in Serials, StartsOnce(r)', Whole(r)'
      PROVE  StartsOnce(r) /\ Whole(r)
  <2>1. PagesOf(r) \subseteq PagesOf(r)' /\ lost \subseteq lost'
    BY <1>0, <1>1
  <2> QED BY <1>0, <1>4, <2>1, StillClean
<1>5. ASSUME NEW j \in DOMAIN streams', j # i, Clean(j)'
      PROVE  GapFree(j)'
  <2>0. i \in Nat /\ j \in Nat
    <3>1. streams' \in Seq(Streams')
      BY DEF StreamsSound, PagesSound, TypeOK
    <3> QED BY <3>1
  <2>1. streams'[j].serial # s
    <3>1. SUFFICES ASSUME streams'[j].serial = s PROVE FALSE
      OBVIOUS
    <3>2. Idles(i)' \/ Idles(j)'
      <4>1. i < j \/ j < i
        BY <1>5, <2>0
      <4> QED BY <1>2, <3>1, <4>1 DEF StreamsSound, Idles
    <3>3. ~StartsOnce(s)'
      BY <1>2, <3>1, <3>2 DEF Idles, Untouched, StartsOnce, PagesOf
    <3> QED BY <1>5, <3>1, <3>3 DEF Clean, StartsOnce, PagesOf
  <2>2. j \in DOMAIN streams /\ streams'[j] = streams[j]
    BY <1>2, <1>3, <1>5, <2>1
  <2>3. PICK r \in Serials : r = streams[j].serial
    BY <1>0, <2>2 DEF Streams
  <2>4. StartsOnce(r)' /\ Whole(r)' /\ r # s
    BY <1>5, <2>1, <2>2, <2>3 DEF Clean, StartsOnce, Whole, PagesOf
  <2>5. Clean(j)
    BY <1>4, <2>3, <2>4 DEF Clean
  <2>6. /\ streams[j].from < next[r]
        /\ streams[j].page = given[r][next[r] - 1].no + 1
        /\ \A k \in DOMAIN streams[j].queue : streams[j].queue[k] # Gap
        /\ streams[j].queue = <<>>
    <3>1. j # reading
      BY <1>0, <2>2, StreamFacts
    <3> QED BY <1>0, <2>2, <2>3, <2>5, <3>1 DEF GapFree
  <2> QED BY <1>0, <1>1, <2>2, <2>3, <2>4, <2>6 DEF GapFree
<1>6. ASSUME Clean(i)' PROVE GapFree(i)'
  <2>1. StartsOnce(s)' /\ Whole(s)'
    BY <1>2, <1>6 DEF Clean, StartsOnce, Whole, PagesOf
  <2>2. StartsOnce(s) /\ Whole(s)
    BY <1>4, <2>1
  <2>3. streams'[i].page = given'[s][next'[s] - 1].no + 1
    BY <1>0, <1>1, <1>2 DEF Page
  <2>4. streams'[i].from < next'[s]
    BY <1>1, <1>2
  <2>5. OldStream(s, i).queue = <<>> /\ Page(s).no = OldStream(s, i).page
    <3>0. WellFormed(s, given[s]) /\ next[s] \in DOMAIN given[s] /\ Page(s) = given[s][next[s]]
      BY <1>0, PageFacts DEF HasPage, Page
    <3>1. CASE i \notin DOMAIN streams
      <4>1. Page(s).no = 0
        BY <1>2, <3>0, <3>1 DEF WellFormed
      <4> QED BY <1>2, <3>1, <4>1 DEF NewStream
    <3>2. CASE i \in DOMAIN streams
      <4>1. Clean(i)
        BY <1>2, <2>2, <3>2 DEF Clean
      <4>2. /\ streams[i].page = given[s][next[s] - 1].no + 1 /\ streams[i].queue = <<>>
        <5>1. i # reading
          BY <1>0, <3>2, StreamFacts
        <5> QED BY <1>0, <1>2, <3>2, <4>1, <5>1 DEF GapFree
      <4>3. PICK n \in PagesOf(s) : given[s][n].bos
        BY <1>0, <1>2, <3>2 DEF Sound
      <4>4. ~Page(s).bos
        <5>1. SUFFICES ASSUME Page(s).bos PROVE FALSE
          OBVIOUS
        <5>2. n \in PagesOf(s)' /\ next[s] \in PagesOf(s)' /\ n # next[s]
          BY <1>1
        <5> QED BY <1>0, <2>1, <3>0, <4>3, <5>1, <5>2 DEF StartsOnce
      <4>5. next[s] > 1
        BY <1>1
      <4>6. Page(s).no = given[s][next[s] - 1].no + 1
        BY <3>0, <4>4, <4>5 DEF WellFormed
      <4> QED BY <1>2, <3>2, <4>2, <4>6
    <3> QED BY <3>1, <3>2
  <2>6. \A k \in DOMAIN streams'[i].queue : streams'[i].queue[k] # Gap
    <3>1. PICK ks : ks = OldStream(s, i)
      OBVIOUS
    <3>2. PICK page : page = Page(s)
      OBVIOUS
    <3>3. page.packets \in Seq(Packets)
      BY <1>0, <3>2, PageFacts
    <3>4. \A k \in DOMAIN Queued(ks, page) : Queued(ks, page)[k] # Gap
      BY <2>5, <3>1, <3>2, <3>3, QueuedFree
    <3> QED BY <1>2, <3>1, <3>2, <3>4
  <2> QED BY <1>0, <1>2, <2>3, <2>4, <2>6 DEF GapFree
<1>7. \A j \in DOMAIN streams' : GapFree(j)'
  BY <1>5, <1>6 DEF GapFree
<1> QED BY <1>7 DEF GapsAreLosses, GapFree, Clean

LEMMA GapsStep ==
  ASSUME StreamsSound, StreamsSound', GapsAreLosses, [Next]_vars
  PROVE  GapsAreLosses'
<1>0. /\ PagesSound /\ TypeOK
      /\ \A j \in DOMAIN streams : GapFree(j) /\ streams[j] \in Streams
  BY GapsFree, StreamFacts DEF StreamsSound, PagesSound
<1>1. CASE \E s \in Serials, i \in Nat : TakesPage(s, i)
  BY <1>1, GapsTake
<1>2. SUFFICES ASSUME ~ \E s \in Serials, i \in Nat : TakesPage(s, i),
                      NEW j \in DOMAIN streams', Clean(j)'
               PROVE  GapFree(j)'
  BY <1>1 DEF GapsAreLosses, GapFree, Clean
<1>3. ASSUME given' = given, lost' = lost, next' = next, NEW k \in DOMAIN streams,
             streams'[j].serial = streams[k].serial, streams'[j].from = streams[k].from,
             streams'[j].page = streams[k].page,
             \/ streams'[j].queue = streams[k].queue
             \/ streams[k].queue # <<>> /\ streams'[j].queue = Tail(streams[k].queue),
             Clean(k) => (k = reading => j = reading' \/ streams[k].queue = <<>>)
      PROVE  GapFree(j)'
  <2>1. PICK r \in Serials : r = streams[k].serial
    BY <1>0 DEF Streams
  <2>2. StartsOnce(r)' /\ Whole(r)'
    BY <1>2, <1>3, <2>1 DEF Clean, StartsOnce, Whole, PagesOf
  <2>3. Clean(k)
    <3>1. StartsOnce(r) /\ Whole(r)
      BY <1>3, <2>2 DEF StartsOnce, Whole, PagesOf
    <3> QED BY <2>1, <3>1 DEF Clean
  <2>4. /\ streams[k].from < next[r]
        /\ streams[k].page = given[r][next[r] - 1].no + 1
        /\ \A n \in DOMAIN streams[k].queue : streams[k].queue[n] # Gap
        /\ k # reading => streams[k].queue = <<>>
    BY <1>0, <2>1, <2>3 DEF GapFree
  <2>5. \A n \in DOMAIN streams'[j].queue : streams'[j].queue[n] # Gap
    <3>1. CASE streams'[j].queue = streams[k].queue
      BY <2>4, <3>1
    <3>2. CASE streams[k].queue # <<>> /\ streams'[j].queue = Tail(streams[k].queue)
      <4>1. streams[k].queue \in Seq(Packets \cup {Gap})
        BY <1>0 DEF Streams
      <4> QED BY <2>4, <3>2, <4>1, TailFree
    <3> QED BY <1>3, <3>1, <3>2
  <2>6. j # reading' => streams'[j].queue = <<>>
    BY <1>3, <2>3, <2>4
  <2> QED BY <1>3, <2>1, <2>4, <2>5, <2>6 DEF GapFree
<1>4. CASE \E s \in Serials : StrayPage(s) \/ LosePage(s)
  <2>1. PICK s \in Serials : StrayPage(s) \/ LosePage(s)
    BY <1>4
  <2>2. /\ HasPage(s) /\ given' = given /\ next' = [next EXCEPT ![s] = @ + 1]
        /\ streams' = streams /\ reading' = reading
    BY <2>1 DEF StrayPage, LosePage, Options
  <2>3. PICK r \in Serials : r = streams[j].serial
    BY <1>0, <1>2, <2>2 DEF Streams
  <2>4. StartsOnce(r)' /\ Whole(r)'
    BY <1>2, <2>2, <2>3 DEF Clean, StartsOnce, Whole, PagesOf
  <2>5. r # s
    <3>1. CASE StrayPage(s)
      BY <1>0, <1>2, <2>2, <2>3, <3>1, FindFirst, StreamFacts DEF StrayPage
    <3>2. CASE LosePage(s)
      <4>1. <<s, next[s]>> \in lost' /\ <<s, next[s]>>[1] = s
        BY <3>2 DEF LosePage
      <4> QED BY <2>4, <4>1 DEF Whole
    <3> QED BY <2>1, <3>1, <3>2
  <2>6. PagesOf(r)' = PagesOf(r) /\ next'[r] = next[r] /\ lost \subseteq lost'
    <3>1. lost' = lost \/ lost' = lost \cup {<<s, next[s]>>}
      BY <2>1 DEF StrayPage, LosePage
    <3> QED BY <1>0, <2>2, <2>5, <3>1, PagesGrow
  <2>7. StartsOnce(r) /\ Whole(r)
    BY <2>2, <2>4, <2>6, StillClean
  <2> QED BY <1>0, <1>2, <2>2, <2>3, <2>6, <2>7 DEF GapFree, Clean
<1>5. CASE EndOfPage \/ Abort \/ UNCHANGED vars
  BY <1>2, <1>3, <1>5 DEF EndOfPage, Abort, vars, Options, This
<1>6. CASE Closes
  <2>1. /\ given' = given /\ lost' = lost /\ next' = next /\ reading' = reading
        /\ j \in DOMAIN streams /\ streams'[j] = [streams[j] EXCEPT !.init = "eos"]
    BY <1>2, <1>6 DEF Closes, Options
  <2>2. streams[j] \in Streams
    BY <1>0, <2>1
  <2>3. /\ streams'[j].serial = streams[j].serial /\ streams'[j].from = streams[j].from
        /\ streams'[j].page = streams[j].page /\ streams'[j].queue = streams[j].queue
    BY <2>1, <2>2 DEF Streams
  <2> QED BY <1>3, <2>1, <2>3
<1>7. CASE ReadsPacket
  <2>1. /\ given' = given /\ lost' = lost /\ next' = next /\ j \in DOMAIN streams
        /\ reading \in DOMAIN streams
        /\ j # reading => streams'[j] = streams[j]
        /\ j = reading => /\ streams'[j].queue = Tail(streams[j].queue)
                          /\ streams[j].queue # <<>>
                          /\ streams'[j].serial = streams[j].serial
                          /\ streams'[j].from = streams[j].from
                          /\ streams'[j].page = streams[j].page
                          /\ reading' = reading \/ Head(streams[j].queue) = Gap
    BY <1>2, <1>7 DEF ReadsPacket, Options, This
  <2>2. Clean(j) => (j = reading => j = reading')
    <3>1. SUFFICES ASSUME Clean(j), j = reading, Head(streams[j].queue) = Gap PROVE FALSE
      BY <2>1
    <3>2. \A n \in DOMAIN streams[j].queue : streams[j].queue[n] # Gap
      BY <1>0, <2>1, <3>1 DEF GapFree
    <3>3. streams[j].queue \in Seq(Packets \cup {Gap}) /\ streams[j].queue # <<>>
      BY <1>0, <2>1, <3>1 DEF Streams
    <3> QED BY <3>1, <3>2, <3>3, TailFree
  <2> QED BY <1>3, <2>1, <2>2
<1>8. CASE Removes
  <2>1. PICK n : n = Len(streams) - 1
    OBVIOUS
  <2>2. PICK m : m = reading
    OBVIOUS
  <2>3. PICK k : k = Shift(n, m)[j]
    OBVIOUS
  <2>4. Unmoved(j, k) /\ streams'[j] = streams[k] /\ k # reading /\ given' = given
    BY <1>0, <1>2, <1>8, <2>1, <2>2, <2>3, RemovesMoves
  <2>5. k \in DOMAIN streams /\ next' = next /\ lost' = lost
    BY <1>8, <2>4 DEF Unmoved, Removes
  <2> QED BY <1>3, <2>4, <2>5
<1>9. CASE streams' = <<>>
  BY <1>2, <1>9
<1> QED BY <1>0, <1>2, <1>4, <1>5, <1>6, <1>7, <1>8, <1>9, StepShapes DEF Quiet

-----------------------------------------------------------------------------
(* Files: what is printed to each.                                           *)

LEMMA Division ==
  ASSUME NEW x \in Nat, NEW d \in Nat \ {0}
  PROVE  /\ x \div d \in Nat /\ x % d \in Nat /\ x % d < d
         /\ x = d * (x \div d) + (x % d)
BY SMT

LEMMA ScaledNat ==
  ASSUME NEW unit \in Nat, NEW t \in Nat
  PROVE  Scaled(unit, t) \in Nat
<1>1. Rate[1] \in Nat \ {0} /\ Rate[2] \in Nat
  BY RateAssumption
<1>2. unit * t * Rate[2] \in Nat
  BY <1>1, SMT
<1>3. Rate[1] \div 2 \in Nat
  BY <1>1, Division
<1> DEFINE x == unit * t * Rate[2] + (Rate[1] \div 2)
<1>4. x \in Nat
  BY <1>2, <1>3
<1> HIDE DEF x
<1>5. x \div Rate[1] \in Nat
  BY <1>1, <1>4, Division
<1> QED BY <1>5 DEF Scaled, x

LEMMA TimesType ==
  ASSUME NEW t \in Nat
  PROVE  SrtTime(t) \in Seq(Nat) /\ LrcTime(t) \in Seq(Nat)
<1>1. SrtTime(t) \in Seq(Nat)
  <2>1. PICK ms \in Nat : ms = Scaled(1000, t)
    BY ScaledNat, SMT
  <2>2. /\ ms \div 3600000 \in Nat /\ (ms \div 60000) % 60 \in Nat
        /\ (ms \div 1000) % 60 \in Nat /\ ms % 1000 \in Nat
    BY SMT
  <2>3. SrtTime(t) = <<ms \div 3600000, (ms \div 60000) % 60, (ms \div 1000) % 60, ms % 1000>>
    BY <2>1, SMT DEF SrtTime
  <2> QED BY <2>2, <2>3, SMT
<1>2. LrcTime(t) \in Seq(Nat)
  <2>1. PICK cs \in Nat : cs = Scaled(100, t)
    BY ScaledNat, SMT
  <2>2. cs \div 6000 \in Nat /\ (cs \div 100) % 60 \in Nat /\ cs % 100 \in Nat
    BY SMT
  <2>3. LrcTime(t) = <<cs \div 6000, (cs \div 100) % 60, cs % 100>>
    BY <2>1, SMT DEF LrcTime
  <2> QED BY <2>2, <2>3, SMT
<1> QED BY <1>1, <1>2

LEMMA InEvents ==
  ASSUME NEW f, NEW p
  PROVE  p \in EventsOf(f) <=> \E n \in DOMAIN f : f[n].what = "event" /\ f[n].event = p
BY DEF EventsOf, Events

LEMMA Joined ==
  ASSUME NEW f \in Seq(Entries), NEW g \in Seq(Entries)
  PROVE  /\ f \o g \in Seq(Entries)
         /\ Len(f \o g) = Len(f) + Len(g)
         /\ EventsOf(f \o g) = EventsOf(f) \cup EventsOf(g)
         /\ \A n \in Nat : n \in Ends(f \o g) <=> n \in Ends(f) \/ n - Len(f) \in Ends(g)
         /\ Headed(f) /\ (\A k \in DOMAIN g : g[k].what # "start") => Headed(f \o g)
         /\ Ordered(f) /\ (\A j, k \in Events(g) : j = k)
              /\ (\A p \in EventsOf(f), q \in EventsOf(g) : p.serial = q.serial /\ p.no < q.no)
            => Ordered(f \o g)
<1>1. PICK h : h = f \o g
  OBVIOUS
<1>2. /\ h \in Seq(Entries) /\ Len(h) = Len(f) + Len(g) /\ DOMAIN h = 1 .. Len(f) + Len(g)
      /\ DOMAIN f = 1 .. Len(f) /\ DOMAIN g = 1 .. Len(g)
      /\ Len(f) \in Nat /\ Len(g) \in Nat
      /\ \A k \in DOMAIN f : k \in DOMAIN h /\ h[k] = f[k]
      /\ \A k \in DOMAIN g : Len(f) + k \in DOMAIN h /\ h[Len(f) + k] = g[k]
      /\ \A k \in DOMAIN h : k \in DOMAIN f \/ (k - Len(f) \in DOMAIN g /\ h[k] = g[k - Len(f)])
  BY <1>1, ConcatFacts
<1>3. EventsOf(h) = EventsOf(f) \cup EventsOf(g)
  <2>1. ASSUME NEW p \in EventsOf(h) PROVE p \in EventsOf(f) \cup EventsOf(g)
    <3>1. PICK n \in DOMAIN h : h[n].what = "event" /\ h[n].event = p
      BY InEvents
    <3> QED BY <1>2, <3>1, InEvents
  <2>2. ASSUME NEW p \in EventsOf(f) PROVE p \in EventsOf(h)
    <3>1. PICK n \in DOMAIN f : f[n].what = "event" /\ f[n].event = p
      BY InEvents
    <3> QED BY <1>2, <3>1, InEvents
  <2>3. ASSUME NEW p \in EventsOf(g) PROVE p \in EventsOf(h)
    <3>1. PICK n \in DOMAIN g : g[n].what = "event" /\ g[n].event = p
      BY InEvents
    <3> QED BY <1>2, <3>1, InEvents
  <2> QED BY <2>1, <2>2, <2>3
<1>4. ASSUME NEW n \in Nat PROVE n \in Ends(h) <=> n \in Ends(f) \/ n - Len(f) \in Ends(g)
  <2>1. ASSUME n \in Ends(h) PROVE n \in Ends(f) \/ n - Len(f) \in Ends(g)
    BY <1>2, <2>1 DEF Ends
  <2>2. ASSUME n \in Ends(f) PROVE n \in Ends(h)
    BY <1>2, <2>2 DEF Ends
  <2>3. ASSUME n - Len(f) \in Ends(g) PROVE n \in Ends(h)
    <3>1. n - Len(f) \in DOMAIN g /\ g[n - Len(f)].what = "end"
      BY <2>3 DEF Ends
    <3>2. n = Len(f) + (n - Len(f))
      BY <1>2, <3>1
    <3> QED BY <1>2, <3>1, <3>2 DEF Ends
  <2> QED BY <2>1, <2>2, <2>3
<1>5. ASSUME Headed(f), \A k \in DOMAIN g : g[k].what # "start" PROVE Headed(h)
  <2>1. Len(f) > 0 /\ h # <<>>
    BY <1>2, <1>5 DEF Headed
  <2>2. \A n \in DOMAIN h : h[n].what = "start" <=> n = 1
    <3> TAKE n \in DOMAIN h
    <3>1. CASE n \in DOMAIN f
      BY <1>2, <1>5, <3>1 DEF Headed
    <3>2. CASE n \notin DOMAIN f
      BY <1>2, <1>5, <2>1, <3>2
    <3> QED BY <3>1, <3>2
  <2> QED BY <2>1, <2>2 DEF Headed
<1>6. ASSUME Ordered(f), \A j, k \in Events(g) : j = k,
             \A p \in EventsOf(f), q \in EventsOf(g) : p.serial = q.serial /\ p.no < q.no
      PROVE  Ordered(h)
  <2> SUFFICES ASSUME NEW m \in Events(h), NEW n \in Events(h), m < n
               PROVE  h[m].event.serial = h[n].event.serial /\ h[m].event.no < h[n].event.no
    BY DEF Ordered
  <2>1. m \in DOMAIN h /\ n \in DOMAIN h /\ h[m].what = "event" /\ h[n].what = "event"
    BY DEF Events
  <2>2. CASE n \in DOMAIN f
    <3>1. m \in DOMAIN f
      BY <1>2, <2>1, <2>2
    <3> QED BY <1>2, <1>6, <2>1, <2>2, <3>1 DEF Ordered, Events
  <2>3. CASE n \notin DOMAIN f
    <3>1. n - Len(f) \in DOMAIN g /\ h[n] = g[n - Len(f)] /\ n - Len(f) \in Events(g)
      BY <1>2, <2>1, <2>3 DEF Events
    <3>2. h[n].event \in EventsOf(g)
      BY <2>1, <3>1, InEvents
    <3>3. m \in DOMAIN f
      <4>1. SUFFICES ASSUME m \notin DOMAIN f PROVE FALSE
        OBVIOUS
      <4>2. m - Len(f) \in Events(g)
        <5>1. m - Len(f) \in DOMAIN g /\ h[m] = g[m - Len(f)]
          BY <1>2, <2>1, <4>1
        <5> QED BY <2>1, <5>1 DEF Events
      <4>3. m - Len(f) = n - Len(f)
        BY <1>6, <3>1, <4>2
      <4> QED BY <1>2, <2>1, <4>3
    <3>4. h[m].event \in EventsOf(f)
      BY <1>2, <2>1, <3>3, InEvents
    <3> QED BY <1>6, <3>2, <3>4
  <2> QED BY <2>2, <2>3
<1> QED BY <1>1, <1>2, <1>3, <1>4, <1>5, <1>6

(* One event, and neither a beginning nor an end.                            *)
LEMMA PrintedFacts ==
  ASSUME NEW data \in Int, NEW e \in Packets, e.kind = "text"
  PROVE  /\ Printed(data, e) \in Seq(Entries)
         /\ EventsOf(Printed(data, e)) = {e}
         /\ \A j, k \in Events(Printed(data, e)) : j = k
         /\ Ends(Printed(data, e)) = {}
         /\ \A k \in DOMAIN Printed(data, e) : Printed(data, e)[k].what # "start"
<1>1. /\ e.at \in Nat /\ e.at + e.for \in Nat
      /\ SrtTime(e.at) \in Seq(Nat) /\ SrtTime(e.at + e.for) \in Seq(Nat)
      /\ LrcTime(e.at) \in Seq(Nat) /\ LrcTime(e.at + e.for) \in Seq(Nat)
  <2>1. e.at \in Nat /\ e.for \in Nat
    BY PacketFacts
  <2>2. e.at \in Nat /\ e.at + e.for \in Nat
    BY <2>1
  <2> QED BY <2>2, TimesType
<1>2. ASSUME NEW x \in Entries, x.what = "event", x.event = e, Printed(data, e) = <<x>>
      PROVE  /\ Printed(data, e) \in Seq(Entries)
             /\ EventsOf(Printed(data, e)) = {e}
             /\ \A j, k \in Events(Printed(data, e)) : j = k
             /\ Ends(Printed(data, e)) = {}
             /\ \A k \in DOMAIN Printed(data, e) : Printed(data, e)[k].what # "start"
  BY <1>2 DEF EventsOf, Events, Ends
<1>3. CASE format = "kate"
  <2>1. Lyric(e) \in Entries /\ Lyric(e).what = "event" /\ Lyric(e).event = e
    BY DEF Lyric, Entries
  <2> QED BY <1>2, <1>3, <2>1 DEF Printed
<1>4. CASE format = "srt"
  <2> DEFINE x == [what |-> "event", event |-> e, number |-> data + 1,
                   times |-> <<SrtTime(e.at), SrtTime(e.at + e.for)>>]
  <2>1. <<SrtTime(e.at), SrtTime(e.at + e.for)>> \in Seq(Seq(Nat)) /\ data + 1 \in Int
    BY <1>1
  <2>2. x \in Entries /\ x.what = "event" /\ x.event = e
    BY <2>1 DEF Entries
  <2>3. Printed(data, e) = <<x>>
    BY <1>4 DEF Printed
  <2> QED BY <1>2, <2>2, <2>3
<1>5. CASE format # "kate" /\ format # "srt"
  <2> DEFINE a == Stamp(LrcTime(e.at))
             b == Lyric(e)
             c == Stamp(LrcTime(e.at + e.for))
  <2>1. /\ a \in Entries /\ b \in Entries /\ c \in Entries
        /\ a.what = "stamp" /\ c.what = "stamp" /\ b.what = "event" /\ b.event = e
    BY <1>1 DEF Entries, Stamp, Lyric
  <2>2. Printed(data, e) = (IF NeedsStamp(data, e) THEN <<a>> ELSE <<>>) \o <<b, c>>
    BY <1>5 DEF Printed
  <2> HIDE DEF a, b, c
  <2> DEFINE p == Printed(data, e)
             first == IF NeedsStamp(data, e) THEN <<a>> ELSE <<>>
  <2>3. first \in Seq(Entries) /\ <<b, c>> \in Seq(Entries) /\ Len(<<b, c>>) = 2
        /\ <<b, c>>[1] = b /\ <<b, c>>[2] = c /\ DOMAIN <<b, c>> = 1 .. 2
    <3>1. <<a>> \in Seq(Entries) /\ <<b, c>> \in Seq(Entries) /\ <<>> \in Seq(Entries)
      BY <2>1
    <3> QED BY <3>1
  <2>4. Len(first) \in {0, 1} /\ DOMAIN first = 1 .. Len(first)
        /\ \A k \in DOMAIN first : first[k] = a
    <3>1. CASE NeedsStamp(data, e)
      BY <3>1
    <3>2. CASE ~NeedsStamp(data, e)
      BY <3>2
    <3> QED BY <3>1, <3>2
  <2>5. p = first \o <<b, c>>
    BY <2>2
  <2> HIDE DEF first, p
  <2> DEFINE r == <<b, c>>
  <2>6. r \in Seq(Entries) /\ Len(r) = 2 /\ r[1] = b /\ r[2] = c /\ DOMAIN r = 1 .. 2
        /\ p = first \o r
    BY <2>3, <2>5
  <2> HIDE DEF r
  <2>7. /\ p \in Seq(Entries)
        /\ \A k \in DOMAIN first : k \in DOMAIN p /\ p[k] = first[k]
        /\ \A k \in DOMAIN r : Len(first) + k \in DOMAIN p /\ p[Len(first) + k] = r[k]
        /\ \A k \in DOMAIN p :
             k \in DOMAIN first \/ (k - Len(first) \in DOMAIN r /\ p[k] = r[k - Len(first)])
        /\ DOMAIN p = 1 .. Len(first) + Len(r)
    <3>1. first \in Seq(Entries) /\ r \in Seq(Entries)
      BY <2>3, <2>6
    <3>2. PICK h : h = first \o r
      OBVIOUS
    <3>3. /\ h \in Seq(Entries)
          /\ \A k \in DOMAIN first : k \in DOMAIN h /\ h[k] = first[k]
          /\ \A k \in DOMAIN r : Len(first) + k \in DOMAIN h /\ h[Len(first) + k] = r[k]
          /\ \A k \in DOMAIN h :
               k \in DOMAIN first \/ (k - Len(first) \in DOMAIN r /\ h[k] = r[k - Len(first)])
          /\ DOMAIN h = 1 .. Len(first) + Len(r)
      BY <3>1, <3>2, ConcatFacts
    <3>4. p = h
      BY <2>6, <3>2
    <3> QED BY <3>3, <3>4
  <2>8. PICK m \in {0, 1} : m = Len(first)
    BY <2>4
  <2>9. /\ DOMAIN p = 1 .. m + 2 /\ p[m + 1] = b /\ p[m + 2] = c
        /\ \A k \in DOMAIN p : k # m + 1 => p[k].what = "stamp"
    <3>1. DOMAIN p = 1 .. m + 2 /\ p[m + 1] = b /\ p[m + 2] = c
      BY <2>6, <2>7, <2>8
    <3>2. ASSUME NEW k \in DOMAIN p, k # m + 1 PROVE p[k].what = "stamp"
      <4>1. CASE k \in DOMAIN first
        BY <2>1, <2>4, <2>7, <4>1
      <4>2. CASE k \notin DOMAIN first
        <5>1. k = m + 2
          <6>1. DOMAIN first = 1 .. m /\ k \in 1 .. m + 2
            BY <2>4, <2>8, <3>1
          <6> QED BY <3>2, <4>2, <6>1
        <5> QED BY <2>1, <3>1, <5>1
      <4> QED BY <4>1, <4>2
    <3> QED BY <3>1, <3>2
  <2>10. \A k \in DOMAIN p : p[k].what = "event" <=> k = m + 1
    BY <2>1, <2>9
  <2>11. EventsOf(p) = {e} /\ Ends(p) = {} /\ \A j, k \in Events(p) : j = k
    <3>1. Events(p) = {m + 1}
      BY <2>9, <2>10 DEF Events
    <3>2. EventsOf(p) = {e}
      BY <2>1, <2>9, <3>1 DEF EventsOf
    <3>3. Ends(p) = {}
      BY <2>1, <2>9 DEF Ends
    <3> QED BY <3>1, <3>2, <3>3
  <2>12. \A k \in DOMAIN p : p[k].what # "start"
    BY <2>1, <2>9
  <2> QED BY <2>7, <2>11, <2>12 DEF p
<1> QED BY <1>3, <1>4, <1>5

LEMMA GotSerial ==
  ASSUME PagesSound, NEW i \in DOMAIN streams, NEW p \in Got(i)
  PROVE  p.serial = streams[i].serial
<1>1. PICK s \in Serials : s = streams[i].serial
  BY GotPackets
<1>2. PICK n \in PagesOf(s) : p \in ToSet(given[s][n].packets)
  BY <1>1, InGot
<1>3. n \in DOMAIN given[s] /\ WellFormed(s, given[s])
  <2>1. n \in Nat \ {0} /\ n < next[s] /\ next[s] \in 1 .. Len(given[s]) + 1
    BY PagesOfFacts DEF PagesSound
  <2>2. WellFormed(s, given[s]) /\ DOMAIN given[s] = 1 .. Len(given[s]) /\ Len(given[s]) \in Nat
    BY PageFacts DEF PagesSound
  <2> QED BY <2>1, <2>2
<1>4. PICK k \in DOMAIN given[s][n].packets : p = given[s][n].packets[k]
  BY <1>2 DEF ToSet
<1> QED BY <1>1, <1>3, <1>4 DEF WellFormed

-----------------------------------------------------------------------------
(* What is in the file of a stream.                                          *)

Fine(i) ==
  /\ ProgressSound(streams[i], Done(i))
  /\ phase \in {"reading", "closing"} => streams[i].fout \subseteq disk
  /\ \A name \in streams[i].fout : FileSound(streams[i], files[name], Done(i))
Apart == \A i, j \in DOMAIN streams : i # j => streams[i].fout \cap streams[j].fout = {}
FilesSound ==
  /\ \A name \in DOMAIN files : files[name] \in Seq(Entries) /\ Ordered(files[name])
  /\ format = "kate" => \A name \in DOMAIN files : Headed(files[name])

LEMMA SoundOutput == OutputSound <=> Apart /\ FilesSound /\ \A i \in DOMAIN streams : Fine(i)
BY DEF OutputSound, Fine, Apart, FilesSound

LEMMA GoesOnMore ==
  ASSUME NEW j, NEW k, Got(k) \subseteq Got(j)', GoesOn(streams[k])
  PROVE  GoesOn(streams[j])'
<1>1. PICK p \in Got(k), q \in Got(k) :
        p.kind = "end" /\ q.kind \in {"text", "end"} /\ p.no < q.no
  BY DEF GoesOn, Got
<1>2. (\E x, y \in Got(j) : x.kind = "end" /\ y.kind \in {"text", "end"} /\ x.no < y.no)'
  BY <1>1
<1> QED BY <1>2 DEF GoesOn, Got

LEMMA FineKept ==
  ASSUME NEW j, NEW k, Fine(k),
         streams'[j].probe = streams[k].probe, streams'[j].init = streams[k].init,
         streams'[j].fout = streams[k].fout, streams'[j].ret = streams[k].ret,
         Done(j)' = Done(k), Got(k) \subseteq Got(j)', format' = format,
         phase' = phase \/ phase' \notin {"reading", "closing"},
         disk \subseteq disk', \A name \in streams[k].fout : files'[name] = files[name]
  PROVE  Fine(j)'
<1>1. GoesOn(streams[k]) => GoesOn(streams[j])'
  BY GoesOnMore
<1>2. ProgressSound(streams[j], Done(j))'
  BY DEF Fine, ProgressSound, InData
<1>3. (phase \in {"reading", "closing"} => streams[j].fout \subseteq disk)'
  BY DEF Fine
<1>4. ASSUME NEW name \in streams'[j].fout
      PROVE  FileSound(streams[j], files[name], Done(j))'
  <2>1. FileSound(streams[k], files[name], Done(k)) /\ files'[name] = files[name]
    BY <1>4 DEF Fine
  <2> QED BY <1>1, <2>1 DEF FileSound, HasEnd, EventsOf, Events, Ends, Texts
<1> QED BY <1>2, <1>3, <1>4 DEF Fine

LEMMA FineNew ==
  ASSUME NEW j, streams'[j].probe = 0, streams'[j].init = "uninitialized",
         streams'[j].fout = {}, streams'[j].ret = 0, Done(j)' = {}
  PROVE  Fine(j)'
<1>1. 0 < Headers
  BY HeadersAssumption
<1> QED BY <1>1 DEF Fine, ProgressSound, InData

LEMMA OutputTakes ==
  ASSUME StreamsSound, PagesSound', OutputSound, NEW s \in Serials, NEW i \in Nat, TakesPage(s, i)
  PROVE  OutputSound'
<1>0. /\ PagesSound /\ Apart /\ FilesSound /\ \A j \in DOMAIN streams : Fine(j)
      /\ format' = format /\ files' = files /\ disk' = disk /\ phase' = phase
      /\ i \in DOMAIN streams => OldStream(s, i) = streams[i]
  BY SoundOutput DEF StreamsSound, TakesPage, Options, OldStream
<1>1. /\ \A j \in DOMAIN streams : j # i => Got(j)' = Got(j) /\ streams'[j] = streams[j]
      /\ \A j \in DOMAIN streams' : j = i \/ j \in DOMAIN streams \/
           (streams'[j] = NewStream(s) /\ Got(j)' = {})
      /\ (Got(i) \ Waiting(streams[i]))' =
           IF i \in DOMAIN streams THEN Got(i) \ Waiting(streams[i]) ELSE {}
  BY StreamsTakes
<1>2. /\ streams'[i].probe = OldStream(s, i).probe /\ streams'[i].init = OldStream(s, i).init
      /\ streams'[i].fout = OldStream(s, i).fout /\ streams'[i].ret = OldStream(s, i).ret
      /\ i \in DOMAIN streams => Got(i) \subseteq Got(i)'
      /\ i \notin DOMAIN streams => OldStream(s, i) = NewStream(s)
  BY <1>0, PageTaken DEF Before
<1>3. Done(i)' = IF i \in DOMAIN streams THEN Done(i) ELSE {}
  BY <1>1 DEF Done
<1>4. Fine(i)'
  <2>1. CASE i \in DOMAIN streams
    <3>1. Fine(i) /\ Got(i) \subseteq Got(i)' /\ Done(i)' = Done(i)
      BY <1>0, <1>2, <1>3, <2>1
    <3> QED BY <1>0, <1>2, <2>1, <3>1, FineKept
  <2>2. CASE i \notin DOMAIN streams
    <3>1. /\ streams'[i].probe = 0 /\ streams'[i].init = "uninitialized"
          /\ streams'[i].fout = {} /\ streams'[i].ret = 0 /\ Done(i)' = {}
      BY <1>2, <1>3, <2>2 DEF NewStream
    <3> QED BY <3>1, FineNew
  <2> QED BY <2>1, <2>2
<1>5. ASSUME NEW j \in DOMAIN streams', j # i
      PROVE  Fine(j)'
  <2>1. CASE j \in DOMAIN streams
    <3>1. Got(j)' = Got(j) /\ streams'[j] = streams[j] /\ Fine(j)
      BY <1>0, <1>1, <1>5, <2>1
    <3>2. Done(j)' = Done(j)
      BY <3>1 DEF Done, Waiting
    <3> QED BY <1>0, <3>1, <3>2, FineKept
  <2>2. CASE j \notin DOMAIN streams
    <3>1. /\ streams'[j].probe = 0 /\ streams'[j].init = "uninitialized"
          /\ streams'[j].fout = {} /\ streams'[j].ret = 0 /\ Got(j)' = {}
      BY <1>1, <1>5, <2>2 DEF NewStream
    <3>2. Done(j)' = {}
      BY <3>1 DEF Done
    <3> QED BY <3>1, <3>2, FineNew
  <2> QED BY <2>1, <2>2
<1>6. \A j \in DOMAIN streams' :
        streams'[j].fout = IF j \in DOMAIN streams THEN streams[j].fout ELSE {}
  <2> TAKE j \in DOMAIN streams'
  <2>1. NewStream(s).fout = {}
    BY DEF NewStream
  <2>2. CASE j = i
    <3>1. streams'[i].fout = OldStream(s, i).fout
      BY <1>2
    <3>2. OldStream(s, i) = IF i \in DOMAIN streams THEN streams[i] ELSE NewStream(s)
      BY <1>0, <1>2
    <3> QED BY <2>1, <2>2, <3>1, <3>2
  <2>3. CASE j # i /\ j \in DOMAIN streams
    BY <1>1, <2>3
  <2>4. CASE j # i /\ j \notin DOMAIN streams
    <3>1. streams'[j] = NewStream(s)
      BY <1>1, <2>4
    <3> QED BY <2>1, <2>4, <3>1
  <2> QED BY <2>2, <2>3, <2>4
<1>7. Apart'
  BY <1>0, <1>6 DEF Apart
<1>8. FilesSound'
  BY <1>0 DEF FilesSound
<1> QED BY <1>4, <1>5, <1>7, <1>8 DEF OutputSound, Fine, Apart, FilesSound

(* No packet is read, nothing is written.                                    *)
LEMMA OutputStays ==
  ASSUME StreamsSound, PagesSound', OutputSound, given' = given, format' = format,
         files' = files, disk' = disk, phase' = phase \/ phase' \notin {"reading", "closing"},
         NEW f, \A k \in DOMAIN streams' :
                  Unmoved(k, f[k]) /\ streams'[k].init = streams[f[k]].init,
         \A j, k \in DOMAIN streams' : j < k => f[j] < f[k]
  PROVE  OutputSound'
<1>0. Apart /\ FilesSound /\ \A j \in DOMAIN streams : Fine(j)
  BY SoundOutput
<1>1. \A k \in DOMAIN streams' : Got(k)' = Got(f[k]) /\ Done(k)' = Done(f[k])
  BY StreamsMoved
<1>2. ASSUME NEW k \in DOMAIN streams'
      PROVE  Fine(k)'
  <2>1. PICK j : j = f[k]
    OBVIOUS
  <2>2. Unmoved(k, j) /\ streams'[k].init = streams[j].init
    BY <1>2, <2>1
  <2>3. /\ Fine(j) /\ Got(k)' = Got(j) /\ Done(k)' = Done(j)
        /\ streams'[k].probe = streams[j].probe /\ streams'[k].fout = streams[j].fout
        /\ streams'[k].ret = streams[j].ret
    BY <1>0, <1>1, <2>1, <2>2 DEF Unmoved
  <2> QED BY <2>2, <2>3, FineKept
<1>3. Apart'
  <2> SUFFICES ASSUME NEW j \in DOMAIN streams', NEW k \in DOMAIN streams', j # k
               PROVE  (streams[j].fout \cap streams[k].fout = {})'
    BY DEF Apart
  <2>1. /\ f[j] \in DOMAIN streams /\ f[k] \in DOMAIN streams
        /\ streams'[j].fout = streams[f[j]].fout /\ streams'[k].fout = streams[f[k]].fout
    <3>1. Unmoved(j, f[j]) /\ Unmoved(k, f[k])
      OBVIOUS
    <3> QED BY <3>1 DEF Unmoved
  <2>2. f[j] # f[k]
    <3>1. j \in Nat /\ k \in Nat
      <4>1. streams' \in Seq(Streams')
        BY DEF PagesSound, TypeOK
      <4> QED BY <4>1
    <3>2. f[j] \in Nat /\ f[k] \in Nat
      BY <2>1, StreamFacts DEF StreamsSound, PagesSound
    <3>3. j < k \/ k < j
      BY <3>1
    <3>4. f[j] < f[k] \/ f[k] < f[j]
      BY <3>3
    <3> QED BY <3>2, <3>4
  <2> QED BY <1>0, <2>1, <2>2 DEF Apart
<1>4. FilesSound'
  BY <1>0 DEF FilesSound
<1> QED BY <1>2, <1>3, <1>4 DEF OutputSound, Fine, Apart, FilesSound

LEMMA OutputRemoves ==
  ASSUME StreamsSound, PagesSound', OutputSound, Removes
  PROVE  OutputSound'
<1>0. PagesSound
  BY DEF StreamsSound
<1>1. PICK n : n = Len(streams) - 1
  OBVIOUS
<1>2. PICK m : m = reading
  OBVIOUS
<1>3. PICK f : f = Shift(n, m)
  OBVIOUS
<1>4. /\ \A k \in DOMAIN streams' : Unmoved(k, f[k]) /\ streams'[k].init = streams[f[k]].init
      /\ \A j, k \in DOMAIN streams' : j < k => f[j] < f[k]
  BY <1>0, <1>1, <1>2, <1>3, RemovesMoves
<1>5. given' = given /\ format' = format /\ files' = files /\ disk' = disk /\ phase' = phase
  BY DEF Removes, Options
<1> QED BY <1>4, <1>5, OutputStays

LEMMA OutputQuiet ==
  ASSUME StreamsSound, PagesSound', OutputSound,
         \/ \E s \in Serials : StrayPage(s) \/ LosePage(s)
         \/ EndOfPage \/ Abort \/ UNCHANGED vars
  PROVE  OutputSound'
<1>0. PagesSound /\ Quiet
  BY DEF StreamsSound, Quiet
<1>1. /\ streams' = streams /\ given' = given /\ format' = format /\ files' = files
      /\ disk' = disk
      /\ phase' = phase \/ phase' \notin {"reading", "closing"}
  BY DEF StrayPage, LosePage, EndOfPage, Abort, Options, vars
<1>2. \A k \in DOMAIN streams : Unmoved(k, k)
  BY <1>0, QuietStays
<1>3. PICK D : D = DOMAIN streams
  OBVIOUS
<1>6. PICK f : f = [k \in D |-> k]
  OBVIOUS
<1>4. \A k \in D : f[k] = k
  BY <1>6
<1>5. /\ \A k \in DOMAIN streams' : Unmoved(k, f[k]) /\ streams'[k].init = streams[f[k]].init
      /\ \A j, k \in DOMAIN streams' : j < k => f[j] < f[k]
  <2>1. DOMAIN streams' = D
    BY <1>1, <1>3
  <2>2. \A k \in D : Unmoved(k, k) /\ streams'[k].init = streams[k].init
    BY <1>1, <1>2, <1>3
  <2>3. \A k \in D : Unmoved(k, f[k]) /\ streams'[k].init = streams[f[k]].init
    <3> TAKE k \in D
    <3>1. f[k] = k
      BY <1>4
    <3> QED BY <2>2, <3>1
  <2> QED BY <1>4, <2>1, <2>3
<1> QED BY <1>1, <1>5, OutputStays

(* A packet is read: the other streams are as they were.                     *)
LEMMA OutputRead ==
  ASSUME StreamsSound, PagesSound', OutputSound, ReadsPacket,
         NEW i \in DOMAIN streams, i = reading,
         phase' = phase, disk \subseteq disk', FilesSound', Fine(i)',
         \A j \in DOMAIN streams : j # i =>
           /\ \A name \in streams[j].fout : files'[name] = files[name]
           /\ streams'[i].fout \cap streams[j].fout = {}
  PROVE  OutputSound'
<1>0. /\ Apart /\ \A j \in DOMAIN streams : Fine(j)
      /\ \A j \in DOMAIN streams : Got(j)' = Got(j)
      /\ \A j \in DOMAIN streams : j # i => streams'[j] = streams[j] /\ Done(j)' = Done(j)
      /\ DOMAIN streams' = DOMAIN streams /\ format' = format
  BY SoundOutput, StreamsReads DEF ReadsPacket, Options
<1>1. ASSUME NEW j \in DOMAIN streams', j # i
      PROVE  Fine(j)'
  BY <1>0, <1>1, FineKept
<1>2. Apart'
  <2> SUFFICES ASSUME NEW j \in DOMAIN streams', NEW k \in DOMAIN streams', j # k
               PROVE  (streams[j].fout \cap streams[k].fout = {})'
    BY DEF Apart
  <2>1. CASE j # i /\ k # i
    BY <1>0, <2>1 DEF Apart
  <2>2. CASE j = i \/ k = i
    BY <1>0, <2>2
  <2> QED BY <2>1, <2>2
<1> QED BY <1>1, <1>2 DEF OutputSound, Fine, Apart, FilesSound

LEMMA Next1Fields ==
  ASSUME This \in Streams
  PROVE  /\ Next1.queue = Tail(This.queue) /\ Next1.probe = This.probe
         /\ Next1.init = This.init /\ Next1.fout = This.fout /\ Next1.ret = This.ret
         /\ Next1.data = This.data
BY DEF Next1, Streams

LEMMA HoleOutput ==
  ASSUME StreamsSound, PagesSound', OutputSound, Hole, ReadsPacket
  PROVE  OutputSound'
<1>0. PagesSound /\ TypeOK /\ Reads /\ FilesSound
  BY SoundOutput DEF StreamsSound, PagesSound, Hole
<1>1. PICK i \in DOMAIN streams : i = reading
  BY <1>0, ThisFacts
<1>2. /\ This = streams[i] /\ This \in Streams /\ streams'[i] = Next1
      /\ phase' = phase /\ disk' = disk /\ files' = files /\ format' = format
  BY <1>0, <1>1, ThisFacts DEF Hole, Options, TypeOK
<1>3. /\ streams'[i].probe = streams[i].probe /\ streams'[i].init = streams[i].init
      /\ streams'[i].fout = streams[i].fout /\ streams'[i].ret = streams[i].ret
  BY <1>2, Next1Fields
<1>4. Got(i)' = Got(i) /\ Done(i)' = Done(i)
  <2>1. Head(This.queue) = Gap
    BY <1>0, HasFacts DEF Hole
  <2> QED BY <1>1, <2>1, StreamsReads
<1>5. Fine(i)'
  BY <1>2, <1>3, <1>4, FineKept, SoundOutput
<1>6. \A j \in DOMAIN streams : j # i => streams'[i].fout \cap streams[j].fout = {}
  BY <1>3, SoundOutput DEF Apart
<1>7. FilesSound'
  BY <1>0, <1>2 DEF FilesSound
<1> QED BY <1>1, <1>2, <1>5, <1>6, <1>7, OutputRead

LEMMA HeaderOutput ==
  ASSUME StreamsSound, PagesSound', OutputSound, Header, ReadsPacket
  PROVE  OutputSound'
<1>0. PagesSound /\ TypeOK /\ Reads /\ FilesSound /\ Has("header")
  BY SoundOutput DEF StreamsSound, PagesSound, Header, HeaderFits
<1>1. PICK i \in DOMAIN streams : i = reading
  BY <1>0, ThisFacts
<1>2. /\ This = streams[i] /\ This \in Streams
      /\ streams'[i] = [Next1 EXCEPT !.init = "header_info", !.probe = @ + 1]
      /\ phase' = phase /\ disk' = disk /\ files' = files /\ format' = format
      /\ phase = "reading"
  BY <1>0, <1>1, ThisFacts DEF Header, Options, TypeOK, Reads
<1>3. /\ streams'[i].probe = streams[i].probe + 1 /\ streams'[i].init = "header_info"
      /\ streams'[i].fout = streams[i].fout /\ streams'[i].ret = streams[i].ret
      /\ streams[i].probe \in Nat
  BY <1>2 DEF Next1, Streams
<1> DEFINE e == Head(This.queue)
<1>4. e \in Packets /\ e.kind = "header" /\ e # Gap /\ e.n = streams[i].probe
  BY <1>0, <1>2, HasFacts, PacketFacts DEF Header, HeaderFits
<1>5. Done(i)' = Done(i) \cup {e}
  BY <1>1, <1>4, StreamsReads
<1>6. Fine(i) /\ ProgressSound(streams[i], Done(i))
  BY SoundOutput DEF Fine
<1>7. /\ streams[i].fout = {} /\ streams[i].probe < Headers
      /\ \A p \in Done(i) : p.kind = "header" /\ p.n < streams[i].probe
      /\ ~(streams[i].ret < 0)
  <2>1. streams[i].fout = {}
    BY <1>2, <1>6 DEF ProgressSound, Header
  <2> QED BY <1>6, <2>1 DEF ProgressSound
<1>8. streams[i].probe + 1 < Headers
  <2>1. streams[i].probe # Headers - 1
    BY <1>2 DEF Header, IsLast
  <2> QED BY <1>3, <1>7, <2>1, HeadersAssumption
<1>9. \A p \in Done(i) \cup {e} : p.kind = "header" /\ p.n < streams[i].probe + 1
  <2>1. \A p \in Done(i) : p \in Packets
    BY <1>0, GotPackets DEF Done
  <2>2. \A p \in Done(i) : p.n \in Nat
    BY <1>7, <2>1, PacketFacts
  <2> QED BY <1>3, <1>4, <1>7, <2>2
<1>10. ProgressSound(streams[i], Done(i))'
  BY <1>2, <1>3, <1>5, <1>7, <1>8, <1>9 DEF ProgressSound, InData
<1>11. Fine(i)'
  BY <1>3, <1>7, <1>10 DEF Fine
<1>12. FilesSound'
  BY <1>0, <1>2 DEF FilesSound
<1> QED BY <1>1, <1>2, <1>3, <1>7, <1>11, <1>12, OutputRead

LEMMA OpenOutput ==
  ASSUME StreamsSound, PagesSound', OutputSound, Open, ReadsPacket
  PROVE  OutputSound'
<1>0. PagesSound /\ TypeOK /\ Reads /\ FilesSound /\ Has("header")
  BY SoundOutput DEF StreamsSound, PagesSound, Open, HeaderFits, Ready
<1>1. PICK i \in DOMAIN streams : i = reading
  BY <1>0, ThisFacts
<1>2. PICK name : name = Name(This)
  OBVIOUS
<1>3. /\ This = streams[i] /\ This \in Streams
      /\ streams'[i] = [Next1 EXCEPT !.init = "data", !.probe = @ + 1, !.fout = {name}]
      /\ phase' = phase /\ disk' = disk \cup {name} /\ format' = format
      /\ phase = "reading" /\ ~Used(name)
      /\ files' = [f \in DOMAIN files \cup {name} |->
                     IF f # name THEN files[f]
                     ELSE IF HasStart THEN << [what |-> "start"] >> ELSE <<>>]
  BY <1>0, <1>1, <1>2, ThisFacts DEF Open, Options, TypeOK, Reads
<1>4. /\ streams'[i].init = "data" /\ streams'[i].fout = {name}
      /\ streams'[i].ret = streams[i].ret
  BY <1>3 DEF Next1, Streams
<1> DEFINE e == Head(This.queue)
<1>5. e \in Packets /\ e.kind = "header" /\ e # Gap
  BY <1>0, <1>3, HasFacts, PacketFacts
<1>6. Done(i)' = Done(i) \cup {e} /\ Got(i)' = Got(i)
  BY <1>1, <1>5, StreamsReads
<1>7. ProgressSound(streams[i], Done(i))
  BY SoundOutput DEF Fine
<1>8. /\ streams[i].fout = {} /\ ~(streams[i].ret < 0)
      /\ \A p \in Done(i) : p.kind = "header"
  <2>1. streams[i].fout = {}
    BY <1>3, <1>7 DEF ProgressSound, Open, Ready
  <2> QED BY <1>7, <2>1 DEF ProgressSound
<1>9. \A p \in Done(i) \cup {e} : p.kind = "header"
  BY <1>5, <1>8
<1> HIDE DEF e
<1>10. ProgressSound(streams[i], Done(i))'
  BY <1>3, <1>4, <1>6, <1>8, <1>9 DEF ProgressSound, InData
<1> DEFINE f == files'[name]
<1>11. /\ f = IF HasStart THEN << [what |-> "start"] >> ELSE <<>>
       /\ f \in Seq(Entries) /\ Events(f) = {} /\ Ends(f) = {}
       /\ HasStart => Headed(f)
  <2>1. f = IF HasStart THEN << [what |-> "start"] >> ELSE <<>>
    BY <1>3
  <2>2. CASE HasStart
    <3>1. f = << [what |-> "start"] >> /\ [what |-> "start"] \in Entries
      BY <2>1, <2>2 DEF Entries
    <3> QED BY <2>1, <2>2, <3>1 DEF Events, Ends, Headed
  <2>3. CASE ~HasStart
    <3>1. f = <<>>
      BY <2>1, <2>3
    <3> QED BY <2>1, <2>3, <3>1 DEF Events, Ends
  <2> QED BY <2>2, <2>3
<1> HIDE DEF f
<1>12. FileSound(streams[i], files[name], Done(i))'
  <2>1. EventsOf(f) = {} /\ Texts(Done(i) \cup {e}) = {}
    BY <1>9, <1>11 DEF EventsOf, Texts
  <2>2. (EventsOf(files[name]) = Texts(Done(i)))'
    BY <1>6, <2>1 DEF f, EventsOf, Events, Texts
  <2>3. (Ends(files[name]) = {})'
    BY <1>11 DEF f, Ends
  <2> QED BY <1>3, <1>4, <2>2, <2>3 DEF FileSound
<1>13. Fine(i)'
  BY <1>3, <1>4, <1>10, <1>12 DEF Fine
<1>14. FilesSound'
  <2>1. ASSUME NEW g \in DOMAIN files'
        PROVE  /\ (files[g] \in Seq(Entries) /\ Ordered(files[g]))'
               /\ (format = "kate" => Headed(files[g]))'
    <3>1. CASE g = name
      <4>1. Ordered(f)
        BY <1>11 DEF Ordered
      <4>2. format' = "kate" => HasStart
        BY <1>3 DEF HasStart
      <4> QED BY <1>11, <3>1, <4>1, <4>2 DEF f, Ordered, Events, Headed
    <3>2. CASE g # name
      <4>1. g \in DOMAIN files /\ files'[g] = files[g]
        BY <1>3, <2>1, <3>2
      <4> QED BY <1>0, <1>3, <4>1 DEF FilesSound, Ordered, Events, Headed
    <3> QED BY <3>1, <3>2
  <2> QED BY <2>1 DEF FilesSound
<1>15. ASSUME NEW j \in DOMAIN streams, j # i
       PROVE  /\ \A g \in streams[j].fout : files'[g] = files[g]
              /\ streams'[i].fout \cap streams[j].fout = {}
  <2>1. name \notin streams[j].fout
    BY <1>3, <1>15 DEF Used
  <2>2. \A g \in streams[j].fout : g \in DOMAIN files
    <3>1. streams[j] \in Streams
      BY <1>0, StreamFacts
    <3> QED BY <3>1 DEF Streams
  <2> QED BY <1>3, <1>4, <2>1, <2>2
<1> QED BY <1>1, <1>3, <1>13, <1>14, <1>15, OutputRead

(* What may be written of a packet, and where.                               *)
Suits(w, e) ==
  /\ w \in Seq(Entries) /\ EventsOf(w) = Texts({e}) /\ \A j, k \in Events(w) : j = k
  /\ \A k \in DOMAIN w : w[k].what # "start"
  /\ HasEnd => Ends(w) = IF e.kind = "end" THEN {Len(w)} ELSE {}
  /\ w # <<>> => e.kind \in {"text", "end"}
Appends(names, w) ==
  /\ DOMAIN files' = DOMAIN files
  /\ \A f \in DOMAIN files : files'[f] = IF f \in names THEN files[f] \o w ELSE files[f]

(* A packet of the data of a stream, and what is written for it, if anything.*)
LEMMA DataOutput ==
  ASSUME StreamsSound, PagesSound', OutputSound, ReadsPacket,
         NEW i \in DOMAIN streams, i = reading, InData(This), phase = "reading",
         phase' = phase, disk' = disk,
         NEW e \in Packets, e = Head(This.queue), NEW w, Suits(w, e), Appends(This.fout, w),
         streams'[i].fout = This.fout,
         streams'[i].init = (IF e.kind = "end" THEN "eos" ELSE This.init),
         streams'[i].ret < 0 <=> This.ret < 0 \/ e.kind = "bad"
  PROVE  OutputSound'
<1>20. /\ w \in Seq(Entries) /\ EventsOf(w) = Texts({e}) /\ \A j, k \in Events(w) : j = k
       /\ \A k \in DOMAIN w : w[k].what # "start"
       /\ HasEnd => Ends(w) = IF e.kind = "end" THEN {Len(w)} ELSE {}
       /\ w # <<>> => e.kind \in {"text", "end"}
       /\ DOMAIN files' = DOMAIN files
       /\ \A f \in DOMAIN files :
            files'[f] = IF f \in This.fout THEN files[f] \o w ELSE files[f]
  BY DEF Suits, Appends
<1>0. /\ PagesSound /\ TypeOK /\ FilesSound /\ Apart /\ Fine(i) /\ This = streams[i]
      /\ format' = format /\ streams[i] \in Streams
  BY SoundOutput, StreamFacts DEF StreamsSound, PagesSound, This, ReadsPacket, Options
<1>1. /\ Done(i)' = Done(i) \cup {e} /\ Got(i)' = Got(i)
      /\ \A p \in Done(i) : p.no < e.no
      /\ e \in Got(i) /\ Done(i) \subseteq Got(i)
  <2>1. e # Gap
    BY PacketFacts
  <2>2. /\ Done(i)' = Done(i) \cup {e} /\ Got(i)' = Got(i) /\ \A p \in Done(i) : p.no < e.no
        /\ e \in Waiting(streams[i])
    BY <2>1, StreamsReads
  <2>3. Waiting(streams[i]) \subseteq Got(i)
    BY DEF StreamsSound, QueueSound
  <2> QED BY <2>2, <2>3 DEF Done
<1>2. ProgressSound(streams[i], Done(i)) /\ streams[i].fout # {} /\ streams[i].init \in {"data", "eos"}
  BY <1>0 DEF Fine, ProgressSound, InData
<1>3. PICK name \in DOMAIN files : streams[i].fout = {name}
  BY <1>0, <1>2 DEF Streams
<1>4. PICK f : f = files[name]
  OBVIOUS
<1>5. /\ files'[name] = f \o w /\ \A g \in DOMAIN files : g # name => files'[g] = files[g]
      /\ DOMAIN files' = DOMAIN files /\ streams'[i].fout = {name}
      /\ name \in disk
  BY <1>0, <1>3, <1>4, <1>20 DEF Fine
<1>6. f \in Seq(Entries) /\ Ordered(f) /\ (format = "kate" => Headed(f)) /\ Len(f) \in Nat
  BY <1>0, <1>4 DEF FilesSound
<1>7. FileSound(streams[i], f, Done(i))
  BY <1>0, <1>3, <1>4 DEF Fine
<1> DEFINE h == f \o w
<1>8. /\ h \in Seq(Entries) /\ Len(h) = Len(f) + Len(w)
      /\ EventsOf(h) = EventsOf(f) \cup EventsOf(w)
      /\ \A n \in Nat : n \in Ends(h) <=> n \in Ends(f) \/ n - Len(f) \in Ends(w)
      /\ Headed(f) => Headed(h)
      /\ (\A p \in EventsOf(f), q \in EventsOf(w) : p.serial = q.serial /\ p.no < q.no) => Ordered(h)
  BY <1>6, <1>20, Joined
<1>9. \A p \in EventsOf(f), q \in EventsOf(w) : p.serial = q.serial /\ p.no < q.no
  <2> SUFFICES ASSUME NEW p \in EventsOf(f), NEW q \in EventsOf(w)
               PROVE  p.serial = q.serial /\ p.no < q.no
    OBVIOUS
  <2>1. p \in Done(i) /\ q = e
    BY <1>7, <1>20 DEF FileSound, Texts
  <2>2. p.serial = streams[i].serial /\ e.serial = streams[i].serial
    BY <1>0, <1>1, <2>1, GotSerial
  <2> QED BY <1>1, <2>1, <2>2
<1> HIDE DEF h
<1>10. EventsOf(h) = Texts(Done(i) \cup {e})
  BY <1>7, <1>8, <1>20 DEF FileSound, Texts
<1>11. ProgressSound(streams[i], Done(i))'
  <2>1. streams'[i].fout # {} /\ streams'[i].init \in {"data", "eos"}
    BY <1>0, <1>2, <1>5
  <2>2. streams'[i].ret < 0 <=> \E p \in Done(i) \cup {e} : p.kind = "bad"
    BY <1>0, <1>2 DEF ProgressSound
  <2>3. streams'[i].init = "eos" <=> \E p \in Done(i) \cup {e} : p.kind = "end"
    BY <1>0, <1>2 DEF ProgressSound
  <2> QED BY <1>1, <2>1, <2>2, <2>3 DEF ProgressSound, InData
<1>12. ASSUME HasEnd, ~GoesOn(streams[i])
       PROVE  Ends(h) \subseteq {Len(h)}
  <2>1. Ends(f) \subseteq {Len(f)} /\ (Ends(f) # {} <=> streams[i].init = "eos")
    BY <1>7, <1>12 DEF FileSound
  <2>2. \A n \in Ends(h) : n \in Nat
    BY <1>8 DEF Ends
  <2>3. CASE Ends(f) = {}
    <3>1. \A n \in Ends(h) : n - Len(f) = Len(w)
      BY <1>8, <1>12, <1>20, <2>2, <2>3
    <3>2. \A n \in Ends(h) : n = Len(h)
      <4> TAKE n \in Ends(h)
      <4>1. n \in Nat /\ Len(w) \in Nat /\ n - Len(f) = Len(w)
        BY <1>20, <2>2, <3>1
      <4> QED BY <1>6, <1>8, <4>1
    <3> QED BY <3>2
  <2>4. CASE Ends(f) # {}
    <3>1. PICK p \in Done(i) : p.kind = "end"
      BY <1>2, <2>1, <2>4 DEF ProgressSound
    <3>2. e.kind \notin {"text", "end"}
      BY <1>1, <1>12, <3>1 DEF GoesOn, Got
    <3>3. w = <<>> /\ Len(w) = 0 /\ Ends(w) = {}
      BY <1>12, <1>20, <3>2 DEF Ends
    <3>4. Ends(h) \subseteq Ends(f)
      BY <1>8, <2>2, <3>3
    <3> QED BY <1>6, <1>8, <2>1, <3>3, <3>4
  <2> QED BY <2>3, <2>4
<1>13. ASSUME HasEnd
       PROVE  Ends(h) # {} <=> streams'[i].init = "eos"
  <2>1. Ends(f) # {} <=> streams[i].init = "eos"
    BY <1>7, <1>13 DEF FileSound
  <2>2. /\ \A n \in Ends(f) : n \in Nat
        /\ \A n \in Ends(h) : n \in Nat
        /\ \A n \in Ends(w) : n \in Nat
    BY <1>6, <1>8, <1>20 DEF Ends
  <2>3. CASE e.kind = "end"
    <3>1. Len(w) \in Ends(w) /\ Len(w) \in Nat
      BY <1>13, <1>20, <2>3
    <3>2. Len(f) + Len(w) \in Ends(h)
      <4>1. Len(f) + Len(w) \in Nat /\ (Len(f) + Len(w)) - Len(f) = Len(w)
        BY <1>6, <3>1
      <4> QED BY <1>8, <3>1, <4>1
    <3> QED BY <2>3, <3>2
  <2>4. CASE e.kind # "end"
    <3>1. Ends(w) = {}
      BY <1>13, <1>20, <2>4
    <3>2. \A n : n \in Ends(h) <=> n \in Ends(f)
      BY <1>8, <2>2, <3>1
    <3>3. streams'[i].init = streams[i].init
      BY <1>0, <2>4
    <3> QED BY <2>1, <3>2, <3>3
  <2> QED BY <2>3, <2>4
<1>14. FileSound(streams[i], files[name], Done(i))'
  <2>1. files'[name] = h
    BY <1>4, <1>5 DEF h
  <2>2. GoesOn(streams[i]) => GoesOn(streams[i])'
    BY <1>1, GoesOnMore
  <2>3. (EventsOf(files[name]) = Texts(Done(i)))'
    BY <1>1, <1>10, <2>1
  <2>4. (HasEnd => GoesOn(streams[i]) \/ Ends(files[name]) \subseteq {Len(files[name])})'
    BY <1>0, <1>12, <2>1, <2>2 DEF Ends, HasEnd
  <2>5. (HasEnd => (Ends(files[name]) # {} <=> streams[i].init = "eos"))'
    BY <1>0, <1>13, <2>1 DEF Ends, HasEnd
  <2> QED BY <2>3, <2>4, <2>5 DEF FileSound
<1>15. Fine(i)'
  BY <1>5, <1>11, <1>14 DEF Fine
<1>16. FilesSound'
  <2>1. ASSUME NEW g \in DOMAIN files'
        PROVE  /\ (files[g] \in Seq(Entries) /\ Ordered(files[g]))'
               /\ (format = "kate" => Headed(files[g]))'
    <3>1. CASE g = name
      <4>1. files'[g] = h /\ h \in Seq(Entries) /\ Ordered(h) /\ (format = "kate" => Headed(h))
        BY <1>4, <1>5, <1>6, <1>8, <1>9, <3>1 DEF h
      <4> QED BY <1>0, <4>1
    <3>2. CASE g # name
      <4>1. g \in DOMAIN files /\ files'[g] = files[g]
        BY <1>5, <2>1, <3>2
      <4> QED BY <1>0, <4>1 DEF FilesSound, Ordered, Events, Headed
    <3> QED BY <3>1, <3>2
  <2> QED BY <2>1 DEF FilesSound
<1>17. ASSUME NEW j \in DOMAIN streams, j # i
       PROVE  /\ \A g \in streams[j].fout : files'[g] = files[g]
              /\ streams'[i].fout \cap streams[j].fout = {}
  <2>1. streams[i].fout \cap streams[j].fout = {}
    BY <1>0, <1>17 DEF Apart
  <2>2. streams[j] \in Streams
    BY <1>0, StreamFacts
  <2>3. \A g \in streams[j].fout : g \in DOMAIN files
    BY <2>2 DEF Streams
  <2> QED BY <1>3, <1>5, <2>1, <2>3
<1> QED BY <1>15, <1>16, <1>17, OutputRead

LEMMA NothingWritten ==
  ASSUME FilesSound
  PROVE  /\ <<>> \in Seq(Entries) /\ EventsOf(<<>>) = {} /\ Events(<<>>) = {} /\ Ends(<<>>) = {}
         /\ \A f \in DOMAIN files : files[f] \o <<>> = files[f]
<1>1. EventsOf(<<>>) = {} /\ Events(<<>>) = {} /\ Ends(<<>>) = {}
  BY DEF EventsOf, Events, Ends
<1>2. ASSUME NEW f \in DOMAIN files PROVE files[f] \o <<>> = files[f]
  <2>1. files[f] \in Seq(Entries)
    BY DEF FilesSound
  <2> QED BY <2>1
<1> QED BY <1>1, <1>2

LEMMA SilentOutput ==
  ASSUME StreamsSound, PagesSound', OutputSound, Silent \/ Bad, ReadsPacket
  PROVE  OutputSound'
<1>0. PagesSound /\ TypeOK /\ Reads /\ FilesSound /\ InData(This)
  BY SoundOutput DEF StreamsSound, PagesSound, Silent, Bad
<1>1. PICK i \in DOMAIN streams : i = reading
  BY <1>0, ThisFacts
<1>2. PICK e \in Packets : /\ e = Head(This.queue) /\ e.kind \notin {"text", "end"}
                           /\ Silent => e.kind # "bad"
                           /\ Bad => e.kind = "bad"
  BY <1>0, HasFacts DEF Silent, Bad
<1>3. /\ This = streams[i] /\ This \in Streams
      /\ phase' = phase /\ disk' = disk /\ files' = files /\ phase = "reading"
      /\ Silent => streams'[i] = [Next1 EXCEPT !.ret = Status(@, 0)]
      /\ Bad => streams'[i] = [Next1 EXCEPT !.ret = Status(@, -1)]
  BY <1>0, <1>1, ThisFacts DEF Silent, Bad, Options, TypeOK, Reads
<1>4. /\ Next1 \in Streams /\ Next1.fout = This.fout /\ Next1.init = This.init
      /\ Next1.ret = This.ret /\ This.ret \in Int
  <2>1. This.queue # <<>>
    BY DEF ReadsPacket
  <2>2. Tail(This.queue) \in Seq(Packets \cup {Gap})
    BY <1>0, <2>1, ThisFacts
  <2> QED BY <1>3, <2>2 DEF Next1, Streams
<1>5. /\ streams'[i].fout = This.fout /\ streams'[i].init = This.init
      /\ Silent => streams'[i].ret = This.ret
      /\ Bad => streams'[i].ret = -1
  BY <1>3, <1>4 DEF Streams, Status
<1>6. streams'[i].ret < 0 <=> This.ret < 0 \/ e.kind = "bad"
  BY <1>2, <1>5
<1>7. Suits(<<>>, e)
  BY <1>0, <1>2, NothingWritten DEF Suits, Texts
<1>8. Appends(This.fout, <<>>)
  BY <1>0, <1>3, NothingWritten DEF Appends
<1> QED BY <1>0, <1>1, <1>2, <1>3, <1>5, <1>6, <1>7, <1>8, DataOutput

LEMMA TextOutput ==
  ASSUME StreamsSound, PagesSound', OutputSound, Text, ReadsPacket
  PROVE  OutputSound' /\ phase' = "reading"
<1>0. PagesSound /\ TypeOK /\ Reads /\ FilesSound /\ InData(This) /\ phase = "reading"
  BY SoundOutput DEF StreamsSound, PagesSound, Text, Reads
<1>1. PICK i \in DOMAIN streams : i = reading
  BY <1>0, ThisFacts
<1>2. PICK e \in Packets : e = Head(This.queue) /\ e.kind = "text"
  BY <1>0, HasFacts DEF Text
<1>3. PICK w : w = Printed(This.data, e)
  OBVIOUS
<1>4. /\ This = streams[i] /\ This \in Streams /\ disk' = disk /\ Write(This, w)
      /\ streams'[i] = [Next1 EXCEPT !.data = DataAfter(@, e), !.ret = Status(@, 0)]
  BY <1>0, <1>1, <1>2, <1>3, ThisFacts DEF Text, Options, TypeOK
<1>5. This.fout # {}
  BY <1>0, <1>4, SoundOutput DEF Fine, ProgressSound
<1>6. phase' = phase /\ Appends(This.fout, w)
  BY <1>4, <1>5 DEF Write, Appends
<1>7. /\ streams'[i].fout = This.fout /\ streams'[i].init = This.init
      /\ streams'[i].ret = This.ret
  <2>1. Next1.ret = This.ret /\ Next1.fout = This.fout /\ Next1.init = This.init
    BY <1>4, Next1Fields
  <2>2. DOMAIN Next1 = DOMAIN This
    BY DEF Next1
  <2>3. Next1 \in Streams
    <3>1. This.queue # <<>>
      BY DEF ReadsPacket
    <3>2. Tail(This.queue) \in Seq(Packets \cup {Gap})
      BY <1>0, <3>1, ThisFacts
    <3> QED BY <1>4, <3>2 DEF Next1, Streams
  <2>4. Status(This.ret, 0) = This.ret
    BY DEF Status
  <2> QED BY <1>4, <2>1, <2>3, <2>4 DEF Streams
<1>8. /\ w \in Seq(Entries) /\ EventsOf(w) = {e} /\ \A j, k \in Events(w) : j = k
      /\ Ends(w) = {} /\ \A k \in DOMAIN w : w[k].what # "start"
  <2>1. This.data \in Int
    BY <1>4 DEF Streams
  <2> QED BY <1>2, <1>3, <2>1, PrintedFacts
<1>9. Suits(w, e)
  BY <1>2, <1>8 DEF Texts, Suits
<1>10. /\ streams'[i].init = (IF e.kind = "end" THEN "eos" ELSE This.init)
       /\ streams'[i].ret < 0 <=> This.ret < 0 \/ e.kind = "bad"
  BY <1>2, <1>7
<1>11. OutputSound'
  BY <1>0, <1>1, <1>2, <1>4, <1>6, <1>7, <1>9, <1>10, DataOutput
<1> QED BY <1>0, <1>6, <1>11

LEMMA EndOutput ==
  ASSUME StreamsSound, PagesSound', OutputSound, End, ReadsPacket
  PROVE  OutputSound' /\ phase' = "reading"
<1>0. PagesSound /\ TypeOK /\ Reads /\ FilesSound /\ InData(This) /\ phase = "reading"
  BY SoundOutput DEF StreamsSound, PagesSound, End, Reads
<1>1. PICK i \in DOMAIN streams : i = reading
  BY <1>0, ThisFacts
<1>2. PICK e \in Packets : e = Head(This.queue) /\ e.kind = "end"
  BY <1>0, HasFacts DEF End
<1>3. PICK w : w = IF HasEnd THEN << [what |-> "end"] >> ELSE <<>>
  OBVIOUS
<1>4. /\ This = streams[i] /\ This \in Streams /\ disk' = disk
      /\ streams'[i] = [Next1 EXCEPT !.init = "eos", !.ret = Status(@, 0)]
  BY <1>0, <1>1, ThisFacts DEF End, Options, TypeOK
<1>5. This.fout # {}
  BY <1>0, <1>4, SoundOutput DEF Fine, ProgressSound
<1>6. phase' = phase /\ Appends(This.fout, w)
  <2>1. CASE HasEnd
    <3>1. Write(This, w)
      BY <1>3, <2>1 DEF End
    <3> QED BY <1>5, <3>1 DEF Write, Appends
  <2>2. CASE ~HasEnd
    <3>1. files' = files /\ phase' = phase /\ w = <<>>
      BY <1>3, <2>2 DEF End
    <3>2. \A f \in DOMAIN files : files[f] \o w = files[f]
      BY <1>0, <3>1, NothingWritten
    <3> QED BY <3>1, <3>2 DEF Appends
  <2> QED BY <2>1, <2>2
<1>7. /\ streams'[i].fout = This.fout /\ streams'[i].init = "eos"
      /\ streams'[i].ret = This.ret
  <2>1. Next1.ret = This.ret /\ Next1.fout = This.fout
    BY <1>4, Next1Fields
  <2>3. Next1 \in Streams
    <3>1. This.queue # <<>>
      BY DEF ReadsPacket
    <3>2. Tail(This.queue) \in Seq(Packets \cup {Gap})
      BY <1>0, <3>1, ThisFacts
    <3> QED BY <1>4, <3>2 DEF Next1, Streams
  <2>4. Status(This.ret, 0) = This.ret
    BY DEF Status
  <2> QED BY <1>4, <2>1, <2>3, <2>4 DEF Streams
<1>8. /\ w \in Seq(Entries) /\ Events(w) = {}
      /\ \A k \in DOMAIN w : w[k].what # "start"
      /\ HasEnd => Ends(w) = {Len(w)}
  <2>1. CASE HasEnd
    <3>1. w = << [what |-> "end"] >> /\ [what |-> "end"] \in Entries
      BY <1>3, <2>1 DEF Entries
    <3> QED BY <3>1 DEF Events, Ends
  <2>2. CASE ~HasEnd
    BY <1>0, <1>3, <2>2, NothingWritten
  <2> QED BY <2>1, <2>2
<1>9. Suits(w, e)
  BY <1>2, <1>8 DEF Texts, EventsOf, Suits
<1>10. /\ streams'[i].init = (IF e.kind = "end" THEN "eos" ELSE This.init)
       /\ streams'[i].ret < 0 <=> This.ret < 0 \/ e.kind = "bad"
  BY <1>2, <1>7
<1>11. OutputSound'
  BY <1>0, <1>1, <1>2, <1>4, <1>6, <1>7, <1>9, <1>10, DataOutput
<1> QED BY <1>0, <1>6, <1>11

(* The end that is forced on the streams that are left.                      *)
JustEnd == << [what |-> "end"] >>

LEMMA EndFacts ==
  ASSUME NEW f \in Seq(Entries)
  PROVE  /\ f \o JustEnd \in Seq(Entries) /\ Len(f \o JustEnd) = Len(f) + 1
         /\ EventsOf(f \o JustEnd) = EventsOf(f)
         /\ \A n \in Nat : n \in Ends(f \o JustEnd) <=> n \in Ends(f) \/ n = Len(f) + 1
         /\ Headed(f) => Headed(f \o JustEnd)
         /\ Ordered(f) => Ordered(f \o JustEnd)
<1>1. JustEnd \in Seq(Entries) /\ Len(JustEnd) = 1
  <2>1. [what |-> "end"] \in Entries
    BY DEF Entries
  <2> QED BY <2>1 DEF JustEnd
<1>2. /\ Events(JustEnd) = {} /\ Ends(JustEnd) = {1}
      /\ \A k \in DOMAIN JustEnd : JustEnd[k].what # "start"
  BY DEF Events, Ends, JustEnd
<1>3. EventsOf(JustEnd) = {}
  BY <1>2 DEF EventsOf
<1>4. Len(f) \in Nat
  OBVIOUS
<1>5. PICK g \in Seq(Entries) : g = JustEnd
  BY <1>1
<1>6. /\ f \o g \in Seq(Entries) /\ Len(f \o g) = Len(f) + Len(g)
      /\ EventsOf(f \o g) = EventsOf(f) \cup EventsOf(g)
      /\ \A n \in Nat : n \in Ends(f \o g) <=> n \in Ends(f) \/ n - Len(f) \in Ends(g)
      /\ Headed(f) /\ (\A k \in DOMAIN g : g[k].what # "start") => Headed(f \o g)
      /\ Ordered(f) /\ (\A j, k \in Events(g) : j = k)
              /\ (\A p \in EventsOf(f), q \in EventsOf(g) : p.serial = q.serial /\ p.no < q.no)
            => Ordered(f \o g)
  BY <1>5, Joined
<1>7. \A n \in Nat : n - Len(f) \in Ends(g) <=> n = Len(f) + 1
  BY <1>2, <1>4, <1>5
<1> QED BY <1>1, <1>2, <1>3, <1>5, <1>6, <1>7

(* Which of them get it.                                                     *)
Open1(i) == HasEnd /\ Unended(streams[i])
LEMMA ForceEndFiles ==
  ASSUME PagesSound, OutputSound, ForceEnd
  PROVE  /\ DOMAIN files' = DOMAIN files
         /\ \A name \in DOMAIN files : files'[name] = files[name] \/
                                       files'[name] = files[name] \o JustEnd
         /\ \A i \in DOMAIN streams : \A name \in streams[i].fout :
              /\ files'[name] = files[name] \/
                 (files'[name] = files[name] \o JustEnd /\ Open1(i))
              /\ phase' = "closing" /\ Open1(i) => files'[name] = files[name] \o JustEnd
<1> DEFINE open == {i \in DOMAIN streams : HasEnd /\ Unended(streams[i])}
           fatal == {i \in open : streams[i].fout = {}}
           first == {j \in open : \A k \in fatal : j < k}
           ended == UNION {streams[i].fout : i \in first}
<1>1. /\ files' = [f \in DOMAIN files |->
                     IF f \in ended THEN files[f] \o << [what |-> "end"] >> ELSE files[f]]
      /\ phase' = IF fatal = {} THEN "closing" ELSE "crashed"
  BY DEF ForceEnd
<1>2. \A name : name \in ended <=> \E j \in first : name \in streams[j].fout
  OBVIOUS
<1> HIDE DEF ended
<1>3. /\ DOMAIN files' = DOMAIN files
      /\ \A name \in DOMAIN files :
           /\ name \in ended => files'[name] = files[name] \o JustEnd
           /\ name \notin ended => files'[name] = files[name]
  BY <1>1 DEF JustEnd
<1>4. Apart /\ \A i \in DOMAIN streams : \A name \in streams[i].fout : name \in DOMAIN files
  <2>1. \A i \in DOMAIN streams : streams[i] \in Streams
    BY StreamFacts DEF PagesSound
  <2> QED BY <2>1, SoundOutput DEF Streams
<1>5. ASSUME NEW i \in DOMAIN streams, NEW name \in streams[i].fout
      PROVE  /\ name \in ended => Open1(i)
             /\ phase' = "closing" /\ Open1(i) => name \in ended
  <2>1. ASSUME name \in ended PROVE Open1(i)
    <3>1. PICK j \in first : name \in streams[j].fout
      BY <1>2, <2>1
    <3>2. j = i
      BY <1>4, <1>5, <3>1 DEF Apart
    <3> QED BY <3>1, <3>2 DEF Open1
  <2>2. ASSUME phase' = "closing", Open1(i) PROVE name \in ended
    <3>1. fatal = {}
      BY <1>1, <2>2
    <3>2. i \in first
      BY <2>2, <3>1 DEF Open1
    <3> QED BY <1>2, <1>5, <3>2
  <2> QED BY <2>1, <2>2
<1> QED BY <1>3, <1>4, <1>5

LEMMA ForceEndKeeps ==
  ASSUME StreamsSound, PagesSound', ForceEnd
  PROVE  /\ Closes
         /\ \A i \in DOMAIN streams :
              /\ Got(i)' = Got(i) /\ Done(i)' = Done(i)
              /\ streams'[i].probe = streams[i].probe /\ streams'[i].queue = streams[i].queue
              /\ streams'[i].fout = streams[i].fout /\ streams'[i].ret = streams[i].ret
              /\ (Waiting(streams[i]))' = Waiting(streams[i])
<1>0. PagesSound /\ TypeOK
  BY DEF StreamsSound, PagesSound
<1>1. Closes
  BY <1>0, ClosesStep
<1>2. given' = given /\ DOMAIN streams' = DOMAIN streams /\ \A k \in DOMAIN streams : Unmoved(k, k)
  BY <1>0, <1>1, QuietStays DEF Quiet
<1>3. PICK D : D = DOMAIN streams
  OBVIOUS
<1>4. PICK f : f = [k \in D |-> k]
  OBVIOUS
<1>5. \A k \in D : f[k] = k
  BY <1>4
<1>6. \A k \in DOMAIN streams' : Unmoved(k, f[k])
  <2> TAKE k \in DOMAIN streams'
  <2>1. k \in D /\ Unmoved(k, k)
    BY <1>2, <1>3
  <2>2. f[k] = k
    BY <1>5, <2>1
  <2> QED BY <2>1, <2>2
<1>7. \A j, k \in DOMAIN streams' : j < k => f[j] < f[k]
  BY <1>2, <1>3, <1>5
<1>8. ASSUME NEW k \in DOMAIN streams
      PROVE  /\ Got(k)' = Got(k) /\ Done(k)' = Done(k)
             /\ (Waiting(streams[k]))' = Waiting(streams[k])
  <2>1. k \in DOMAIN streams'
    BY <1>2, <1>8
  <2>2. f[k] = k
    BY <1>3, <1>5, <1>8
  <2>3. \A n \in DOMAIN streams' : /\ Got(n)' = Got(f[n]) /\ Done(n)' = Done(f[n])
                                   /\ (Waiting(streams[n]))' = Waiting(streams[f[n]])
    BY <1>2, <1>6, <1>7, StreamsMoved
  <2> QED BY <2>1, <2>2, <2>3
<1> QED BY <1>1, <1>2, <1>8 DEF Unmoved

LEMMA ForceEndOutput ==
  ASSUME StreamsSound, PagesSound', OutputSound, ForceEnd
  PROVE  OutputSound'
<1>0. /\ PagesSound /\ Apart /\ FilesSound /\ \A i \in DOMAIN streams : Fine(i)
      /\ phase = "reading"
  BY SoundOutput DEF StreamsSound, ForceEnd, Idle
<1>1. /\ DOMAIN streams' = DOMAIN streams /\ format' = format /\ disk' = disk
      /\ phase' \in {"closing", "crashed"}
      /\ \A i \in DOMAIN streams :
           /\ Got(i)' = Got(i) /\ Done(i)' = Done(i)
           /\ streams'[i].probe = streams[i].probe
           /\ streams'[i].fout = streams[i].fout /\ streams'[i].ret = streams[i].ret
  BY ForceEndKeeps DEF Closes, Options
<1>2. /\ DOMAIN files' = DOMAIN files
      /\ \A name \in DOMAIN files : files'[name] = files[name] \/
                                    files'[name] = files[name] \o JustEnd
      /\ \A i \in DOMAIN streams : \A name \in streams[i].fout :
           /\ files'[name] = files[name] \/
              (files'[name] = files[name] \o JustEnd /\ Open1(i))
           /\ phase' = "closing" /\ Open1(i) => files'[name] = files[name] \o JustEnd
  BY <1>0, ForceEndFiles
<1>3. Apart'
  BY <1>0, <1>1 DEF Apart
<1>4. FilesSound'
  <2>1. ASSUME NEW g \in DOMAIN files'
        PROVE  /\ (files[g] \in Seq(Entries) /\ Ordered(files[g]))'
               /\ (format = "kate" => Headed(files[g]))'
    <3>1. PICK f : f = files[g]
      OBVIOUS
    <3>2. f \in Seq(Entries) /\ Ordered(f) /\ (format = "kate" => Headed(f))
      BY <1>0, <1>2, <2>1, <3>1 DEF FilesSound
    <3>3. PICK h : h = files'[g]
      OBVIOUS
    <3>4. h = f \/ h = f \o JustEnd
      BY <1>2, <2>1, <3>1, <3>3
    <3>5. h \in Seq(Entries) /\ Ordered(h) /\ (format = "kate" => Headed(h))
      BY <3>2, <3>4, EndFacts
    <3> QED BY <1>1, <3>3, <3>5
  <2> QED BY <2>1 DEF FilesSound
<1>5. ASSUME NEW i \in DOMAIN streams
      PROVE  Fine(i)'
  <2>0. ProgressSound(streams[i], Done(i)) /\ Got(i)' = Got(i) /\ Done(i)' = Done(i)
    BY <1>0, <1>1, <1>5 DEF Fine
  <2>1. ProgressSound(streams[i], Done(i))'
    BY <1>1, <1>5, <2>0 DEF ProgressSound
  <2>2. (phase \in {"reading", "closing"} => streams[i].fout \subseteq disk)'
    BY <1>0, <1>1, <1>5 DEF Fine
  <2>3. ASSUME NEW name \in streams'[i].fout
        PROVE  FileSound(streams[i], files[name], Done(i))'
    <3>1. PICK f : f = files[name]
      OBVIOUS
    <3>2. PICK h : h = files'[name]
      OBVIOUS
    <3>3. name \in streams[i].fout /\ name \in DOMAIN files /\ f \in Seq(Entries)
      <4>1. name \in streams[i].fout
        BY <1>1, <1>5, <2>3
      <4>2. streams[i] \in Streams
        BY <1>0, <1>5, StreamFacts DEF PagesSound
      <4>3. name \in DOMAIN files
        BY <4>1, <4>2 DEF Streams
      <4> QED BY <1>0, <3>1, <4>1, <4>3 DEF FilesSound
    <3>4. /\ EventsOf(f) = Texts(Done(i))
          /\ HasEnd => /\ GoesOn(streams[i]) \/ Ends(f) \subseteq {Len(f)}
                       /\ Ends(f) # {} <=> streams[i].init = "eos"
      BY <1>0, <1>5, <3>1, <3>3 DEF Fine, FileSound
    <3>5. /\ h = f \/ (h = f \o JustEnd /\ Open1(i))
          /\ phase' = "closing" /\ Open1(i) => h = f \o JustEnd
      BY <1>2, <1>5, <3>1, <3>2, <3>3
    <3>6. /\ EventsOf(f \o JustEnd) = EventsOf(f) /\ Len(f \o JustEnd) = Len(f) + 1
          /\ \A n \in Nat : n \in Ends(f \o JustEnd) <=> n \in Ends(f) \/ n = Len(f) + 1
          /\ f \o JustEnd \in Seq(Entries) /\ Len(f) \in Nat
      BY <3>3, EndFacts
    <3>7. EventsOf(h) = Texts(Done(i))
      BY <3>4, <3>5, <3>6
    <3>8. ASSUME HasEnd PROVE GoesOn(streams[i]) \/ Ends(h) \subseteq {Len(h)}
      <4>1. CASE h = f
        BY <3>4, <3>8, <4>1
      <4>2. CASE h = f \o JustEnd /\ Open1(i)
        <5>1. Ends(f) = {}
          BY <3>4, <3>8, <4>2 DEF Open1, Unended
        <5>2. \A n \in Ends(h) : n \in Nat
          BY <3>6, <4>2 DEF Ends
        <5> QED BY <3>6, <4>2, <5>1, <5>2
      <4> QED BY <3>5, <4>1, <4>2
    <3>9. ASSUME HasEnd, phase' = "closing" PROVE Ends(h) # {}
      <4>1. CASE Open1(i)
        <5>1. h = f \o JustEnd /\ Len(f) + 1 \in Nat
          BY <3>5, <3>6, <3>9, <4>1
        <5> QED BY <3>6, <5>1
      <4>2. CASE ~Open1(i)
        BY <3>4, <3>5, <3>9, <4>2 DEF Open1, Unended
      <4> QED BY <4>1, <4>2
    <3>10. GoesOn(streams[i]) => GoesOn(streams[i])'
      BY <2>0, GoesOnMore
    <3>11. HasEnd' <=> HasEnd
      BY <1>1 DEF HasEnd
    <3>12. (EventsOf(files[name]) = Texts(Done(i)))'
      BY <2>0, <3>2, <3>7
    <3>13. (HasEnd => GoesOn(streams[i]) \/ Ends(files[name]) \subseteq {Len(files[name])})'
      BY <3>2, <3>8, <3>10, <3>11 DEF Ends
    <3>14. (HasEnd => (phase = "closing" => Ends(files[name]) # {}))'
      BY <3>2, <3>9, <3>11
    <3> QED BY <1>1, <3>12, <3>13, <3>14 DEF FileSound
  <2> QED BY <2>1, <2>2, <2>3 DEF Fine
<1> QED BY <1>1, <1>3, <1>4, <1>5 DEF OutputSound, Fine, Apart, FilesSound

LEMMA OutputInit == Init => OutputSound
<1> SUFFICES ASSUME Init PROVE OutputSound
  OBVIOUS
<1>1. DOMAIN streams = {} /\ DOMAIN files = {}
  BY DEF Init
<1> QED BY <1>1 DEF OutputSound

LEMMA ClearSetOutput ==
  ASSUME PagesSound, OutputSound, ClearSet
  PROVE  OutputSound'
<1>1. /\ DOMAIN streams' = {} /\ files' = files /\ format' = format
  BY DEF ClearSet, Options
<1>2. FilesSound
  BY SoundOutput
<1>3. FilesSound'
  BY <1>1, <1>2 DEF FilesSound
<1> QED BY <1>1, <1>3 DEF OutputSound, FilesSound

LEMMA OutputStep ==
  ASSUME StreamsSound, PagesSound', OutputSound, [Next]_vars
  PROVE  OutputSound'
<1>0. PagesSound /\ TypeOK
  BY DEF StreamsSound, PagesSound
<1>1. CASE \E s \in Serials : BosPage(s) \/ NextPage(s)
  <2>1. PICK s \in Serials, i \in Nat : TakesPage(s, i)
    BY <1>0, <1>1, TakesPageStep
  <2> QED BY <2>1, OutputTakes
<1>2. CASE (\E s \in Serials : StrayPage(s) \/ LosePage(s)) \/ EndOfPage \/ Abort \/ UNCHANGED vars
  BY <1>2, OutputQuiet
<1>3. CASE Hole \/ Header \/ Open \/ Text \/ Silent \/ Bad \/ End
  <2>1. ReadsPacket
    BY <1>0, <1>3, ReadsPacketStep
  <2> QED BY <1>3, <2>1, HoleOutput, HeaderOutput, OpenOutput, TextOutput, SilentOutput, EndOutput
<1>4. CASE WrongHeader \/ Ignore
  <2>1. Removes
    BY <1>0, <1>4, RemovesStep
  <2> QED BY <2>1, OutputRemoves
<1>5. CASE ForceEnd
  BY <1>5, ForceEndOutput
<1>6. CASE ClearSet
  BY <1>0, <1>6, ClearSetOutput
<1> QED BY <1>1, <1>2, <1>3, <1>4, <1>5, <1>6 DEF Next

-----------------------------------------------------------------------------
(* What the invariants say of the program.                                   *)

LEMMA WholeFiles == OutputSound => OneStreamEach /\ Framed
<1> SUFFICES ASSUME OutputSound PROVE OneStreamEach /\ Framed
  OBVIOUS
<1>1. FilesSound /\ \A i \in DOMAIN streams : Fine(i)
  BY SoundOutput
<1>2. OneStreamEach
  BY <1>1 DEF OneStreamEach, FilesSound
<1>3. ASSUME HasEnd, NEW i \in DOMAIN streams, NEW name \in streams[i].fout, ~GoesOn(streams[i])
      PROVE  /\ Ends(files[name]) \subseteq {Len(files[name])}
             /\ phase = "closing" => Ends(files[name]) # {}
  <2>1. FileSound(streams[i], files[name], Done(i))
    BY <1>1, <1>3 DEF Fine
  <2> QED BY <1>3, <2>1 DEF FileSound
<1> QED BY <1>1, <1>2, <1>3 DEF Framed, FilesSound

(* A step that ends the program badly: a stream has no file when its end is  *)
(* forced, so that not all of its headers have been seen.                    *)
LEMMA CrashInit == Init => CrashesOnlyIfCut
BY DEF Init, CrashesOnlyIfCut

LEMMA CrashForced ==
  ASSUME StreamsSound, PagesSound', OutputSound, ForceEnd, phase' = "crashed"
  PROVE  CrashesOnlyIfCut'
<1>1. PICK i \in DOMAIN streams : HasEnd /\ streams[i].fout = {}
  BY DEF ForceEnd
<1>2. /\ Got(i)' = Got(i) /\ streams'[i].queue = streams[i].queue
      /\ DOMAIN streams' = DOMAIN streams /\ format' = format
  BY ForceEndKeeps DEF Closes, Options
<1>3. ProgressSound(streams[i], Done(i)) /\ streams[i] \in Streams
  BY SoundOutput, StreamFacts DEF Fine, StreamsSound, PagesSound
<1>4. ASSUME streams[i].queue = <<>>
      PROVE  Headers - 1 \notin {p.n : p \in {q \in Got(i) : q.kind = "header"}}
  <2>1. Done(i) = Got(i)
    BY <1>4 DEF Done, Waiting, ToSet
  <2>2. streams[i].probe < Headers /\ \A p \in Got(i) : p.n < streams[i].probe
    BY <1>1, <1>3, <2>1 DEF ProgressSound
  <2>3. streams[i].probe \in Nat /\ Headers \in Nat /\ Headers # 0
    BY <1>3, HeadersAssumption DEF Streams
  <2>4. \A p \in Got(i) : p.kind = "header" => p.n # Headers - 1
    <3> TAKE p \in Got(i)
    <3>1. p \in Packets
      BY GotPackets DEF StreamsSound
    <3>2. p.kind = "header" => p.n \in Nat
      BY <3>1, PacketFacts
    <3> QED BY <2>2, <2>3, <3>2
  <2> QED BY <2>4
<1>5. Headers - 1 \in 0 .. Headers - 1
  BY HeadersAssumption
<1>6. {p.n : p \in {q \in Got(i) : q.kind = "header"}} # 0 .. Headers - 1
      \/ streams[i].queue # <<>>
  BY <1>4, <1>5
<1>7. ({p.n : p \in {q \in Got(i) : q.kind = "header"}} # 0 .. Headers - 1
       \/ streams[i].queue # <<>>)'
  BY <1>2, <1>6
<1>8. HeadersCut(streams[i])'
  BY <1>7 DEF HeadersCut, Got
<1> QED BY <1>1, <1>2, <1>8 DEF CrashesOnlyIfCut, HasEnd

LEMMA CrashStep ==
  ASSUME StreamsSound, PagesSound', OutputSound, CrashesOnlyIfCut, [Next]_vars
  PROVE  CrashesOnlyIfCut'
<1>0. PagesSound /\ TypeOK
  BY DEF StreamsSound, PagesSound
<1>1. CASE ForceEnd
  BY <1>1, CrashForced DEF CrashesOnlyIfCut
<1>2. CASE Text \/ End
  <2>1. ReadsPacket
    BY <1>0, <1>2, ReadsPacketStep
  <2>2. phase' = "reading"
    BY <1>2, <2>1, TextOutput, EndOutput
  <2> QED BY <2>2 DEF CrashesOnlyIfCut
<1>3. CASE UNCHANGED vars
  BY <1>3 DEF CrashesOnlyIfCut, vars, HasEnd, HeadersCut, TakenIn, PagesOf
<1>4. CASE (\E s \in Serials : BosPage(s) \/ NextPage(s) \/ StrayPage(s) \/ LosePage(s))
           \/ EndOfPage \/ Hole \/ Header \/ WrongHeader \/ Open \/ Ignore \/ Abort
           \/ Silent \/ Bad \/ ClearSet
  <2>1. phase' # "crashed"
    BY <1>4 DEF BosPage, NextPage, StrayPage, LosePage, EndOfPage, Hole, Header, WrongHeader,
                Open, Ignore, Abort, Silent, Bad, ClearSet, Idle, Reads, Ready
  <2> QED BY <2>1 DEF CrashesOnlyIfCut
<1> QED BY <1>1, <1>2, <1>3, <1>4 DEF Next

LEMMA SkipsNothing ==
  ASSUME StreamsSound, GapsAreLosses, OutputSound
  PROVE  NothingSkipped
<1> SUFFICES ASSUME NEW i \in DOMAIN streams, NEW name \in streams[i].fout
             PROVE  /\ EventsOf(files[name]) \cup Texts(Waiting(streams[i]))
                         = Texts(TakenIn(streams[i]))
                    /\ \A p \in EventsOf(files[name]), q \in Texts(Waiting(streams[i])) : p.no < q.no
                    /\ Idle /\ streams[i].queue # <<>> =>
                         ~StartsOnce(streams[i].serial) \/ ~Whole(streams[i].serial)
  BY DEF NothingSkipped
<1>1. QueueSound(streams[i], Got(i)) /\ GapFree(i) /\ i # 0
  BY GapsFree, StreamFacts DEF StreamsSound, PagesSound
<1>2. EventsOf(files[name]) = Texts(Done(i))
  <2>1. FileSound(streams[i], files[name], Done(i))
    BY SoundOutput DEF Fine
  <2> QED BY <2>1 DEF FileSound
<1>3. EventsOf(files[name]) \cup Texts(Waiting(streams[i])) = Texts(Got(i))
  BY <1>1, <1>2 DEF QueueSound, Texts, Done
<1>4. \A p \in EventsOf(files[name]), q \in Texts(Waiting(streams[i])) : p.no < q.no
  BY <1>1, <1>2 DEF QueueSound, Texts, Done
<1>5. Idle /\ streams[i].queue # <<>> =>
        ~StartsOnce(streams[i].serial) \/ ~Whole(streams[i].serial)
  BY <1>1 DEF GapFree, Clean, Idle
<1> QED BY <1>3, <1>4, <1>5 DEF Got

LEMMA DeletesStep ==
  ASSUME PagesSound, OutputSound, [Next]_vars, phase = "closing", phase' = "done",
         NEW i \in DOMAIN streams, NEW name \in streams[i].fout \ {Stdout}
  PROVE  name \notin disk' <=>
           \E p \in TakenIn(streams[i]) \ Waiting(streams[i]) : p.kind = "bad"
<1>1. ClearSet
  <2>1. ~UNCHANGED vars /\ ~(\E s \in Serials : BosPage(s) \/ NextPage(s) \/ StrayPage(s) \/ LosePage(s))
    BY DEF vars, BosPage, NextPage, StrayPage, LosePage, Idle
  <2>2. ~(EndOfPage \/ Hole \/ Header \/ WrongHeader \/ Open \/ Ignore \/ Abort)
    BY DEF EndOfPage, Hole, Header, WrongHeader, Open, Ignore, Abort, Reads, Ready
  <2>3. ~(Text \/ Silent \/ Bad \/ End \/ ForceEnd)
    BY DEF Text, Silent, Bad, End, ForceEnd, Reads, Idle
  <2> QED BY <2>1, <2>2, <2>3 DEF Next
<1> DEFINE spoiled == {j \in DOMAIN streams : Spoiled(streams[j])}
<1>2. PICK gone : gone = UNION {streams[j].fout : j \in spoiled}
  OBVIOUS
<1>3. disk' = disk \ (gone \ {Stdout})
  BY <1>1, <1>2 DEF ClearSet
<1>4. name \in gone <=> \E j \in DOMAIN streams : Spoiled(streams[j]) /\ name \in streams[j].fout
  BY <1>2
<1>5. Apart /\ Fine(i)
  BY SoundOutput
<1>6. name \in gone <=> Spoiled(streams[i])
  BY <1>4, <1>5 DEF Apart
<1>7. name \in disk
  BY <1>5 DEF Fine
<1>8. Spoiled(streams[i]) <=> \E p \in Done(i) : p.kind = "bad"
  BY <1>5 DEF Fine, ProgressSound, Spoiled
<1> QED BY <1>3, <1>6, <1>7, <1>8 DEF Done, Got

LEMMA GapsInit == Init => GapsAreLosses
BY DEF Init, GapsAreLosses

LEMMA PagesHold == Spec => []PagesSound
<1>1. PagesSound /\ [Next]_vars => PagesSound'
  BY PagesStep
<1> QED BY <1>1, PagesInit, PTL DEF Spec

LEMMA StreamsHold == Spec => []StreamsSound
<1>1. StreamsSound /\ PagesSound' /\ [Next]_vars => StreamsSound'
  BY StreamsStep
<1> QED BY <1>1, StreamsInit, PagesHold, PTL DEF Spec

LEMMA OutputHolds == Spec => []OutputSound
<1>1. StreamsSound /\ PagesSound' /\ OutputSound /\ [Next]_vars => OutputSound'
  BY OutputStep
<1> QED BY <1>1, OutputInit, PagesHold, StreamsHold, PTL DEF Spec

(* The files that katedec writes are whole: each holds the events of one     *)
(* stream, once and in order, between its headers and its end; and the       *)
(* program ends well, but for a stream that is cut within its headers.       *)
THEOREM FilesAreWhole == Spec => []FilesWhole
<1>1. StreamsSound /\ PagesSound' /\ OutputSound /\ CrashesOnlyIfCut /\ [Next]_vars
        => CrashesOnlyIfCut'
  BY CrashStep
<1>2. Spec => []CrashesOnlyIfCut
  BY <1>1, CrashInit, PagesHold, StreamsHold, OutputHolds, PTL DEF Spec
<1>3. PagesSound /\ OutputSound /\ CrashesOnlyIfCut => FilesWhole
  BY WholeFiles DEF FilesWhole, PagesSound
<1> QED BY <1>2, <1>3, PagesHold, OutputHolds, PTL

(* Every event of the pages that were taken in is in the file of its stream, *)
(* or in its queue, behind a gap, at the end.                                *)
THEOREM NothingIsSkipped == Spec => []NothingSkipped
<1>1. StreamsSound /\ StreamsSound' /\ GapsAreLosses /\ [Next]_vars => GapsAreLosses'
  BY GapsStep
<1>2. Spec => []GapsAreLosses
  BY <1>1, GapsInit, StreamsHold, PTL DEF Spec
<1>3. StreamsSound /\ GapsAreLosses /\ OutputSound => NothingSkipped
  BY SkipsNothing
<1> QED BY <1>2, <1>3, StreamsHold, OutputHolds, PTL

(* A file is deleted at the end if and only if a packet of its stream could  *)
(* not be decoded.                                                           *)
THEOREM SpoiledAreDeleted == Spec => DeletesSpoiled
<1> DEFINE A == phase = "closing" /\ phase' = "done" =>
                  \A i \in DOMAIN streams : \A name \in streams[i].fout \ {Stdout} :
                    name \notin disk' <=>
                      \E p \in TakenIn(streams[i]) \ Waiting(streams[i]) : p.kind = "bad"
<1>1. PagesSound /\ OutputSound /\ [Next]_vars => A
  BY DeletesStep
<1> HIDE DEF A
<1>2. Spec => [][A]_vars
  BY <1>1, PagesHold, OutputHolds, PTL DEF Spec
<1> QED BY <1>2, PTL DEF DeletesSpoiled, A

-----------------------------------------------------------------------------
(* The times, and what the writers remember from one event to the next.      *)

(* Rounding: twice the error is at most a unit.                              *)
LEMMA ScaledNearest ==
  ASSUME NEW unit \in Nat, NEW t \in Nat
  PROVE  Nearest(Scaled(unit, t), unit, t)
<1>1. PICK r \in Nat \ {0} : r = Rate[1]
  BY RateAssumption
<1>2. PICK p \in Nat : p = unit * t * Rate[2]
  <2>1. PICK q \in Nat : q = Rate[2]
    BY RateAssumption
  <2>2. unit * t \in Nat
    BY SMT
  <2>3. unit * t * q \in Nat
    BY <2>2, SMT
  <2> QED BY <2>1, <2>3
<1>3. PICK h \in Nat : h = r \div 2 /\ 2 * h <= r /\ r <= 2 * h + 1
  BY <1>1, SMT
<1>4. PICK q \in Nat, w \in Nat : q = (p + h) \div r /\ w = r * q /\ w <= p + h /\ p + h < w + r
  <2>1. p + h \in Nat
    BY <1>2, <1>3
  <2>2. PICK x \in Nat : x = p + h
    BY <2>1
  <2>3. /\ x \div r \in Nat /\ x % r \in Nat /\ x % r < r /\ x = r * (x \div r) + (x % r)
    BY <1>1, <2>2, Division
  <2>4. PICK q \in Nat : q = x \div r
    BY <2>3
  <2>5. PICK w \in Nat : w = r * q
    BY <1>1, SMT
  <2>6. PICK m \in Nat : m = x % r
    BY <2>3
  <2>7. w <= x /\ x < w + r
    <3>1. x = w + m /\ m < r
      BY <2>3, <2>4, <2>5, <2>6, Zenon
    <3> QED BY <1>1, <3>1, SMT
  <2>8. q = (p + h) \div r
    BY <2>2, <2>4, Zenon
  <2>9. w = r * q /\ w <= p + h /\ p + h < w + r
    BY <2>2, <2>5, <2>7, Zenon
  <2> QED BY <2>8, <2>9, Zenon
<1>5. Scaled(unit, t) = q
  BY <1>1, <1>2, <1>3, <1>4 DEF Scaled
<1>6. 2 * (w - p) \in -r .. r
  BY <1>1, <1>2, <1>3, <1>4, SMT
<1>7. q * r = w
  BY <1>1, <1>4, SMT
<1> QED BY <1>1, <1>2, <1>5, <1>6, <1>7 DEF Nearest

LEMMA SrtBack ==
  ASSUME NEW x \in Nat
  PROVE  3600000 * (x \div 3600000) + 60000 * ((x \div 60000) % 60)
           + 1000 * ((x \div 1000) % 60) + (x % 1000) = x
BY SMT

LEMMA LrcBack ==
  ASSUME NEW x \in Nat
  PROVE  6000 * (x \div 6000) + 100 * ((x \div 100) % 60) + (x % 100) = x
BY SMT

LEMMA TimesBack ==
  ASSUME NEW t \in Nat
  PROVE  /\ Nearest(SrtRead(SrtTime(t)), 1000, t)
         /\ Nearest(LrcRead(LrcTime(t)), 100, t)
<1>1. SrtRead(SrtTime(t)) = Scaled(1000, t)
  <2>1. PICK ms \in Nat : ms = Scaled(1000, t)
    BY ScaledNat, SMT
  <2>2. SrtTime(t) = <<ms \div 3600000, (ms \div 60000) % 60, (ms \div 1000) % 60, ms % 1000>>
    BY <2>1, SMT DEF SrtTime
  <2>3. SrtRead(SrtTime(t)) = 3600000 * (ms \div 3600000) + 60000 * ((ms \div 60000) % 60)
                              + 1000 * ((ms \div 1000) % 60) + (ms % 1000)
    BY <2>2, SMT DEF SrtRead
  <2>4. 3600000 * (ms \div 3600000) + 60000 * ((ms \div 60000) % 60)
          + 1000 * ((ms \div 1000) % 60) + (ms % 1000) = ms
    BY SrtBack, SMT
  <2> QED BY <2>1, <2>3, <2>4, SMT
<1>2. LrcRead(LrcTime(t)) = Scaled(100, t)
  <2>1. PICK cs \in Nat : cs = Scaled(100, t)
    BY ScaledNat, SMT
  <2>2. LrcTime(t) = <<cs \div 6000, (cs \div 100) % 60, cs % 100>>
    BY <2>1, SMT DEF LrcTime
  <2>3. LrcRead(LrcTime(t)) = 6000 * (cs \div 6000) + 100 * ((cs \div 100) % 60) + (cs % 100)
    BY <2>2, SMT DEF LrcRead
  <2> QED BY <2>1, <2>3, LrcBack, SMT
<1>3. Nearest(Scaled(1000, t), 1000, t) /\ Nearest(Scaled(100, t), 100, t)
  BY ScaledNearest, SMT
<1> QED BY <1>1, <1>2, <1>3, SMT

(* No stream that starts twice ever did not.                                 *)
OnceBefore == \A r \in Serials : StartsOnce(r)' => StartsOnce(r)

LEMMA StartsStep ==
  ASSUME PagesSound, [Next]_vars
  PROVE  OnceBefore /\ given' = given /\ format' = format
<1>1. ASSUME given' = given, next' = next, lost' = lost
      PROVE  OnceBefore
  BY <1>1 DEF OnceBefore, StartsOnce, PagesOf
<1>2. ASSUME NEW s \in Serials, HasPage(s), given' = given, next' = [next EXCEPT ![s] = @ + 1],
             lost' = lost \/ lost' = lost \cup {<<s, next[s]>>}
      PROVE  OnceBefore
  <2>1. \A r \in Serials : PagesOf(r) \subseteq PagesOf(r)'
    <3>1. /\ lost' = lost => /\ PagesOf(s)' = PagesOf(s) \cup {next[s]}
                             /\ \A r \in Serials : r # s => PagesOf(r)' = PagesOf(r)
          /\ lost' = lost \cup {<<s, next[s]>>} =>
               \A r \in Serials : PagesOf(r)' = PagesOf(r)
      BY <1>2, PagesGrow
    <3> TAKE r \in Serials
    <3>2. CASE r = s
      BY <1>2, <3>1, <3>2
    <3>3. CASE r # s
      BY <1>2, <3>1, <3>3
    <3> QED BY <3>2, <3>3
  <2>2. ASSUME NEW r \in Serials, ~StartsOnce(r) PROVE (~StartsOnce(r))'
    BY <1>2, <2>1, <2>2, StartsTwice
  <2> QED BY <2>2 DEF OnceBefore
<1>3. CASE \E s \in Serials : BosPage(s) \/ NextPage(s) \/ StrayPage(s) \/ LosePage(s)
  <2>1. PICK s \in Serials : BosPage(s) \/ NextPage(s) \/ StrayPage(s) \/ LosePage(s)
    BY <1>3
  <2>2. /\ HasPage(s) /\ given' = given /\ format' = format
        /\ next' = [next EXCEPT ![s] = @ + 1]
        /\ lost' = lost \/ lost' = lost \cup {<<s, next[s]>>}
    BY <2>1 DEF BosPage, NextPage, StrayPage, LosePage, Options
  <2> QED BY <1>2, <2>2
<1>4. CASE EndOfPage \/ Hole \/ Header \/ WrongHeader \/ Open \/ Ignore \/ Abort
  BY <1>1, <1>4 DEF EndOfPage, Hole, Header, WrongHeader, Open, Ignore, Abort, Options
<1>5. CASE Text \/ Silent \/ Bad \/ End \/ ForceEnd \/ ClearSet \/ UNCHANGED vars
  BY <1>1, <1>5 DEF Text, Silent, Bad, End, ForceEnd, ClearSet, vars, Options
<1> QED BY <1>3, <1>4, <1>5 DEF Next

(* A file whose times are right.                                             *)
SrtAt(f, n) ==
  LET e == f[n].event IN
  /\ f[n].what = "event"
  /\ StartsOnce(e.serial) => f[n].number = n
  /\ Nearest(SrtRead(f[n].times[1]), 1000, e.at)
  /\ Nearest(SrtRead(f[n].times[2]), 1000, e.at + e.for)
LrcAt(f, n) ==
  LET e == f[n].event IN
  /\ n < Len(f) /\ f[n + 1].what = "stamp" /\ ReadsAs(f[n + 1], EndOf(e))
  /\ \E m \in DOMAIN f :
       /\ StampedAt(f, n, m)
       /\ \/ ReadsAs(f[m], e.at)
          \/ \E k \in Events(f) : /\ k < n /\ EndOf(f[k].event) >= e.at
                                  /\ ReadsAs(f[m], EndOf(f[k].event))
Timed(f) ==
  /\ format = "srt" => \A n \in DOMAIN f : SrtAt(f, n)
  /\ format = "lrc" => \A n \in Events(f) : LrcAt(f, n)

Remembers(i) ==
  phase = "reading" =>
    /\ streams[i].fout = {} => Fresh(streams[i], Got(i))
    /\ \A name \in streams[i].fout : DataSound(streams[i], files[name])

LEMMA SoundWriters ==
  WritersSound <=> /\ \A i \in DOMAIN streams : Remembers(i)
                   /\ \A name \in DOMAIN files : Timed(files[name])
<1>1. TimesRight /\ (format = "srt" => \A name \in DOMAIN files : \A n \in DOMAIN files[name] :
                       files[name][n].what = "event")
       <=> \A name \in DOMAIN files : Timed(files[name])
  BY DEF TimesRight, SrtRight, LrcRight, Timed, SrtAt, LrcAt
<1> QED BY <1>1 DEF WritersSound, Remembers

LEMMA WritersNext ==
  ASSUME \A i \in DOMAIN streams' : Remembers(i)',
         \A name \in DOMAIN files' : Timed(files[name])'
  PROVE  WritersSound'
<1>1. (TimesRight /\ (format = "srt" => \A name \in DOMAIN files : \A n \in DOMAIN files[name] :
                        files[name][n].what = "event"))'
  BY DEF TimesRight, SrtRight, LrcRight, Timed, SrtAt, LrcAt
<1> QED BY <1>1 DEF WritersSound, Remembers

LEMMA TimedStays ==
  ASSUME OnceBefore, format' = format, NEW f \in Seq(Entries), Timed(f)
  PROVE  Timed(f)'
<1>1. ASSUME format = "srt", NEW n \in DOMAIN f
      PROVE  SrtAt(f, n)'
  <2>1. SrtAt(f, n) /\ f[n].what = "event"
    BY <1>1 DEF Timed, SrtAt
  <2>2. f[n].event.serial \in Serials
    <3>1. f[n] \in Entries
      BY <1>1
    <3>2. f[n].event \in Packets
      BY <2>1, <3>1 DEF Entries
    <3> QED BY <3>2 DEF Packets
  <2>3. (StartsOnce(f[n].event.serial) => f[n].number = n)'
    BY <2>1, <2>2 DEF SrtAt, OnceBefore
  <2> QED BY <2>1, <2>3 DEF SrtAt
<1>2. ASSUME format = "lrc", NEW n \in Events(f)
      PROVE  LrcAt(f, n)'
  BY <1>2 DEF Timed
<1> QED BY <1>1, <1>2 DEF Timed

(* What is added to a file leaves what it says of its events.                *)
LEMMA LrcMore ==
  ASSUME NEW f \in Seq(Entries), NEW w \in Seq(Entries), NEW n \in Events(f), LrcAt(f, n)
  PROVE  LrcAt(f \o w, n)
<1>1. PICK h : h = f \o w
  OBVIOUS
<1>2. /\ Len(h) = Len(f) + Len(w) /\ DOMAIN f = 1 .. Len(f)
      /\ Len(f) \in Nat /\ Len(w) \in Nat
      /\ \A k \in DOMAIN f : k \in DOMAIN h /\ h[k] = f[k]
  BY <1>1, ConcatFacts
<1>3. n \in DOMAIN f /\ n < Len(f) /\ n + 1 \in DOMAIN f /\ h[n] = f[n] /\ h[n + 1] = f[n + 1]
  BY <1>2 DEF Events, LrcAt
<1>4. PICK m \in DOMAIN f :
        /\ StampedAt(f, n, m)
        /\ \/ ReadsAs(f[m], f[n].event.at)
           \/ \E k \in Events(f) : /\ k < n /\ EndOf(f[k].event) >= f[n].event.at
                                   /\ ReadsAs(f[m], EndOf(f[k].event))
  BY DEF LrcAt
<1>5. StampedAt(h, n, m)
  <2>1. m \in 1 .. n - 1 /\ f[m].what = "stamp" /\ \A k \in m + 1 .. n - 1 : f[k].what # "stamp"
    BY <1>4 DEF StampedAt
  <2>2. \A k \in m + 1 .. n - 1 : k \in DOMAIN f
    BY <1>2, <1>3, <2>1
  <2> QED BY <1>2, <2>1, <2>2 DEF StampedAt
<1>6. \/ ReadsAs(h[m], h[n].event.at)
      \/ \E k \in Events(h) : /\ k < n /\ EndOf(h[k].event) >= h[n].event.at
                              /\ ReadsAs(h[m], EndOf(h[k].event))
  <2>1. CASE ReadsAs(f[m], f[n].event.at)
    BY <1>2, <1>3, <2>1
  <2>2. CASE \E k \in Events(f) : /\ k < n /\ EndOf(f[k].event) >= f[n].event.at
                                  /\ ReadsAs(f[m], EndOf(f[k].event))
    <3>1. PICK k \in Events(f) : /\ k < n /\ EndOf(f[k].event) >= f[n].event.at
                                 /\ ReadsAs(f[m], EndOf(f[k].event))
      BY <2>2
    <3>2. k \in Events(h) /\ h[k] = f[k]
      BY <1>2 DEF Events
    <3> QED BY <1>2, <1>3, <3>1, <3>2
  <2> QED BY <1>4, <2>1, <2>2
<1>7. n < Len(h) /\ h[n + 1].what = "stamp" /\ ReadsAs(h[n + 1], EndOf(h[n].event))
  BY <1>2, <1>3 DEF LrcAt
<1>8. m \in DOMAIN h
  BY <1>2
<1>9. LrcAt(h, n)
  BY <1>5, <1>6, <1>7, <1>8 DEF LrcAt
<1> QED BY <1>1, <1>9

(* An end is no event, and no stamp.                                         *)
LEMMA EndTimed ==
  ASSUME NEW f \in Seq(Entries), Timed(f), HasEnd, NEW w, w = << [what |-> "end"] >>
  PROVE  Timed(f \o w)
<1>1. [what |-> "end"] \in Entries
  BY DEF Entries
<1>2. w \in Seq(Entries) /\ Len(w) = 1 /\ w[1].what = "end" /\ DOMAIN w = {1}
  BY <1>1
<1>3. PICK h : h = f \o w
  OBVIOUS
<1>4. /\ DOMAIN f = 1 .. Len(f) /\ Len(f) \in Nat
      /\ \A k \in DOMAIN f : k \in DOMAIN h /\ h[k] = f[k]
      /\ \A k \in DOMAIN h : k \in DOMAIN f \/ (k - Len(f) \in DOMAIN w /\ h[k] = w[k - Len(f)])
  BY <1>2, <1>3, ConcatFacts
<1>5. Events(h) \subseteq Events(f)
  BY <1>2, <1>4 DEF Events
<1>6. ASSUME format = "lrc", NEW n \in Events(h) PROVE LrcAt(h, n)
  <2>1. n \in Events(f) /\ LrcAt(f, n)
    BY <1>5, <1>6 DEF Timed
  <2> QED BY <1>2, <1>3, <2>1, LrcMore
<1>7. format # "srt"
  BY DEF HasEnd
<1> QED BY <1>3, <1>6, <1>7 DEF Timed

(* What is written of an event is right, if what is remembered is.           *)
LEMMA SrtText ==
  ASSUME NEW f \in Seq(Entries), Timed(f), format = "srt", NEW data \in Int,
         NEW e \in Packets, e.kind = "text", StartsOnce(e.serial) => data = Len(f)
  PROVE  /\ Timed(f \o Printed(data, e))
         /\ StartsOnce(e.serial) => DataAfter(data, e) = Len(f \o Printed(data, e))
<1>1. PICK x : x = [what |-> "event", event |-> e, number |-> data + 1,
                    times |-> <<SrtTime(e.at), SrtTime(e.at + e.for)>>]
  OBVIOUS
<1>2. PICK w : w = Printed(data, e)
  OBVIOUS
<1>3. w = <<x>> /\ w \in Seq(Entries)
  BY <1>1, <1>2, PrintedFacts DEF Printed
<1>4. Len(w) = 1 /\ DOMAIN w = {1} /\ w[1] = x
  BY <1>3
<1>5. PICK h : h = f \o w
  OBVIOUS
<1>6. /\ DOMAIN f = 1 .. Len(f) /\ Len(f) \in Nat /\ Len(h) = Len(f) + Len(w)
      /\ \A k \in DOMAIN f : k \in DOMAIN h /\ h[k] = f[k]
      /\ \A k \in DOMAIN h : k \in DOMAIN f \/ (k - Len(f) \in DOMAIN w /\ h[k] = w[k - Len(f)])
      /\ DOMAIN h = 1 .. Len(f) + Len(w)
  BY <1>3, <1>5, ConcatFacts
<1>7. e.at \in Nat /\ e.at + e.for \in Nat
  <2>1. e.at \in Nat /\ e.for \in Nat
    BY PacketFacts
  <2> QED BY <2>1
<1>8. ASSUME NEW n \in DOMAIN h PROVE SrtAt(h, n)
  <2>1. CASE n \in DOMAIN f
    <3>1. SrtAt(f, n) /\ h[n] = f[n]
      BY <1>6, <2>1 DEF Timed
    <3> QED BY <3>1 DEF SrtAt
  <2>2. CASE n \notin DOMAIN f
    <3>1. h[n] = x /\ n = Len(f) + 1
      <4>1. n - Len(f) \in DOMAIN w /\ h[n] = w[n - Len(f)]
        BY <1>6, <2>2
      <4>2. n - Len(f) = 1
        BY <1>4, <4>1, Zenon
      <4>3. n \in Nat
        <5>1. PICK l \in Nat : l = Len(f) /\ DOMAIN h = 1 .. l + 1
          BY <1>4, <1>6, Zenon
        <5> QED BY <1>8, <5>1, SMT
      <4>4. h[n] = x
        BY <1>4, <4>1, <4>2, Zenon
      <4>5. PICK l \in Nat : l = Len(f)
        BY <1>6
      <4>6. n = l + 1
        BY <4>2, <4>3, <4>5, SMT
      <4> QED BY <4>4, <4>5, <4>6, Zenon
    <3>2. /\ x.what = "event" /\ x.event = e /\ x.number = data + 1
          /\ x.times[1] = SrtTime(e.at) /\ x.times[2] = SrtTime(e.at + e.for)
      BY <1>1
    <3>3. /\ Nearest(SrtRead(SrtTime(e.at)), 1000, e.at)
          /\ Nearest(SrtRead(SrtTime(e.at + e.for)), 1000, e.at + e.for)
      BY <1>7, TimesBack
    <3>4. StartsOnce(e.serial) => data + 1 = n
      BY <3>1
    <3> QED BY <3>1, <3>2, <3>3, <3>4 DEF SrtAt
  <2> QED BY <2>1, <2>2
<1>9. DataAfter(data, e) = data + 1
  BY DEF DataAfter
<1> QED BY <1>2, <1>4, <1>5, <1>6, <1>8, <1>9 DEF Timed

(* The entries of a lyric: the first of two or three is a stamp, if need be. *)
LEMMA LyricEntries ==
  ASSUME NEW data \in Int, NEW e \in Packets, e.kind = "text", format = "lrc",
         NEW w, w = Printed(data, e)
  PROVE  /\ w \in Seq(Entries)
         /\ \E m \in {0, 1} :
              /\ Len(w) = m + 2 /\ DOMAIN w = 1 .. m + 2 /\ (m = 1 <=> NeedsStamp(data, e))
              /\ m = 1 => w[1] = Stamp(LrcTime(e.at))
              /\ w[m + 1] = Lyric(e) /\ w[m + 2] = Stamp(LrcTime(EndOf(e)))
<1> DEFINE a == Stamp(LrcTime(e.at))
           b == Lyric(e)
           c == Stamp(LrcTime(EndOf(e)))
<1>1. w \in Seq(Entries)
  BY PrintedFacts
<1>2. w = (IF NeedsStamp(data, e) THEN <<a>> ELSE <<>>) \o <<b, c>>
  BY DEF Printed, EndOf
<1> HIDE DEF a, b, c
<1>3. CASE NeedsStamp(data, e)
  <2>1. w = <<a>> \o <<b, c>>
    BY <1>2, <1>3
  <2>2. PICK S : a \in S /\ b \in S /\ c \in S
    <3>1. a \in {a, b, c} /\ b \in {a, b, c} /\ c \in {a, b, c}
      OBVIOUS
    <3> QED BY <3>1
  <2>3. Len(w) = 3 /\ DOMAIN w = 1 .. 3 /\ w[1] = a /\ w[2] = b /\ w[3] = c
    <3>1. PICK u \in Seq(S), v \in Seq(S) :
            /\ u = <<a>> /\ v = <<b, c>> /\ Len(u) = 1 /\ Len(v) = 2
            /\ DOMAIN u = {1} /\ DOMAIN v = {1, 2}
            /\ u[1] = a /\ v[1] = b /\ v[2] = c
      <4>1. <<a>> \in Seq(S) /\ <<b, c>> \in Seq(S)
        BY <2>2
      <4>2. /\ Len(<<a>>) = 1 /\ Len(<<b, c>>) = 2
            /\ DOMAIN <<a>> = {1} /\ DOMAIN <<b, c>> = {1, 2}
            /\ <<a>>[1] = a /\ <<b, c>>[1] = b /\ <<b, c>>[2] = c
        OBVIOUS
      <4> QED BY <4>1, <4>2, Zenon
    <3>2. /\ Len(w) = 3 /\ DOMAIN w = 1 .. 3
          /\ \A k \in DOMAIN u : w[k] = u[k]
          /\ \A k \in DOMAIN v : w[1 + k] = v[k]
      BY <2>1, <3>1, ConcatFacts
    <3>3. w[1] = a /\ w[1 + 1] = b /\ w[1 + 2] = c
      BY <3>1, <3>2
    <3> QED BY <3>2, <3>3
  <2>4. Len(w) = 1 + 2 /\ DOMAIN w = 1 .. 1 + 2 /\ w[1] = a /\ w[1 + 1] = b /\ w[1 + 2] = c
    BY <2>3
  <2>5. /\ Len(w) = 1 + 2 /\ DOMAIN w = 1 .. 1 + 2 /\ (1 = 1 <=> NeedsStamp(data, e))
        /\ 1 = 1 => w[1] = Stamp(LrcTime(e.at))
        /\ w[1 + 1] = Lyric(e) /\ w[1 + 2] = Stamp(LrcTime(EndOf(e)))
    BY <1>3, <2>4 DEF a, b, c
  <2>6. 1 \in {0, 1}
    OBVIOUS
  <2> QED BY <1>1, <2>5, <2>6, Zenon
<1>4. CASE ~NeedsStamp(data, e)
  <2>1. w = <<>> \o <<b, c>>
    BY <1>2, <1>4
  <2>2. w = <<b, c>>
    BY <2>1
  <2>3. Len(w) = 2 /\ DOMAIN w = 1 .. 2 /\ w[1] = b /\ w[2] = c
    BY <2>2
  <2>4. Len(w) = 0 + 2 /\ DOMAIN w = 1 .. 0 + 2 /\ w[0 + 1] = b /\ w[0 + 2] = c /\ 0 # 1
    BY <2>3
  <2>5. /\ Len(w) = 0 + 2 /\ DOMAIN w = 1 .. 0 + 2 /\ (0 = 1 <=> NeedsStamp(data, e))
        /\ 0 = 1 => w[1] = Stamp(LrcTime(e.at))
        /\ w[0 + 1] = Lyric(e) /\ w[0 + 2] = Stamp(LrcTime(EndOf(e)))
    BY <1>4, <2>4 DEF b, c
  <2>6. 0 \in {0, 1}
    OBVIOUS
  <2> QED BY <1>1, <2>5, <2>6, Zenon
<1> QED BY <1>3, <1>4

Remembered(f, data) ==
  \/ data = -1
  \/ \E k \in Events(f), m \in DOMAIN f :
       /\ data = EndOf(f[k].event)
       /\ StampedAt(f, Len(f) + 1, m) /\ f[m] = Stamp(LrcTime(data))

LEMMA LrcText ==
  ASSUME NEW f \in Seq(Entries), Timed(f), format = "lrc", NEW data \in Int, Remembered(f, data),
         NEW e \in Packets, e.kind = "text"
  PROVE  /\ Timed(f \o Printed(data, e))
         /\ Remembered(f \o Printed(data, e), DataAfter(data, e))
<1>1. PICK w : w = Printed(data, e)
  OBVIOUS
<1>2. PICK o \in {0, 1} :
        /\ Len(w) = o + 2 /\ DOMAIN w = 1 .. o + 2 /\ (o = 1 <=> NeedsStamp(data, e))
        /\ o = 1 => w[1] = Stamp(LrcTime(e.at))
        /\ w[o + 1] = Lyric(e) /\ w[o + 2] = Stamp(LrcTime(EndOf(e)))
  BY <1>1, LyricEntries
<1>3. w \in Seq(Entries)
  BY <1>1, LyricEntries
<1>4. PICK l \in Nat : l = Len(f)
  OBVIOUS
<1>5. PICK h : h = f \o w
  OBVIOUS
<1>6. /\ DOMAIN f = 1 .. l /\ Len(h) = l + (o + 2) /\ DOMAIN h = 1 .. l + (o + 2)
      /\ h \in Seq(Entries)
      /\ \A k \in DOMAIN f : k \in DOMAIN h /\ h[k] = f[k]
      /\ \A k \in DOMAIN w : l + k \in DOMAIN h /\ h[l + k] = w[k]
      /\ \A k \in DOMAIN h : k \in DOMAIN f \/ (k - l \in DOMAIN w /\ h[k] = w[k - l])
  <2>1. /\ DOMAIN f = 1 .. Len(f) /\ Len(h) = Len(f) + Len(w) /\ DOMAIN h = 1 .. Len(f) + Len(w)
        /\ h \in Seq(Entries)
        /\ \A k \in DOMAIN f : k \in DOMAIN h /\ h[k] = f[k]
        /\ \A k \in DOMAIN w : Len(f) + k \in DOMAIN h /\ h[Len(f) + k] = w[k]
        /\ \A k \in DOMAIN h :
             k \in DOMAIN f \/ (k - Len(f) \in DOMAIN w /\ h[k] = w[k - Len(f)])
    BY <1>3, <1>5, ConcatFacts
  <2>2. Len(w) = o + 2
    BY <1>2
  <2> QED BY <1>4, <2>1, <2>2, Zenon
<1>7. e.at \in Nat /\ EndOf(e) \in Nat
  <2>1. e.at \in Nat /\ e.for \in Nat
    BY PacketFacts
  <2> QED BY <2>1 DEF EndOf
<1>8. /\ o + 1 \in DOMAIN w /\ o + 2 \in DOMAIN w /\ (o = 1 => 1 \in DOMAIN w)
  BY <1>2
<1>9. PICK n \in Nat : n = l + (o + 1)
  BY <1>2, <1>4
<1>10. /\ h[n] = Lyric(e) /\ n \in DOMAIN h /\ n + 1 \in DOMAIN h /\ n + 1 = Len(h)
       /\ h[n + 1] = Stamp(LrcTime(EndOf(e)))
       /\ o = 1 => l + 1 \in DOMAIN h /\ h[l + 1] = Stamp(LrcTime(e.at))
  <2>1. h[l + (o + 1)] = Lyric(e) /\ l + (o + 1) \in DOMAIN h
    BY <1>2, <1>6, <1>8
  <2>2. h[l + (o + 2)] = Stamp(LrcTime(EndOf(e))) /\ l + (o + 2) \in DOMAIN h
    BY <1>2, <1>6, <1>8
  <2>3. l + (o + 2) = n + 1
    BY <1>2, <1>4, <1>9
  <2>4. o = 1 => l + 1 \in DOMAIN h /\ h[l + 1] = Stamp(LrcTime(e.at))
    BY <1>2, <1>6, <1>8
  <2> QED BY <1>6, <1>9, <2>1, <2>2, <2>3, <2>4
<1>11. /\ ReadsAs(Stamp(LrcTime(e.at)), e.at)
       /\ ReadsAs(Stamp(LrcTime(EndOf(e))), EndOf(e))
  BY <1>7, TimesBack DEF ReadsAs, Stamp
<1>12. /\ Lyric(e).what = "event" /\ Lyric(e).event = e
       /\ \A t : Stamp(t).what = "stamp"
  BY DEF Lyric, Stamp
<1>13. \E m \in DOMAIN h :
         /\ StampedAt(h, n, m)
         /\ \/ ReadsAs(h[m], e.at)
            \/ \E k \in Events(h) : /\ k < n /\ EndOf(h[k].event) >= e.at
                                    /\ ReadsAs(h[m], EndOf(h[k].event))
  <2>1. CASE o = 1
    <3>1. l + 1 \in 1 .. n - 1 /\ \A k : k \notin (l + 1) + 1 .. n - 1
      BY <1>4, <1>9, <2>1
    <3>2. StampedAt(h, n, l + 1)
      BY <1>10, <1>12, <2>1, <3>1 DEF StampedAt
    <3> QED BY <1>10, <1>11, <2>1, <3>2
  <2>2. CASE o # 1
    <3>1. ~NeedsStamp(data, e)
      BY <1>2, <2>2
    <3>2. data >= 0 /\ data >= e.at
      BY <1>7, <3>1 DEF NeedsStamp
    <3>3. PICK k \in Events(f), m \in DOMAIN f :
            /\ data = EndOf(f[k].event)
            /\ StampedAt(f, Len(f) + 1, m) /\ f[m] = Stamp(LrcTime(data))
      BY <3>2 DEF Remembered
    <3>4. n = l + 1 /\ k \in Nat /\ k < n /\ k \in Events(h) /\ h[k] = f[k]
      <4>1. o = 0
        BY <1>2, <2>2
      <4>2. k \in DOMAIN f
        BY DEF Events
      <4> QED BY <1>4, <1>6, <1>9, <4>1, <4>2 DEF Events
    <3>5. StampedAt(h, n, m)
      <4>1. m \in 1 .. n - 1 /\ f[m].what = "stamp" /\ \A j \in m + 1 .. n - 1 : f[j].what # "stamp"
        BY <1>4, <3>3, <3>4 DEF StampedAt
      <4>2. \A j \in m + 1 .. n - 1 : j \in DOMAIN f
        BY <1>4, <1>6, <3>4, <4>1
      <4> QED BY <1>6, <4>1, <4>2 DEF StampedAt
    <3>6. ReadsAs(Stamp(LrcTime(data)), data)
      <4>1. data \in Nat
        BY <3>2
      <4> QED BY <4>1, TimesBack DEF ReadsAs, Stamp
    <3>7. h[m] = f[m] /\ m \in DOMAIN h
      BY <1>6
    <3>8. EndOf(h[k].event) >= e.at /\ ReadsAs(h[m], EndOf(h[k].event))
      BY <3>2, <3>3, <3>4, <3>6, <3>7
    <3> QED BY <3>4, <3>5, <3>7, <3>8
  <2> QED BY <2>1, <2>2
<1>14. LrcAt(h, n)
  <2>1. n < Len(h)
    BY <1>6, <1>9, <1>10
  <2> QED BY <1>10, <1>11, <1>12, <1>13, <2>1 DEF LrcAt
<1>15. ASSUME NEW k \in Events(h) PROVE k = n \/ k \in Events(f)
  <2>1. k \in DOMAIN h /\ h[k].what = "event"
    BY DEF Events
  <2>2. CASE k \in DOMAIN f
    BY <1>6, <2>1, <2>2 DEF Events
  <2>3. CASE k \notin DOMAIN f
    <3>1. k \in l + 1 .. l + (o + 2)
      BY <1>2, <1>4, <1>6, <2>1, <2>3
    <3>2. k = n \/ k = n + 1 \/ (o = 1 /\ k = l + 1)
      BY <1>2, <1>4, <1>9, <3>1
    <3> QED BY <1>10, <1>12, <2>1, <3>2
  <2> QED BY <2>2, <2>3
<1>16. Timed(h)
  <2>1. ASSUME NEW k \in Events(h) PROVE LrcAt(h, k)
    <3>1. CASE k \in Events(f)
      <4>1. LrcAt(f, k)
        BY <3>1 DEF Timed
      <4> QED BY <1>3, <1>5, <3>1, <4>1, LrcMore
    <3> QED BY <1>14, <1>15, <2>1, <3>1
  <2> QED BY <2>1 DEF Timed
<1>17. Remembered(h, DataAfter(data, e))
  <2>1. DataAfter(data, e) = EndOf(e)
    BY DEF DataAfter, EndOf
  <2>2. n \in Events(h) /\ h[n].event = e
    BY <1>10, <1>12 DEF Events
  <2>3. StampedAt(h, Len(h) + 1, n + 1)
    <3>1. n + 1 \in 1 .. (Len(h) + 1) - 1 /\ \A k : k \notin (n + 1) + 1 .. (Len(h) + 1) - 1
      BY <1>9, <1>10
    <3> QED BY <1>10, <1>12, <3>1 DEF StampedAt
  <2> QED BY <1>10, <2>1, <2>2, <2>3 DEF Remembered
<1> QED BY <1>1, <1>5, <1>16, <1>17

LEMMA DataParts ==
  ASSUME NEW ks, NEW f
  PROVE  DataSound(ks, f) <=>
           /\ format = "srt" /\ StartsOnce(ks.serial) => ks.data = Len(f)
           /\ format = "lrc" => Remembered(f, ks.data)
BY DEF DataSound, Remembered

(* A stream whose file is as it was, and so is what is remembered of it.     *)
LEMMA RememberKept ==
  ASSUME OnceBefore, format' = format, phase' = phase \/ phase' # "reading",
         NEW j, NEW k, Remembers(k), streams[k].serial \in Serials,
         streams'[j].serial = streams[k].serial, streams'[j].data = streams[k].data,
         streams'[j].probe = streams[k].probe, streams'[j].fout = streams[k].fout,
         Got(j)' = Got(k),
         \A name \in streams[k].fout : files'[name] = files[name]
  PROVE  Remembers(j)'
<1>1. SUFFICES ASSUME phase = "reading", phase' = "reading"
      PROVE  /\ (streams[j].fout = {} => Fresh(streams[j], Got(j)))'
             /\ \A name \in streams'[j].fout : DataSound(streams[j], files[name])'
  BY DEF Remembers
<1>2. (streams[j].fout = {} => Fresh(streams[j], Got(j)))'
  <2>1. streams[k].fout = {} => Fresh(streams[k], Got(k))
    BY <1>1 DEF Remembers
  <2> QED BY <2>1 DEF Fresh, NewData
<1>3. ASSUME NEW name \in streams'[j].fout
      PROVE  DataSound(streams[j], files[name])'
  <2>1. DataSound(streams[k], files[name]) /\ files'[name] = files[name]
    BY <1>1, <1>3 DEF Remembers
  <2>2. (StartsOnce(streams[j].serial))' => StartsOnce(streams[k].serial)
    <3>1. PICK r \in Serials : r = streams[k].serial
      OBVIOUS
    <3>2. (StartsOnce(streams[j].serial))' <=> StartsOnce(r)'
      BY <3>1 DEF StartsOnce, PagesOf
    <3> QED BY <3>1, <3>2 DEF OnceBefore
  <2>3. (format = "srt" /\ StartsOnce(streams[j].serial) => streams[j].data = Len(files[name]))'
    BY <2>1, <2>2 DEF DataSound
  <2>4. format = "lrc" => Remembered(files[name], streams[k].data)
    BY <2>1, DataParts
  <2>5. (format = "lrc" => Remembered(files[name], streams[j].data))'
    BY <2>1, <2>4
  <2> QED BY <2>3, <2>5 DEF DataSound, Remembered
<1> QED BY <1>2, <1>3

LEMMA RememberNew ==
  ASSUME NEW j, streams'[j].fout = {}, streams'[j].probe = 0, Got(j)' = {}
  PROVE  Remembers(j)'
BY DEF Remembers, Fresh

LEMMA FilesStay ==
  ASSUME OnceBefore, format' = format, files' = files, FilesSound,
         \A name \in DOMAIN files : Timed(files[name])
  PROVE  \A name \in DOMAIN files' : Timed(files[name])'
<1> TAKE name \in DOMAIN files'
<1>1. PICK f : f = files[name]
  OBVIOUS
<1>2. f \in Seq(Entries) /\ Timed(f)
  BY <1>1 DEF FilesSound
<1>3. Timed(f)'
  BY <1>2, TimedStays
<1>4. files'[name] = f
  BY <1>1
<1> QED BY <1>3, <1>4

LEMMA WritersTake ==
  ASSUME StreamsSound, PagesSound', OutputSound, WritersSound, OnceBefore,
         NEW s \in Serials, NEW i \in Nat, TakesPage(s, i)
  PROVE  WritersSound'
<1>0. /\ PagesSound /\ FilesSound /\ \A j \in DOMAIN streams : Remembers(j)
      /\ \A name \in DOMAIN files : Timed(files[name])
      /\ format' = format /\ files' = files /\ phase' = phase /\ given' = given /\ lost' = lost
      /\ HasPage(s) /\ next' = [next EXCEPT ![s] = @ + 1]
  BY SoundOutput, SoundWriters DEF StreamsSound, TakesPage, Options
<1>1. /\ \A j \in DOMAIN streams : j # i => Got(j)' = Got(j) /\ streams'[j] = streams[j]
      /\ \A j \in DOMAIN streams' : j = i \/ j \in DOMAIN streams \/
           (streams'[j] = NewStream(s) /\ Got(j)' = {})
  BY StreamsTakes
<1>2. /\ Got(i)' = Before(i) \cup ToSet(Page(s).packets)
      /\ streams'[i].serial = s /\ OldStream(s, i).serial = s
      /\ streams'[i].probe = OldStream(s, i).probe
      /\ streams'[i].fout = OldStream(s, i).fout
      /\ i \notin DOMAIN streams => OldStream(s, i) = NewStream(s)
      /\ i \in DOMAIN streams => OldStream(s, i) = streams[i]
      /\ streams'[i].data = IF Page(s).bos THEN NewData ELSE OldStream(s, i).data
      /\ i \in DOMAIN streams \/ Page(s).bos
  <2>1. /\ OldStream(s, i).serial = s
        /\ streams'[i].data = IF Page(s).bos THEN NewData ELSE OldStream(s, i).data
        /\ i \in DOMAIN streams \/ Page(s).bos
    BY DEF TakesPage
  <2> QED BY <1>0, <2>1, PageTaken
<1>3. ASSUME NEW j \in DOMAIN streams', j # i PROVE Remembers(j)'
  <2>1. CASE j \in DOMAIN streams
    <3>1. streams'[j] = streams[j] /\ Got(j)' = Got(j) /\ Remembers(j)
      BY <1>0, <1>1, <1>3, <2>1
    <3>2. streams[j].serial \in Serials
      BY <1>0, <2>1, StreamFacts DEF PagesSound, Streams
    <3> QED BY <1>0, <3>1, <3>2, RememberKept
  <2>2. CASE j \notin DOMAIN streams
    <3>1. streams'[j] = NewStream(s) /\ Got(j)' = {}
      BY <1>1, <1>3, <2>2
    <3>2. NewStream(s).fout = {} /\ NewStream(s).probe = 0
      BY DEF NewStream
    <3> QED BY <3>1, <3>2, RememberNew
  <2> QED BY <2>1, <2>2
<1>4. NewData' = NewData
  BY <1>0 DEF NewData
<1>5. ASSUME Page(s).bos PROVE Remembers(i)'
  <2>1. streams'[i].data = NewData
    BY <1>2, <1>5
  <2>2. Fresh(streams[i], Got(i))'
    BY <1>4, <2>1 DEF Fresh
  <2>3. ASSUME NEW name \in streams'[i].fout PROVE DataSound(streams[i], files[name])'
    <3>1. i \in DOMAIN streams
      <4>1. NewStream(s).fout = {}
        BY DEF NewStream
      <4> QED BY <1>2, <2>3, <4>1
    <3>2. PICK n \in PagesOf(s) : given[s][n].bos
      <4>1. streams[i].serial = s
        BY <1>2, <3>1
      <4> QED BY <3>1, <4>1 DEF StreamsSound
    <3>3. PagesOf(s)' = PagesOf(s) \cup {next[s]}
      BY <1>0, PagesGrow
    <3>4. n # next[s] /\ given[s][next[s]].bos
      <4>1. n < next[s] /\ n \in Nat /\ next[s] \in Nat
        BY <1>0, PagesOfFacts, PageFacts DEF PagesSound
      <4> QED BY <1>5, <4>1 DEF Page
    <3>5. (~StartsOnce(s))'
      BY <1>0, <3>2, <3>3, <3>4 DEF StartsOnce
    <3>6. (~StartsOnce(streams[i].serial))'
      BY <1>2, <3>5 DEF StartsOnce, PagesOf
    <3>7. format' = "lrc" => streams'[i].data = -1
      BY <1>0, <2>1 DEF NewData
    <3> QED BY <3>6, <3>7 DEF DataSound
  <2>4. Remembers(i)'
    BY <2>2, <2>3 DEF Remembers
  <2> QED BY <2>4
<1>6. ASSUME ~Page(s).bos PROVE Remembers(i)'
  <2>1. i \in DOMAIN streams /\ streams'[i].data = streams[i].data /\ Remembers(i)
    BY <1>0, <1>2, <1>6
  <2>2. streams[i].serial = s /\ streams'[i].fout = streams[i].fout
        /\ streams'[i].probe = streams[i].probe
    BY <1>2, <2>1
  <2>3. \A p \in ToSet(Page(s).packets) : p.kind = "header" => p.n # 0
    <3>1. WellFormed(s, given[s]) /\ next[s] \in DOMAIN given[s] /\ Page(s) = given[s][next[s]]
      BY <1>0, PageFacts DEF PagesSound, HasPage, Page
    <3> TAKE p \in ToSet(Page(s).packets)
    <3>2. PICK k \in DOMAIN given[s][next[s]].packets : p = given[s][next[s]].packets[k]
      BY <3>1 DEF ToSet
    <3> QED BY <1>6, <3>1, <3>2 DEF WellFormed
  <2>4. ASSUME phase' = "reading", streams'[i].fout = {} PROVE Fresh(streams[i], Got(i))'
    <3>1. Fresh(streams[i], Got(i))
      BY <1>0, <2>1, <2>2, <2>4 DEF Remembers
    <3>2. Got(i)' = Got(i) \cup ToSet(Page(s).packets)
      BY <1>2, <2>1 DEF Before
    <3> QED BY <1>4, <2>1, <2>2, <2>3, <3>1, <3>2 DEF Fresh
  <2>5. ASSUME phase' = "reading", NEW name \in streams'[i].fout
        PROVE  DataSound(streams[i], files[name])'
    <3>1. DataSound(streams[i], files[name]) /\ files'[name] = files[name]
      BY <1>0, <2>1, <2>2, <2>5 DEF Remembers
    <3>2. (StartsOnce(streams[i].serial))' => StartsOnce(streams[i].serial)
      <4>1. (StartsOnce(streams[i].serial))' <=> StartsOnce(s)'
        BY <1>2 DEF StartsOnce, PagesOf
      <4> QED BY <2>2, <4>1 DEF OnceBefore
    <3>3. format = "lrc" => Remembered(files[name], streams[i].data)
      BY <3>1, DataParts
    <3>4. (format = "lrc" => Remembered(files[name], streams[i].data))'
      BY <1>0, <2>1, <3>1, <3>3
    <3>5. (format = "srt" /\ StartsOnce(streams[i].serial) => streams[i].data = Len(files[name]))'
      BY <1>0, <2>1, <3>1, <3>2 DEF DataSound
    <3> QED BY <3>4, <3>5 DEF DataSound, Remembered
  <2> QED BY <2>4, <2>5 DEF Remembers
<1>7. \A name \in DOMAIN files' : Timed(files[name])'
  BY <1>0, FilesStay
<1> QED BY <1>3, <1>5, <1>6, <1>7, WritersNext

LEMMA WritersStay ==
  ASSUME StreamsSound, PagesSound', OutputSound, WritersSound, OnceBefore,
         given' = given, format' = format, files' = files,
         phase' = phase \/ phase' # "reading",
         NEW f, \A k \in DOMAIN streams' :
                  Unmoved(k, f[k]) /\ streams'[k].data = streams[f[k]].data,
         \A j, k \in DOMAIN streams' : j < k => f[j] < f[k]
  PROVE  WritersSound'
<1>0. /\ FilesSound /\ \A j \in DOMAIN streams : Remembers(j)
      /\ \A name \in DOMAIN files : Timed(files[name])
  BY SoundOutput, SoundWriters
<1>1. \A k \in DOMAIN streams' : Got(k)' = Got(f[k])
  BY StreamsMoved
<1>2. ASSUME NEW k \in DOMAIN streams' PROVE Remembers(k)'
  <2>1. PICK j : j = f[k]
    OBVIOUS
  <2>2. Unmoved(k, j) /\ streams'[k].data = streams[j].data /\ Got(k)' = Got(j)
    BY <1>1, <1>2, <2>1
  <2>3. /\ j \in DOMAIN streams /\ streams'[k].serial = streams[j].serial
        /\ streams'[k].probe = streams[j].probe /\ streams'[k].fout = streams[j].fout
    BY <2>2 DEF Unmoved
  <2>4. Remembers(j) /\ streams[j].serial \in Serials
    <3>1. streams[j] \in Streams
      BY <2>3, StreamFacts DEF StreamsSound, PagesSound
    <3> QED BY <1>0, <2>3, <3>1 DEF Streams
  <2> QED BY <2>2, <2>3, <2>4, RememberKept
<1>3. \A name \in DOMAIN files' : Timed(files[name])'
  BY <1>0, FilesStay
<1> QED BY <1>2, <1>3, WritersNext

LEMMA WritersRemove ==
  ASSUME StreamsSound, PagesSound', OutputSound, WritersSound, OnceBefore, Removes
  PROVE  WritersSound'
<1>0. PagesSound
  BY DEF StreamsSound
<1>1. PICK n : n = Len(streams) - 1
  OBVIOUS
<1>2. PICK m : m = reading
  OBVIOUS
<1>3. PICK f : f = Shift(n, m)
  OBVIOUS
<1>4. /\ \A k \in DOMAIN streams' : Unmoved(k, f[k]) /\ streams'[k].data = streams[f[k]].data
      /\ \A j, k \in DOMAIN streams' : j < k => f[j] < f[k]
  BY <1>0, <1>1, <1>2, <1>3, RemovesMoves
<1>5. given' = given /\ format' = format /\ files' = files /\ phase' = phase
  BY DEF Removes, Options
<1> QED BY <1>4, <1>5, WritersStay

LEMMA WritersQuiet ==
  ASSUME StreamsSound, PagesSound', OutputSound, WritersSound, OnceBefore,
         \/ \E s \in Serials : StrayPage(s) \/ LosePage(s)
         \/ EndOfPage \/ Abort \/ UNCHANGED vars
  PROVE  WritersSound'
<1>0. PagesSound /\ Quiet
  BY DEF StreamsSound, Quiet
<1>1. /\ streams' = streams /\ given' = given /\ format' = format /\ files' = files
      /\ phase' = phase \/ phase' # "reading"
  BY DEF StrayPage, LosePage, EndOfPage, Abort, Options, vars
<1>2. \A k \in DOMAIN streams : Unmoved(k, k)
  BY <1>0, QuietStays
<1>3. PICK D : D = DOMAIN streams
  OBVIOUS
<1>6. PICK f : f = [k \in D |-> k]
  OBVIOUS
<1>4. \A k \in D : f[k] = k
  BY <1>6
<1>5. /\ \A k \in DOMAIN streams' : Unmoved(k, f[k]) /\ streams'[k].data = streams[f[k]].data
      /\ \A j, k \in DOMAIN streams' : j < k => f[j] < f[k]
  <2>1. DOMAIN streams' = D
    BY <1>1, <1>3
  <2>2. \A k \in D : Unmoved(k, k) /\ streams'[k].data = streams[k].data
    BY <1>1, <1>2, <1>3
  <2>3. \A k \in D : Unmoved(k, f[k]) /\ streams'[k].data = streams[f[k]].data
    <3> TAKE k \in D
    <3>1. f[k] = k
      BY <1>4
    <3> QED BY <2>2, <3>1
  <2> QED BY <1>4, <2>1, <2>3
<1> QED BY <1>1, <1>5, WritersStay

LEMMA WritersRead ==
  ASSUME StreamsSound, PagesSound', OutputSound, WritersSound, OnceBefore, ReadsPacket,
         NEW i \in DOMAIN streams, i = reading,
         phase' = phase \/ phase' # "reading",
         \A j \in DOMAIN streams : j # i => \A name \in streams[j].fout : files'[name] = files[name],
         Remembers(i)', \A name \in DOMAIN files' : Timed(files[name])'
  PROVE  WritersSound'
<1>0. /\ \A j \in DOMAIN streams : Remembers(j) /\ streams[j].serial \in Serials
      /\ \A j \in DOMAIN streams : Got(j)' = Got(j)
      /\ \A j \in DOMAIN streams : j # i => streams'[j] = streams[j]
      /\ DOMAIN streams' = DOMAIN streams /\ format' = format
  <2>1. \A j \in DOMAIN streams : streams[j] \in Streams
    BY StreamFacts DEF StreamsSound, PagesSound
  <2> QED BY <2>1, SoundWriters, StreamsReads DEF ReadsPacket, Options, Streams
<1>1. ASSUME NEW j \in DOMAIN streams', j # i PROVE Remembers(j)'
  BY <1>0, <1>1, RememberKept
<1> QED BY <1>1, WritersNext

(* The header that is read is one of those that were got.                    *)
LEMMA HeaderFresh ==
  ASSUME StreamsSound, OutputSound, WritersSound, Reads, ~InData(This), HeaderFits
  PROVE  This.data = NewData /\ This.fout = {}
<1>0. PagesSound /\ TypeOK /\ phase = "reading" /\ Has("header")
  BY DEF StreamsSound, PagesSound, Reads, HeaderFits
<1>1. PICK i \in DOMAIN streams : i = reading /\ This = streams[i]
  BY <1>0, ThisFacts
<1>2. This.fout = {}
  <2>1. ProgressSound(streams[i], Done(i))
    BY SoundOutput DEF Fine
  <2> QED BY <1>0, <1>1, <2>1 DEF ProgressSound
<1>3. Fresh(This, Got(i))
  BY <1>0, <1>1, <1>2, SoundWriters DEF Remembers
<1>4. PICK e \in Packets : e = Head(This.queue) /\ e.kind = "header" /\ This.queue # <<>>
  BY <1>0, HasFacts DEF Has
<1>5. e \in Got(i)
  <2>1. e \in ToSet(This.queue)
    <3>1. This.queue \in Seq(Packets \cup {Gap})
      BY <1>0, ThisFacts DEF Streams
    <3> QED BY <1>4, <3>1 DEF ToSet
  <2>2. e # Gap
    BY PacketFacts
  <2>3. e \in Waiting(streams[i])
    BY <1>1, <2>1, <2>2 DEF Waiting
  <2> QED BY <2>3 DEF StreamsSound, QueueSound
<1>6. e.n = This.probe
  BY <1>4 DEF HeaderFits
<1> QED BY <1>2, <1>3, <1>4, <1>5, <1>6 DEF Fresh

LEMMA Next1Data ==
  ASSUME TypeOK, ReadsPacket, NEW i \in DOMAIN streams, i = reading
  PROVE  /\ Next1 \in Streams /\ This = streams[i] /\ This \in Streams
         /\ Next1.data = This.data /\ Next1.fout = This.fout /\ Next1.probe = This.probe
         /\ This.serial \in Serials /\ This.data \in Int /\ This.probe \in Nat
         /\ streams'[i].serial = This.serial
<1>1. Reads /\ This.queue # <<>> /\ streams'[i].serial = This.serial
  BY DEF ReadsPacket
<1>2. This = streams[i] /\ This \in Streams /\ Tail(This.queue) \in Seq(Packets \cup {Gap})
  BY <1>1, ThisFacts
<1>3. Next1 \in Streams
  BY <1>2 DEF Next1, Streams
<1> QED BY <1>1, <1>2, <1>3 DEF Next1, Streams

LEMMA WritersPass ==
  ASSUME StreamsSound, PagesSound', OutputSound, WritersSound, OnceBefore, ReadsPacket,
         Hole \/ Silent \/ Bad
  PROVE  WritersSound'
<1>0. TypeOK /\ FilesSound /\ \A name \in DOMAIN files : Timed(files[name])
  BY SoundOutput, SoundWriters DEF StreamsSound, PagesSound
<1>1. PICK i \in DOMAIN streams : i = reading
  BY DEF ReadsPacket
<1>2. /\ Next1 \in Streams /\ This = streams[i] /\ Next1.data = This.data
      /\ Next1.fout = This.fout /\ Next1.probe = This.probe
      /\ This.serial \in Serials /\ streams'[i].serial = This.serial
  BY <1>0, <1>1, Next1Data
<1>3. /\ files' = files /\ phase' = phase /\ format' = format
      /\ \/ streams'[i] = Next1
         \/ \E x : streams'[i] = [Next1 EXCEPT !.ret = x]
  BY <1>1, <1>2 DEF Hole, Silent, Bad, Options
<1>4. /\ streams'[i].data = streams[i].data /\ streams'[i].fout = streams[i].fout
      /\ streams'[i].probe = streams[i].probe
  BY <1>2, <1>3 DEF Streams
<1>5. Got(i)' = Got(i)
  BY <1>1, StreamsReads
<1>6. Remembers(i)'
  <2>1. Remembers(i)
    BY SoundWriters
  <2> QED BY <1>2, <1>3, <1>4, <1>5, <2>1, RememberKept
<1>7. \A name \in DOMAIN files' : Timed(files[name])'
  BY <1>0, <1>3, FilesStay
<1> QED BY <1>1, <1>3, <1>6, <1>7, WritersRead

LEMMA WritersHeader ==
  ASSUME StreamsSound, PagesSound', OutputSound, WritersSound, OnceBefore, ReadsPacket, Header
  PROVE  WritersSound'
<1>0. TypeOK /\ FilesSound /\ \A name \in DOMAIN files : Timed(files[name])
  BY SoundOutput, SoundWriters DEF StreamsSound, PagesSound
<1>1. PICK i \in DOMAIN streams : i = reading
  BY DEF ReadsPacket
<1>2. /\ Next1 \in Streams /\ This = streams[i] /\ Next1.data = This.data
      /\ Next1.fout = This.fout
  BY <1>0, <1>1, Next1Data
<1>3. /\ files' = files /\ phase' = phase /\ format' = format
      /\ streams'[i] = [Next1 EXCEPT !.init = "header_info", !.probe = @ + 1]
  BY <1>1, <1>2 DEF Header, Options
<1>4. This.data = NewData /\ This.fout = {}
  BY HeaderFresh DEF Header
<1>5. streams'[i].data = NewData /\ streams'[i].fout = {}
  BY <1>2, <1>3, <1>4 DEF Streams
<1>6. Remembers(i)'
  <2>1. NewData' = NewData
    BY <1>3 DEF NewData
  <2> QED BY <1>5, <2>1 DEF Remembers, Fresh
<1>7. \A name \in DOMAIN files' : Timed(files[name])'
  BY <1>0, <1>3, FilesStay
<1> QED BY <1>1, <1>3, <1>6, <1>7, WritersRead

LEMMA WritersOpen ==
  ASSUME StreamsSound, PagesSound', OutputSound, WritersSound, OnceBefore, ReadsPacket, Open
  PROVE  WritersSound'
<1>0. TypeOK /\ FilesSound /\ \A name \in DOMAIN files : Timed(files[name])
  BY SoundOutput, SoundWriters DEF StreamsSound, PagesSound
<1>1. PICK i \in DOMAIN streams : i = reading
  BY DEF ReadsPacket
<1>2. PICK new : new = Name(This)
  OBVIOUS
<1>3. /\ Next1 \in Streams /\ This = streams[i] /\ Next1.data = This.data
  BY <1>0, <1>1, Next1Data
<1>4. /\ phase' = phase /\ format' = format /\ ~Used(new)
      /\ streams'[i] = [Next1 EXCEPT !.init = "data", !.probe = @ + 1, !.fout = {new}]
      /\ files' = [f \in DOMAIN files \cup {new} |->
                     IF f # new THEN files[f]
                     ELSE IF HasStart THEN << [what |-> "start"] >> ELSE <<>>]
  BY <1>1, <1>2, <1>3 DEF Open, Options
<1>5. This.data = NewData
  BY HeaderFresh DEF Open, Ready
<1>6. streams'[i].data = NewData /\ streams'[i].fout = {new}
  BY <1>3, <1>4, <1>5 DEF Streams
<1>7. format # "kate" => files'[new] = <<>>
  BY <1>4 DEF HasStart
<1>8. Remembers(i)'
  <2>1. ASSUME NEW name \in streams'[i].fout PROVE DataSound(streams[i], files[name])'
    <3>1. name = new
      BY <1>6, <2>1
    <3>2. format' = "srt" => streams'[i].data = 0 /\ files'[name] = <<>>
      BY <1>4, <1>6, <1>7, <3>1 DEF NewData
    <3>3. format' = "lrc" => streams'[i].data = -1
      BY <1>4, <1>6 DEF NewData
    <3> QED BY <3>2, <3>3 DEF DataSound
  <2> QED BY <1>6, <2>1 DEF Remembers
<1>9. ASSUME NEW name \in DOMAIN files' PROVE Timed(files[name])'
  <2>1. CASE name = new
    <3>1. format' # "kate" => files'[name] = <<>>
      BY <1>4, <1>7, <2>1
    <3>2. CASE format' = "kate"
      BY <3>2 DEF Timed
    <3>3. CASE format' # "kate"
      <4>1. files'[name] = <<>>
        BY <3>1, <3>3
      <4>2. DOMAIN files'[name] = {}
        BY <4>1
      <4>3. (\A n \in DOMAIN files[name] : SrtAt(files[name], n))'
        BY <4>2
      <4>4. (\A n \in Events(files[name]) : LrcAt(files[name], n))'
        BY <4>2 DEF Events
      <4> QED BY <4>3, <4>4 DEF Timed
    <3> QED BY <3>2, <3>3
  <2>2. CASE name # new
    <3>1. name \in DOMAIN files /\ files'[name] = files[name]
      BY <1>4, <1>9, <2>2
    <3>2. PICK f : f = files[name]
      OBVIOUS
    <3>3. f \in Seq(Entries) /\ Timed(f)
      BY <1>0, <3>1, <3>2 DEF FilesSound
    <3>4. Timed(f)'
      BY <1>4, <3>3, TimedStays
    <3> QED BY <3>1, <3>2, <3>4
  <2> QED BY <2>1, <2>2
<1>10. ASSUME NEW j \in DOMAIN streams, j # i, NEW name \in streams[j].fout
       PROVE  files'[name] = files[name]
  <2>1. name # new
    BY <1>4, <1>10 DEF Used
  <2>2. name \in DOMAIN files
    <3>1. streams[j] \in Streams
      BY <1>0, StreamFacts
    <3> QED BY <1>10, <3>1 DEF Streams
  <2> QED BY <1>4, <2>1, <2>2
<1> QED BY <1>1, <1>4, <1>8, <1>9, <1>10, WritersRead

LEMMA WritersText ==
  ASSUME StreamsSound, PagesSound', OutputSound, WritersSound, OnceBefore, ReadsPacket, Text
  PROVE  WritersSound'
<1>0. /\ PagesSound /\ TypeOK /\ FilesSound /\ Apart
      /\ \A name \in DOMAIN files : Timed(files[name])
  BY SoundOutput, SoundWriters DEF StreamsSound, PagesSound
<1>1. PICK i \in DOMAIN streams : i = reading
  BY DEF ReadsPacket
<1>2. /\ Next1 \in Streams /\ This = streams[i] /\ Next1.data = This.data
      /\ Next1.fout = This.fout /\ This.serial \in Serials /\ This.data \in Int
      /\ streams'[i].serial = This.serial
  BY <1>0, <1>1, Next1Data
<1>3. PICK e \in Packets : e = Head(This.queue) /\ e.kind = "text"
  BY <1>0, HasFacts DEF Text
<1>4. PICK data \in Int : data = This.data
  BY <1>2
<1>5. PICK w : w = Printed(data, e)
  OBVIOUS
<1>6. PICK after : after = DataAfter(data, e)
  OBVIOUS
<1>7. /\ Write(This, w) /\ format' = format /\ InData(This) /\ phase = "reading"
      /\ streams'[i] = [Next1 EXCEPT !.data = DataAfter(@, e), !.ret = Status(@, 0)]
  BY <1>1, <1>2, <1>3, <1>4, <1>5 DEF Text, Options, Reads
<1>8. This.fout # {}
  BY <1>2, <1>7, SoundOutput DEF Fine, ProgressSound
<1>9. PICK name \in DOMAIN files : This.fout = {name}
  <2>1. This \in Streams
    BY <1>0, <1>2, StreamFacts
  <2> QED BY <1>8, <2>1 DEF Streams
<1>10. /\ phase' = phase /\ DOMAIN files' = DOMAIN files
       /\ files'[name] = files[name] \o w
       /\ \A g \in DOMAIN files : g # name => files'[g] = files[g]
  BY <1>7, <1>8, <1>9 DEF Write
<1>11. PICK f : f = files[name]
  OBVIOUS
<1>12. f \in Seq(Entries) /\ Timed(f)
  BY <1>0, <1>11 DEF FilesSound
<1>13. streams'[i].data = after /\ streams'[i].fout = {name}
  <2>1. streams'[i].data = DataAfter(Next1.data, e)
    BY <1>2, <1>7 DEF Streams
  <2>2. streams'[i].fout = Next1.fout
    BY <1>2, <1>7 DEF Streams
  <2> QED BY <1>2, <1>4, <1>6, <1>9, <2>1, <2>2
<1>14. DataSound(streams[i], f)
  <2>1. Remembers(i)
    BY SoundWriters
  <2> QED BY <1>2, <1>7, <1>9, <1>11, <2>1 DEF Remembers
<1>15. e.serial = streams[i].serial
  <2>1. e # Gap
    BY PacketFacts
  <2>2. e \in Waiting(streams[i])
    BY <1>1, <1>3, <2>1, StreamsReads
  <2>3. e \in Got(i)
    BY <2>2 DEF StreamsSound, QueueSound
  <2> QED BY <1>0, <2>3, GotSerial
<1>16. PICK h : h = f \o w
  OBVIOUS
<1>17. h \in Seq(Entries)
  <2>1. w \in Seq(Entries)
    BY <1>3, <1>5, PrintedFacts
  <2> QED BY <1>12, <1>16, <2>1, Joined
<1>18. /\ Timed(h)
       /\ format = "srt" /\ StartsOnce(e.serial) => after = Len(h)
       /\ format = "lrc" => Remembered(h, after)
  <2>1. CASE format = "srt"
    <3>1. StartsOnce(e.serial) => data = Len(f)
      BY <1>2, <1>4, <1>14, <1>15, <2>1 DEF DataSound
    <3> QED BY <1>3, <1>5, <1>6, <1>12, <1>16, <2>1, <3>1, SrtText
  <2>2. CASE format = "lrc"
    <3>1. Remembered(f, data)
      BY <1>2, <1>4, <1>14, <2>2, DataParts
    <3> QED BY <1>3, <1>5, <1>6, <1>12, <1>16, <2>2, <3>1, LrcText
  <2>3. CASE format \notin {"srt", "lrc"}
    BY <2>3 DEF Timed
  <2> QED BY <2>1, <2>2, <2>3
<1>19. files'[name] = h
  BY <1>10, <1>11, <1>16
<1>20. DataSound(streams[i], files[name])'
  <2>1. (StartsOnce(streams[i].serial))' => StartsOnce(e.serial)
    <3>1. PICK r \in Serials : r = e.serial
      BY <1>2, <1>15
    <3>2. (StartsOnce(streams[i].serial))' <=> StartsOnce(r)'
      BY <1>2, <1>15, <3>1 DEF StartsOnce, PagesOf
    <3> QED BY <3>1, <3>2 DEF OnceBefore
  <2>2. (format = "srt" /\ StartsOnce(streams[i].serial) => streams[i].data = Len(files[name]))'
    BY <1>7, <1>13, <1>18, <1>19, <2>1
  <2>3. (format = "lrc" => Remembered(files[name], streams[i].data))'
    BY <1>7, <1>13, <1>18, <1>19
  <2> QED BY <2>2, <2>3 DEF DataSound, Remembered
<1>21. Remembers(i)'
  BY <1>13, <1>20 DEF Remembers
<1>22. ASSUME NEW g \in DOMAIN files' PROVE Timed(files[g])'
  <2>1. PICK x : x = files'[g]
    OBVIOUS
  <2>2. x \in Seq(Entries) /\ Timed(x)
    BY <1>0, <1>10, <1>17, <1>18, <1>19, <1>22, <2>1 DEF FilesSound
  <2>3. Timed(x)'
    BY <1>7, <2>2, TimedStays
  <2> QED BY <2>1, <2>3
<1>23. ASSUME NEW j \in DOMAIN streams, j # i, NEW g \in streams[j].fout
       PROVE  files'[g] = files[g]
  <2>1. g # name
    BY <1>0, <1>2, <1>9, <1>23 DEF Apart
  <2>2. g \in DOMAIN files
    <3>1. streams[j] \in Streams
      BY <1>0, StreamFacts
    <3> QED BY <1>23, <3>1 DEF Streams
  <2> QED BY <1>10, <2>1, <2>2
<1> QED BY <1>1, <1>10, <1>21, <1>22, <1>23, WritersRead

LEMMA EndRemembered ==
  ASSUME NEW f \in Seq(Entries), NEW data, Remembered(f, data)
  PROVE  Remembered(f \o JustEnd, data)
<1>1. CASE data = -1
  BY <1>1 DEF Remembered
<1>2. CASE data # -1
  <2>1. PICK k \in Events(f), m \in DOMAIN f :
          /\ data = EndOf(f[k].event)
          /\ StampedAt(f, Len(f) + 1, m) /\ f[m] = Stamp(LrcTime(data))
    BY <1>2 DEF Remembered
  <2>2. JustEnd \in Seq(Entries) /\ Len(JustEnd) = 1 /\ JustEnd[1].what = "end" /\ DOMAIN JustEnd = {1}
    <3>1. [what |-> "end"] \in Entries
      BY DEF Entries
    <3> QED BY <3>1 DEF JustEnd
  <2>3. PICK h : h = f \o JustEnd
    OBVIOUS
  <2>4. PICK l \in Nat : l = Len(f)
    OBVIOUS
  <2>5. /\ DOMAIN f = 1 .. Len(f) /\ Len(h) = Len(f) + Len(JustEnd)
        /\ \A j \in DOMAIN f : j \in DOMAIN h /\ h[j] = f[j]
        /\ \A j \in DOMAIN JustEnd : Len(f) + j \in DOMAIN h /\ h[Len(f) + j] = JustEnd[j]
    <3>1. PICK g \in Seq(Entries) : g = JustEnd
      BY <2>2
    <3>2. /\ DOMAIN f = 1 .. Len(f) /\ Len(h) = Len(f) + Len(g)
          /\ \A j \in DOMAIN f : j \in DOMAIN h /\ h[j] = f[j]
          /\ \A j \in DOMAIN g : Len(f) + j \in DOMAIN h /\ h[Len(f) + j] = g[j]
      BY <2>3, <3>1, ConcatFacts
    <3> QED BY <3>1, <3>2, Zenon
  <2>6. DOMAIN f = 1 .. l /\ Len(h) = l + 1 /\ h[l + 1] = JustEnd[1]
    <3>1. 1 \in DOMAIN JustEnd
      BY <2>2
    <3>2. h[Len(f) + 1] = JustEnd[1]
      BY <2>5, <3>1
    <3> QED BY <2>2, <2>4, <2>5, <3>2, Zenon
  <2>7. StampedAt(h, Len(h) + 1, m)
    <3>1. /\ m \in 1 .. (l + 1) - 1 /\ f[m].what = "stamp"
          /\ \A j \in m + 1 .. (l + 1) - 1 : f[j].what # "stamp"
      BY <2>1, <2>4 DEF StampedAt
    <3>2. m \in 1 .. (Len(h) + 1) - 1 /\ h[m].what = "stamp"
      BY <2>4, <2>5, <2>6, <3>1
    <3>3. ASSUME NEW j \in m + 1 .. (Len(h) + 1) - 1 PROVE h[j].what # "stamp"
      <4>1. j = l + 1 \/ j \in m + 1 .. (l + 1) - 1
        BY <2>4, <2>6, <3>1, <3>3
      <4>2. CASE j = l + 1
        BY <2>2, <2>6, <4>2
      <4>3. CASE j \in m + 1 .. (l + 1) - 1
        <5>1. j \in DOMAIN f
          BY <2>4, <2>6, <3>1, <4>3
        <5> QED BY <2>5, <3>1, <4>3, <5>1
      <4> QED BY <4>1, <4>2, <4>3
    <3> QED BY <3>2, <3>3 DEF StampedAt
  <2>8. k \in Events(h) /\ h[k] = f[k] /\ m \in DOMAIN h /\ h[m] = f[m]
    BY <2>5 DEF Events
  <2>9. Remembered(h, data)
    BY <2>1, <2>7, <2>8 DEF Remembered
  <2> QED BY <2>3, <2>9
<1> QED BY <1>1, <1>2

LEMMA WritersEnd ==
  ASSUME StreamsSound, PagesSound', OutputSound, WritersSound, OnceBefore, ReadsPacket, End
  PROVE  WritersSound'
<1>0. /\ PagesSound /\ TypeOK /\ FilesSound /\ Apart
      /\ \A name \in DOMAIN files : Timed(files[name])
  BY SoundOutput, SoundWriters DEF StreamsSound, PagesSound
<1>1. PICK i \in DOMAIN streams : i = reading
  BY DEF ReadsPacket
<1>2. /\ Next1 \in Streams /\ This = streams[i] /\ Next1.data = This.data
      /\ Next1.fout = This.fout /\ Next1.probe = This.probe
      /\ This.serial \in Serials /\ streams'[i].serial = This.serial
  BY <1>0, <1>1, Next1Data
<1>3. /\ format' = format /\ InData(This) /\ phase = "reading"
      /\ streams'[i] = [Next1 EXCEPT !.init = "eos", !.ret = Status(@, 0)]
      /\ IF HasEnd THEN Write(This, JustEnd) ELSE UNCHANGED <<files, phase>>
  BY <1>1 DEF End, Options, Reads, JustEnd
<1>4. This.fout # {}
  BY <1>2, <1>3, SoundOutput DEF Fine, ProgressSound
<1>5. /\ streams'[i].data = This.data /\ streams'[i].fout = This.fout
      /\ streams'[i].probe = This.probe
  BY <1>2, <1>3 DEF Streams
<1>6. Remembers(i) /\ Got(i)' = Got(i)
  BY <1>1, SoundWriters, StreamsReads
<1>7. CASE ~HasEnd
  <2>1. files' = files /\ phase' = phase
    BY <1>3, <1>7
  <2>2. Remembers(i)'
    BY <1>2, <1>3, <1>5, <1>6, <2>1, RememberKept
  <2>3. \A name \in DOMAIN files' : Timed(files[name])'
    BY <1>0, <1>3, <2>1, FilesStay
  <2> QED BY <1>1, <2>1, <2>2, <2>3, WritersRead
<1>8. CASE HasEnd
  <2>1. PICK name \in DOMAIN files : This.fout = {name}
    <3>1. This \in Streams
      BY <1>0, <1>2, StreamFacts
    <3> QED BY <1>4, <3>1 DEF Streams
  <2>2. /\ phase' = phase /\ DOMAIN files' = DOMAIN files
        /\ files'[name] = files[name] \o JustEnd
        /\ \A g \in DOMAIN files : g # name => files'[g] = files[g]
    BY <1>3, <1>4, <1>8, <2>1 DEF Write
  <2>3. PICK f : f = files[name]
    OBVIOUS
  <2>4. f \in Seq(Entries) /\ Timed(f)
    BY <1>0, <2>3 DEF FilesSound
  <2>5. PICK h : h = f \o JustEnd
    OBVIOUS
  <2>6. h \in Seq(Entries) /\ Timed(h)
    BY <1>8, <2>4, <2>5, EndFacts, EndTimed DEF JustEnd
  <2>7. files'[name] = h
    BY <2>2, <2>3, <2>5
  <2>8. DataSound(streams[i], files[name])'
    <3>1. DataSound(streams[i], f)
      BY <1>2, <1>3, <1>6, <2>1, <2>3 DEF Remembers
    <3>2. format = "lrc" => Remembered(f, streams[i].data)
      BY <3>1, DataParts
    <3>3. format = "lrc" => Remembered(h, streams[i].data)
      BY <2>4, <2>5, <3>2, EndRemembered
    <3>4. (format = "lrc" => Remembered(files[name], streams[i].data))'
      BY <1>2, <1>3, <1>5, <2>7, <3>3
    <3>5. format' # "srt"
      BY <1>3, <1>8 DEF HasEnd
    <3> QED BY <3>4, <3>5 DEF DataSound, Remembered
  <2>9. Remembers(i)'
    BY <1>5, <2>1, <2>8 DEF Remembers
  <2>10. ASSUME NEW g \in DOMAIN files' PROVE Timed(files[g])'
    <3>1. PICK x : x = files'[g]
      OBVIOUS
    <3>2. x \in Seq(Entries) /\ Timed(x)
      BY <1>0, <2>2, <2>6, <2>7, <2>10, <3>1 DEF FilesSound
    <3>3. Timed(x)'
      BY <1>3, <3>2, TimedStays
    <3> QED BY <3>1, <3>3
  <2>11. ASSUME NEW j \in DOMAIN streams, j # i, NEW g \in streams[j].fout
         PROVE  files'[g] = files[g]
    <3>1. g # name
      BY <1>0, <1>2, <2>1, <2>11 DEF Apart
    <3>2. g \in DOMAIN files
      <4>1. streams[j] \in Streams
        BY <1>0, StreamFacts
      <4> QED BY <2>11, <4>1 DEF Streams
    <3> QED BY <2>2, <3>1, <3>2
  <2> QED BY <1>1, <2>2, <2>9, <2>10, <2>11, WritersRead
<1> QED BY <1>7, <1>8

LEMMA WritersForced ==
  ASSUME StreamsSound, PagesSound', OutputSound, WritersSound, OnceBefore, ForceEnd
  PROVE  WritersSound'
<1>0. PagesSound /\ FilesSound /\ \A name \in DOMAIN files : Timed(files[name])
  BY SoundOutput, SoundWriters DEF StreamsSound
<1>1. phase' # "reading" /\ format' = format
  BY DEF ForceEnd, Options
<1>2. \A i \in DOMAIN streams' : Remembers(i)'
  BY <1>1 DEF Remembers
<1>3. /\ DOMAIN files' = DOMAIN files
      /\ \A name \in DOMAIN files : files'[name] = files[name] \/
                                    files'[name] = files[name] \o JustEnd
  BY <1>0, ForceEndFiles
<1>4. ~HasEnd => \A name \in DOMAIN files : files'[name] = files[name]
  BY DEF ForceEnd
<1>5. ASSUME NEW g \in DOMAIN files' PROVE Timed(files[g])'
  <2>1. PICK f : f = files[g]
    OBVIOUS
  <2>2. f \in Seq(Entries) /\ Timed(f)
    BY <1>0, <1>3, <1>5, <2>1 DEF FilesSound
  <2>3. PICK h : h = files'[g]
    OBVIOUS
  <2>4. h = f \/ (h = f \o JustEnd /\ HasEnd)
    BY <1>3, <1>4, <1>5, <2>1, <2>3
  <2>5. h \in Seq(Entries) /\ Timed(h)
    <3>1. CASE h = f
      BY <2>2, <3>1
    <3>2. CASE h = f \o JustEnd /\ HasEnd
      BY <2>2, <3>2, EndFacts, EndTimed DEF JustEnd
    <3> QED BY <2>4, <3>1, <3>2
  <2>6. Timed(h)'
    BY <1>1, <2>5, TimedStays
  <2> QED BY <2>3, <2>6
<1> QED BY <1>2, <1>5, WritersNext

LEMMA WritersInit == Init => WritersSound
<1> SUFFICES ASSUME Init PROVE WritersSound
  OBVIOUS
<1>1. DOMAIN streams = {} /\ DOMAIN files = {}
  BY DEF Init
<1> QED BY <1>1 DEF WritersSound, TimesRight

LEMMA WritersStep ==
  ASSUME StreamsSound, PagesSound', OutputSound, WritersSound, [Next]_vars
  PROVE  WritersSound'
<1>0. PagesSound /\ TypeOK /\ OnceBefore
  BY StartsStep DEF StreamsSound, PagesSound
<1>1. CASE \E s \in Serials : BosPage(s) \/ NextPage(s)
  <2>1. PICK s \in Serials, i \in Nat : TakesPage(s, i)
    BY <1>0, <1>1, TakesPageStep
  <2> QED BY <1>0, <2>1, WritersTake
<1>2. CASE (\E s \in Serials : StrayPage(s) \/ LosePage(s)) \/ EndOfPage \/ Abort \/ UNCHANGED vars
  BY <1>0, <1>2, WritersQuiet
<1>3. CASE Hole \/ Header \/ Open \/ Text \/ Silent \/ Bad \/ End
  <2>1. ReadsPacket
    BY <1>0, <1>3, ReadsPacketStep
  <2> QED BY <1>0, <1>3, <2>1, WritersPass, WritersHeader, WritersOpen, WritersText, WritersEnd
<1>4. CASE WrongHeader \/ Ignore
  <2>1. Removes
    BY <1>0, <1>4, RemovesStep
  <2> QED BY <1>0, <2>1, WritersRemove
<1>5. CASE ForceEnd
  BY <1>0, <1>5, WritersForced
<1>6. CASE ClearSet
  <2>1. DOMAIN streams' = {} /\ files' = files /\ format' = format
    BY <1>6 DEF ClearSet, Options
  <2>2. \A name \in DOMAIN files' : Timed(files[name])'
    BY <1>0, <2>1, FilesStay, SoundOutput, SoundWriters
  <2> QED BY <2>1, <2>2, WritersNext
<1> QED BY <1>1, <1>2, <1>3, <1>4, <1>5, <1>6 DEF Next

(* The events of an SRT file are numbered from 1 and their times, like those *)
(* of the lyrics of an LRC file, are right to half a unit: whatever the rate *)
(* and whatever is lost.                                                     *)
THEOREM TimesAreRight == Spec => []TimesRight
<1>1. StreamsSound /\ PagesSound' /\ OutputSound /\ WritersSound /\ [Next]_vars => WritersSound'
  BY WritersStep
<1>2. WritersSound => TimesRight
  BY DEF WritersSound
<1> QED BY <1>1, <1>2, WritersInit, PagesHold, StreamsHold, OutputHolds, PTL DEF Spec
=============================================================================
