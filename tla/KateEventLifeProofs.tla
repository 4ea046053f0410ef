------------------------ MODULE KateEventLifeProofs ------------------------
(* Reference counts and ownership in KateEventLife, for any number of        *)
(* trackers and any packets.                                                 *)
EXTENDS KateEventLife, FiniteSetTheorems, TLAPS

(* What a client that clears its trackers first keeps true of the streams.   *)
InfoOK ==
  /\ kds = "live" => opens \in infos
  /\ \A e \in DOMAIN events : kds = "live" /\ events[e].info = opens

Holds(e, h, c) == Cardinality({t \in Trackers : h[t] = e})
                    + (IF c = e THEN 1 ELSE 0)

(* The parts of Ownership, for any events, holders and blocks.               *)
Typed(live) ==
  /\ DOMAIN live \subseteq 1..made
  /\ \A e \in DOMAIN live : live[e] \in Event
Counted(live, h, c) == \A e \in DOMAIN live : live[e].trackers = Holds(e, h, c)
Held(live, h, c) == /\ c # 0 => c \in DOMAIN live
                    /\ \A t \in Trackers : h[t] # 0 => h[t] \in DOMAIN live
Allocated(live, blocks) ==
  \A e \in DOMAIN live : BlocksOf(e, live[e].parts) \subseteq blocks
Known(live, blocks) ==
  \A x \in blocks : /\ x = <<x[1], x[2]>>
                     /\ IF x[1] \in DOMAIN live
                        THEN x[2] \in live[x[1]].parts \cup {"event"}
                        ELSE x[2] \in Loose \cup LeftBehind

LEMMA OwnershipParts ==
  ASSUME Ownership
  PROVE  /\ Typed(events) /\ Counted(events, held, current)
         /\ Held(events, held, current) /\ Allocated(events, heap)
         /\ Known(events, heap)
<1>1. \A x \in heap : x = <<x[1], x[2]>>
  BY DEF Ownership, TypeOK
<1> QED BY <1>1 DEF Ownership, TypeOK, CountIsHolders, HeldIsLive, OwnedIsAllocated,
       LostIsKnown, Typed, Counted, Held, Allocated, Known, Holds, Holders

(* Holders are counted in natural numbers; one more or one less changes the  *)
(* count by one.                                                             *)
LEMMA HoldsNat ==
  ASSUME NEW e, NEW h, NEW c
  PROVE  Holds(e, h, c) \in Nat
<1>1. IsFiniteSet({t \in Trackers : h[t] = e})
  BY LifeAssumption, FS_Subset, {t \in Trackers : h[t] = e} \subseteq Trackers
<1>2. Cardinality({t \in Trackers : h[t] = e}) \in Nat
  BY <1>1, FS_CardinalityType
<1> QED BY <1>2 DEF Holds

LEMMA HoldsLess ==
  ASSUME NEW h, NEW c, NEW t \in Trackers, h[t] # 0,
         NEW h2, h2[t] = 0, \A u \in Trackers : u # t => h2[u] = h[u]
  PROVE  /\ Holds(h[t], h2, c) = Holds(h[t], h, c) - 1
         /\ \A x : x # h[t] /\ x # 0 => Holds(x, h2, c) = Holds(x, h, c)
<1> DEFINE S(x, g) == {u \in Trackers : g[u] = x}
<1>1. S(h[t], h2) = S(h[t], h) \ {t} /\ t \in S(h[t], h)
  OBVIOUS
<1>2. IsFiniteSet(S(h[t], h))
  BY LifeAssumption, FS_Subset, S(h[t], h) \subseteq Trackers
<1>3. Cardinality(S(h[t], h2)) = Cardinality(S(h[t], h)) - 1
  BY <1>1, <1>2, FS_RemoveElement
<1>4. Cardinality(S(h[t], h)) \in Nat
  BY <1>2, FS_CardinalityType
<1>5. \A x : x # h[t] /\ x # 0 => S(x, h2) = S(x, h)
  OBVIOUS
<1>6. Holds(h[t], h2, c) = Holds(h[t], h, c) - 1
  BY <1>3, <1>4 DEF Holds
<1>7. \A x : x # h[t] /\ x # 0 => Holds(x, h2, c) = Holds(x, h, c)
  BY <1>5 DEF Holds
<1> QED BY <1>6, <1>7

LEMMA HoldsMore ==
  ASSUME NEW h, NEW c, NEW t \in Trackers, h[t] = 0,
         NEW e \in Nat \ {0}, NEW h2,
         h2[t] = e, \A u \in Trackers : u # t => h2[u] = h[u]
  PROVE  /\ Holds(e, h2, c) = Holds(e, h, c) + 1
         /\ \A x : x # e /\ x # 0 => Holds(x, h2, c) = Holds(x, h, c)
<1> DEFINE S(x, g) == {u \in Trackers : g[u] = x}
<1>1. S(e, h2) = S(e, h) \cup {t} /\ t \notin S(e, h)
  OBVIOUS
<1>2. IsFiniteSet(S(e, h))
  BY LifeAssumption, FS_Subset, S(e, h) \subseteq Trackers
<1>3. Cardinality(S(e, h2)) = Cardinality(S(e, h)) + 1
  BY <1>1, <1>2, FS_AddElement
<1>4. Cardinality(S(e, h)) \in Nat
  BY <1>2, FS_CardinalityType
<1>5. \A x : x # e /\ x # 0 => S(x, h2) = S(x, h)
  OBVIOUS
<1>6. Holds(e, h2, c) = Holds(e, h, c) + 1
  BY <1>3, <1>4 DEF Holds
<1>7. \A x : x # e /\ x # 0 => Holds(x, h2, c) = Holds(x, h, c)
  BY <1>5 DEF Holds
<1> QED BY <1>6, <1>7

LEMMA HoldsCurrent ==
  ASSUME NEW h, NEW c \in Nat \ {0}
  PROVE  /\ Holds(c, h, 0) = Holds(c, h, c) - 1
         /\ \A x : x # c /\ x # 0 => Holds(x, h, 0) = Holds(x, h, c)
<1>1. Holds(c, h, 0) \in Nat /\ Holds(c, h, c) \in Nat
  BY HoldsNat
<1>2. IsFiniteSet({t \in Trackers : h[t] = c})
  BY LifeAssumption, FS_Subset, {t \in Trackers : h[t] = c} \subseteq Trackers
<1>3. Cardinality({t \in Trackers : h[t] = c}) \in Nat
  BY <1>2, FS_CardinalityType
<1>4. Holds(c, h, 0) = Cardinality({t \in Trackers : h[t] = c}) + 0
  BY DEF Holds
<1>5. Holds(c, h, c) = Cardinality({t \in Trackers : h[t] = c}) + 1
  BY DEF Holds
<1>6. \A x : x # c /\ x # 0 => Holds(x, h, 0) = Holds(x, h, c)
  BY DEF Holds
<1> QED BY <1>3, <1>4, <1>5, <1>6

(* A holder that lets go of e: what is left is owned and counted as before.  *)
LEMMA ReleaseOne ==
  ASSUME Ownership, NEW e \in DOMAIN events, NEW h2, NEW c2,
         Holds(e, h2, c2) = Holds(e, held, current) - 1,
         \A x : x # e /\ x # 0 => Holds(x, h2, c2) = Holds(x, held, current)
  PROVE  /\ Typed(Released(events, e))
         /\ Counted(Released(events, e), h2, c2)
         /\ Allocated(Released(events, e), heap \ Freed(events, e))
         /\ Known(Released(events, e), heap \ Freed(events, e))
         /\ DOMAIN Released(events, e) \subseteq DOMAIN events
         /\ \A x \in DOMAIN events : x # e \/ Holds(e, h2, c2) # 0
              => x \in DOMAIN Released(events, e)
         /\ \A x \in DOMAIN Released(events, e) :
              Released(events, e)[x].info = events[x].info
<1>6. /\ Typed(events) /\ Counted(events, held, current)
      /\ Allocated(events, heap) /\ Known(events, heap)
      /\ made \in Nat /\ opens \in Nat
  BY OwnershipParts DEF Ownership, TypeOK
<1>1. e # 0 /\ events[e] \in Event /\ events[e].trackers \in Nat \ {0}
  BY <1>6 DEF Typed, Event
<1>2. events[e].trackers = Holds(e, held, current)
  BY <1>6 DEF Counted
<1>3. \A x \in DOMAIN events : x # 0
  BY <1>6 DEF Typed
<1>4. CASE events[e].trackers = 1
  <2>1. Released(events, e) = [x \in DOMAIN events \ {e} |-> events[x]]
    BY <1>1, <1>4 DEF Released, Without
  <2>2. Freed(events, e) = BlocksOf(e, events[e].parts \ LeftBehind)
    BY <1>1, <1>4 DEF Freed
  <2>3. Holds(e, h2, c2) = 0
    BY <1>2, <1>4
  <2>4. Typed(Released(events, e))
    BY <1>6, <2>1 DEF Typed
  <2>5. Counted(Released(events, e), h2, c2)
    BY <1>6, <2>1, <1>3 DEF Counted
  <2>6. Allocated(Released(events, e), heap \ Freed(events, e))
    BY <1>6, <2>1, <2>2 DEF Allocated, BlocksOf
  <2>7. ASSUME NEW x \in heap \ Freed(events, e)
        PROVE  /\ x = <<x[1], x[2]>>
               /\ IF x[1] \in DOMAIN Released(events, e)
                  THEN x[2] \in Released(events, e)[x[1]].parts \cup {"event"}
                  ELSE x[2] \in Loose \cup LeftBehind
    <3>1. x \in heap /\ x = <<x[1], x[2]>>
      BY <1>6, <2>7 DEF Known
    <3>2. CASE x[1] = e
      <4>1. x[2] \in events[e].parts \cup {"event"}
        BY <1>6, <3>1, <3>2 DEF Known
      <4>2. x \notin BlocksOf(e, events[e].parts \ LeftBehind)
        BY <2>2, <2>7
      <4>3. x[2] \notin (events[e].parts \ LeftBehind) \cup {"event"}
        BY <4>2, <3>1, <3>2 DEF BlocksOf
      <4> QED BY <3>1, <3>2, <4>1, <4>3, <2>1
    <3>3. CASE x[1] # e
      <4>1. IF x[1] \in DOMAIN events
            THEN x[2] \in events[x[1]].parts \cup {"event"}
            ELSE x[2] \in Loose \cup LeftBehind
        BY <1>6, <3>1 DEF Known
      <4>2. x[1] \in DOMAIN Released(events, e) <=> x[1] \in DOMAIN events
        BY <2>1, <3>3
      <4>3. x[1] \in DOMAIN events => Released(events, e)[x[1]] = events[x[1]]
        BY <2>1, <3>3
      <4> QED BY <3>1, <4>1, <4>2, <4>3
    <3> QED BY <3>2, <3>3
  <2> QED BY <2>1, <2>3, <2>4, <2>5, <2>6, <2>7 DEF Known
<1>5. CASE events[e].trackers # 1
  <2>1. Released(events, e) = [events EXCEPT ![e].trackers = @ - 1]
    BY <1>1, <1>5 DEF Released
  <2>2. Freed(events, e) = {}
    BY <1>5 DEF Freed
  <2>3. /\ DOMAIN Released(events, e) = DOMAIN events
        /\ Released(events, e)[e] = [events[e] EXCEPT !.trackers = @ - 1]
        /\ \A x \in DOMAIN events : x # e => Released(events, e)[x] = events[x]
    BY <2>1
  <2>4. events[e].trackers - 1 \in Nat \ {0}
    BY <1>1, <1>5
  <2>5. Released(events, e)[e] \in Event /\ Released(events, e)[e].info = events[e].info
        /\ Released(events, e)[e].parts = events[e].parts
        /\ Released(events, e)[e].trackers = events[e].trackers - 1
    BY <1>1, <2>3, <2>4 DEF Event
  <2>6. Typed(Released(events, e))
    BY <1>6, <2>3, <2>5 DEF Typed
  <2>7. Counted(Released(events, e), h2, c2)
    BY <1>6, <2>3, <2>5, <1>2, <1>3 DEF Counted
  <2>8. Allocated(Released(events, e), heap \ Freed(events, e))
    BY <1>6, <2>2, <2>3, <2>5 DEF Allocated
  <2>9. \A x \in DOMAIN events : Released(events, e)[x].parts = events[x].parts
    BY <2>3, <2>5
  <2>10. Known(Released(events, e), heap \ Freed(events, e))
    BY <1>6, <2>2, <2>3, <2>9 DEF Known
  <2> QED BY <2>3, <2>5, <2>6, <2>7, <2>8, <2>10
<1> QED BY <1>4, <1>5

LEMMA HoldsPositive ==
  ASSUME NEW h, NEW c, NEW t \in Trackers
  PROVE  Holds(h[t], h, c) # 0
<1> DEFINE S == {u \in Trackers : h[u] = h[t]}
<1>1. IsFiniteSet(S) /\ S # {}
  BY LifeAssumption, FS_Subset, S \subseteq Trackers, t \in S
<1>2. Cardinality(S) \in Nat /\ Cardinality(S) # 0
  BY <1>1, FS_CardinalityType, FS_EmptySet
<1> QED BY <1>2 DEF Holds

(* What the decoder leaves when it lets go of the event it decoded last.     *)
LEMMA LetGoOwned ==
  ASSUME Ownership
  PROVE  LET live == Released(events, current)
             blocks == heap \ Freed(events, current)
         IN /\ Typed(live) /\ Counted(live, held, 0) /\ Held(live, held, 0)
            /\ Allocated(live, blocks) /\ Known(live, blocks)
            /\ DOMAIN live \subseteq DOMAIN events
            /\ \A x \in DOMAIN live : live[x].info = events[x].info
<1> DEFINE live == Released(events, current)
           blocks == heap \ Freed(events, current)
<1>1. /\ Typed(events) /\ Counted(events, held, current)
      /\ Held(events, held, current) /\ Allocated(events, heap)
      /\ Known(events, heap)
  BY OwnershipParts
<1>2. made \in Nat /\ opens \in Nat /\ current \in Nat
  BY DEF Ownership, TypeOK
<1>3. CASE current = 0
  <2>1. live = events /\ blocks = heap
    BY <1>3 DEF Released, Freed
  <2> QED BY <1>1, <1>3, <2>1
<1>4. CASE current # 0
  <2>1. current \in DOMAIN events
    BY <1>1, <1>4 DEF Held
  <2>2. /\ Holds(current, held, 0) = Holds(current, held, current) - 1
        /\ \A x : x # current /\ x # 0 => Holds(x, held, 0) = Holds(x, held, current)
    BY <1>2, <1>4, HoldsCurrent
  <2>3. /\ Typed(live) /\ Counted(live, held, 0) /\ Allocated(live, blocks)
        /\ Known(live, blocks) /\ DOMAIN live \subseteq DOMAIN events
        /\ \A x \in DOMAIN events : x # current \/ Holds(current, held, 0) # 0
             => x \in DOMAIN live
        /\ \A x \in DOMAIN live : live[x].info = events[x].info
    BY <2>1, <2>2, ReleaseOne
  <2>4. ASSUME NEW t \in Trackers, held[t] # 0
        PROVE  held[t] \in DOMAIN live
    <3>1. held[t] \in DOMAIN events
      BY <1>1, <2>4 DEF Held
    <3>2. Holds(held[t], held, 0) # 0
      BY HoldsPositive
    <3> QED BY <2>3, <3>1, <3>2
  <2>5. Held(live, held, 0)
    BY <2>4 DEF Held
  <2> QED BY <2>3, <2>5
<1> QED BY <1>3, <1>4

(* ... and a tracker.                                                        *)
LEMMA ClearOwned ==
  ASSUME Ownership, NEW t \in Trackers, held[t] # 0
  PROVE  LET live == Released(events, held[t])
             blocks == heap \ Freed(events, held[t])
             h == [held EXCEPT ![t] = 0]
         IN /\ Typed(live) /\ Counted(live, h, current) /\ Held(live, h, current)
            /\ Allocated(live, blocks) /\ Known(live, blocks)
            /\ DOMAIN live \subseteq DOMAIN events
            /\ \A x \in DOMAIN live : live[x].info = events[x].info
<1> DEFINE live == Released(events, held[t])
           blocks == heap \ Freed(events, held[t])
           h == [held EXCEPT ![t] = 0]
<1>1. /\ Typed(events) /\ Counted(events, held, current)
      /\ Held(events, held, current) /\ Allocated(events, heap)
      /\ Known(events, heap)
  BY OwnershipParts
<1>2. made \in Nat /\ opens \in Nat /\ current \in Nat
      /\ held \in [Trackers -> Nat]
  BY DEF Ownership, TypeOK
<1>3. held[t] \in DOMAIN events
  BY <1>1 DEF Held
<1>9. h[t] = 0 /\ \A u \in Trackers : u # t => h[u] = held[u]
  BY <1>2
<1>10. \A u \in Trackers : h[u] # 0 => h[u] = held[u]
  BY <1>9
<1> HIDE DEF h
<1>4. /\ Holds(held[t], h, current) = Holds(held[t], held, current) - 1
      /\ \A x : x # held[t] /\ x # 0 => Holds(x, h, current) = Holds(x, held, current)
  BY <1>9, HoldsLess
<1>11. ASSUME NEW e, e = held[t]
       PROVE  /\ Typed(Released(events, e))
              /\ Counted(Released(events, e), h, current)
              /\ Allocated(Released(events, e), heap \ Freed(events, e))
              /\ Known(Released(events, e), heap \ Freed(events, e))
              /\ DOMAIN Released(events, e) \subseteq DOMAIN events
              /\ \A x \in DOMAIN events : x # e \/ Holds(e, h, current) # 0
                   => x \in DOMAIN Released(events, e)
              /\ \A x \in DOMAIN Released(events, e) :
                   Released(events, e)[x].info = events[x].info
  <2>2. e \in DOMAIN events /\ Holds(e, h, current) = Holds(e, held, current) - 1
    BY <1>3, <1>4, <1>11
  <2>3. \A x : x # e /\ x # 0 => Holds(x, h, current) = Holds(x, held, current)
    BY <1>4, <1>11
  <2> QED BY <2>2, <2>3, ReleaseOne
<1>5. /\ Typed(live) /\ Counted(live, h, current) /\ Allocated(live, blocks)
      /\ Known(live, blocks) /\ DOMAIN live \subseteq DOMAIN events
      /\ \A x \in DOMAIN events : x # held[t] \/ Holds(held[t], h, current) # 0
           => x \in DOMAIN live
      /\ \A x \in DOMAIN live : live[x].info = events[x].info
  BY <1>11
<1>6. ASSUME NEW u \in Trackers, h[u] # 0
      PROVE  h[u] \in DOMAIN live
  <2>1. h[u] = held[u] /\ held[u] \in DOMAIN events
    BY <1>1, <1>10, <1>6 DEF Held
  <2>2. Holds(h[u], h, current) # 0
    BY HoldsPositive
  <2> QED BY <1>5, <2>1, <2>2
<1>7. ASSUME current # 0
      PROVE  current \in DOMAIN live
  <2>1. current \in DOMAIN events
    BY <1>1, <1>7 DEF Held
  <2>2. Holds(current, h, current) # 0
    <3>1. IsFiniteSet({u \in Trackers : h[u] = current})
      BY LifeAssumption, FS_Subset, {u \in Trackers : h[u] = current} \subseteq Trackers
    <3>2. Cardinality({u \in Trackers : h[u] = current}) \in Nat
      BY <3>1, FS_CardinalityType
    <3>3. Holds(current, h, current)
            = Cardinality({u \in Trackers : h[u] = current}) + 1
      BY DEF Holds
    <3> QED BY <3>2, <3>3
  <2> QED BY <1>5, <2>1, <2>2
<1>8. Held(live, h, current)
  BY <1>6, <1>7 DEF Held
<1> QED BY <1>5, <1>8 DEF h

(* Ownership of the next state, from its parts.                              *)
LEMMA OwnershipNext ==
  ASSUME Typed(events)', Counted(events, held, current)',
         Held(events, held, current)', Allocated(events, heap)',
         Known(events, heap)',
         kds' \in {"none", "live", "freed"}, opens' \in Nat,
         infos' \subseteq 1..opens', made' \in Nat, current' \in Nat,
         held' \in [Trackers -> Nat], heap' \subseteq (1..made') \X Blocks
  PROVE  Ownership'
BY DEF Ownership, TypeOK, CountIsHolders, HeldIsLive, OwnedIsAllocated,
       LostIsKnown, Typed, Counted, Held, Allocated, Known, Holds, Holders

LEMMA InitEmpty == Init => DOMAIN events = {}
BY DEF Init

LEMMA OwnershipInit == Init => Ownership
<1> SUFFICES ASSUME Init PROVE Ownership
  OBVIOUS
<1>1. DOMAIN events = {}
  BY InitEmpty
<1>2. current = 0 /\ \A t \in Trackers : held[t] = 0
  BY DEF Init
<1>3. TypeOK
  BY <1>1 DEF Init, TypeOK
<1> QED BY <1>1, <1>2, <1>3 DEF Init, Ownership, CountIsHolders, HeldIsLive,
           OwnedIsAllocated, LostIsKnown

LEMMA PartsType ==
  ASSUME NEW c \in Contents
  PROVE  /\ Parts(c) \in SUBSET Blocks
         /\ \A n \in 0..Len(c.parts) : {c.parts[i] : i \in 1..n} \subseteq Blocks
<1>1. \A i \in 1..Len(c.parts) : c.parts[i] \in Blocks
  BY LifeAssumption DEF Blocks
<1>2. Len(c.parts) \in Nat
  BY LifeAssumption
<1> QED BY <1>1, <1>2 DEF Parts

(* Whatever a packet allocates, the guard has it or it is among the loose.   *)
LEMMA KnownParts ==
  ASSUME NEW c \in Contents, NEW n \in 0..Len(c.parts)
  PROVE  {c.parts[i] : i \in 1..n} \ Guarded \subseteq Loose
<1>1. c.parts \in Seq(Guarded \cup Loose)
  BY LifeAssumption
<1> QED BY <1>1

(* The event that a text packet makes: one holder, all its blocks.           *)
LEMMA DecodeTextOwned ==
  ASSUME Ownership, NEW c \in Contents, DecodeText(c)
  PROVE  Ownership'
<1> DEFINE live == Released(events, current)
           blocks == heap \ Freed(events, current)
           new == [trackers |-> 1, parts |-> Parts(c), info |-> opens, content |-> c]
<1>1. /\ Typed(live) /\ Counted(live, held, 0) /\ Held(live, held, 0)
      /\ Allocated(live, blocks) /\ Known(live, blocks)
      /\ DOMAIN live \subseteq DOMAIN events
  BY LetGoOwned
<1>2. /\ kds = "live" /\ made \in Nat /\ opens \in Nat /\ infos \subseteq 1..opens
      /\ held \in [Trackers -> Nat] /\ heap \subseteq (1..made) \X Blocks
      /\ DOMAIN events \subseteq 1..made
  BY DEF Ownership, TypeOK, DecodeText
<1>3. /\ made' = made + 1 /\ current' = made' /\ held' = held /\ opens' = opens
      /\ infos' = infos /\ kds' = kds
      /\ events' = [e \in DOMAIN live \cup {made'} |->
                      IF e = made' THEN new ELSE live[e]]
      /\ heap' = blocks \cup BlocksOf(made', Parts(c))
  BY DEF DecodeText
<1>4. Parts(c) \subseteq Blocks /\ new \in Event
  BY <1>2, PartsType DEF Event
<1>5. made' \notin DOMAIN live /\ made' \notin DOMAIN events /\ made' # 0
  BY <1>1, <1>2, <1>3
<1> HIDE DEF live, blocks
<1>6. /\ DOMAIN events' = DOMAIN live \cup {made'}
      /\ events'[made'] = new
      /\ \A e \in DOMAIN live : events'[e] = live[e]
  BY <1>3, <1>5
<1>7. Typed(events)'
  BY <1>1, <1>2, <1>3, <1>4, <1>6 DEF Typed
<1>8. Counted(events, held, current)'
  <2>1. \A t \in Trackers : held[t] # made'
    BY <1>1, <1>5 DEF Held
  <2>2. {t \in Trackers : held[t] = made'} = {}
    BY <2>1
  <2>3. Holds(made', held, made') = 1
    BY <2>2, FS_EmptySet DEF Holds
  <2>4. \A e \in DOMAIN live : Holds(e, held, made') = Holds(e, held, 0)
    <3>1. \A e \in DOMAIN live : e # made' /\ e # 0
      BY <1>1, <1>5 DEF Typed
    <3> QED BY <3>1 DEF Holds
  <2>5. \A e \in DOMAIN live : events'[e].trackers = Holds(e, held, made')
    BY <1>1, <1>6, <2>4 DEF Counted
  <2>6. \A e \in DOMAIN events' : events'[e].trackers = Holds(e, held', current')
    BY <1>3, <1>6, <2>3, <2>5
  <2> QED BY <2>6 DEF Counted, Holds
<1>9. Held(events, held, current)'
  BY <1>1, <1>3, <1>6 DEF Held
<1>10. Allocated(events, heap)'
  BY <1>1, <1>3, <1>6 DEF Allocated
<1>11. Known(events, heap)'
  <2>1. ASSUME NEW x \in heap'
        PROVE  /\ x = <<x[1], x[2]>>
               /\ IF x[1] \in DOMAIN events'
                  THEN x[2] \in events'[x[1]].parts \cup {"event"}
                  ELSE x[2] \in Loose \cup LeftBehind
    <3>1. CASE x \in BlocksOf(made', Parts(c))
      BY <1>6, <3>1 DEF BlocksOf
    <3>2. CASE x \in blocks
      <4>1. x[1] # made'
        BY <1>2, <1>3, <3>2 DEF blocks
      <4> QED BY <1>1, <1>6, <3>2, <4>1 DEF Known
    <3> QED BY <1>3, <2>1, <3>1, <3>2
  <2> QED BY <2>1 DEF Known
<1>12. heap' \subseteq (1..made') \X Blocks
  <2>1. blocks \subseteq (1..made') \X Blocks
    BY <1>2, <1>3 DEF blocks
  <2>2. BlocksOf(made', Parts(c)) \subseteq (1..made') \X Blocks
    <3>1. made' \in 1..made' /\ Parts(c) \cup {"event"} \subseteq Blocks
      BY <1>2, <1>3, <1>4 DEF Blocks
    <3>2. \A x \in BlocksOf(made', Parts(c)) :
            \E b \in Parts(c) \cup {"event"} : x = <<made', b>>
      BY DEF BlocksOf
    <3> QED BY <3>1, <3>2
  <2> QED BY <1>3, <2>1, <2>2
<1> QED BY <1>2, <1>3, <1>7, <1>8, <1>9, <1>10, <1>11, <1>12, OwnershipNext

(* A packet that fails: only what the guard does not have is left.           *)
LEMMA DecodeFailsOwned ==
  ASSUME Ownership, NEW c \in Contents, NEW n \in 0..Len(c.parts),
         DecodeFails(c, n)
  PROVE  Ownership'
<1> DEFINE live == Released(events, current)
           blocks == heap \ Freed(events, current)
           lost == LostOnError({c.parts[i] : i \in 1..n})
<1>1. /\ Typed(live) /\ Counted(live, held, 0) /\ Held(live, held, 0)
      /\ Allocated(live, blocks) /\ Known(live, blocks)
      /\ DOMAIN live \subseteq DOMAIN events
  BY LetGoOwned
<1>2. /\ kds = "live" /\ made \in Nat /\ opens \in Nat /\ infos \subseteq 1..opens
      /\ held \in [Trackers -> Nat] /\ heap \subseteq (1..made) \X Blocks
      /\ DOMAIN events \subseteq 1..made
  BY DEF Ownership, TypeOK, DecodeFails
<1>3. /\ made' = made + 1 /\ current' = 0 /\ held' = held /\ opens' = opens
      /\ infos' = infos /\ kds' = kds /\ events' = live
      /\ heap' = blocks \cup {<<made', b>> : b \in lost}
  BY DEF DecodeFails
<1>4. lost \subseteq Blocks
  BY PartsType DEF LostOnError
<1>5. lost \subseteq Loose \cup LeftBehind
  BY KnownParts DEF LostOnError
<1> HIDE DEF live, blocks, lost
<1>6. made' \notin DOMAIN live
  BY <1>1, <1>2, <1>3
<1>7. Typed(events)' /\ Counted(events, held, current)' /\ Held(events, held, current)'
  <2>1. Typed(events)'
    BY <1>1, <1>2, <1>3 DEF Typed
  <2>2. Counted(events, held, current)'
    BY <1>1, <1>3 DEF Counted, Holds
  <2>3. Held(events, held, current)'
    BY <1>1, <1>3 DEF Held
  <2> QED BY <2>1, <2>2, <2>3
<1>8. Allocated(events, heap)'
  BY <1>1, <1>3 DEF Allocated
<1>9. Known(events, heap)'
  <2>1. ASSUME NEW x \in heap'
        PROVE  /\ x = <<x[1], x[2]>>
               /\ IF x[1] \in DOMAIN events'
                  THEN x[2] \in events'[x[1]].parts \cup {"event"}
                  ELSE x[2] \in Loose \cup LeftBehind
    <3>1. CASE x \in blocks
      BY <1>1, <1>3, <3>1 DEF Known
    <3>2. CASE x \notin blocks
      <4>1. PICK b \in lost : x = <<made', b>>
        BY <1>3, <2>1, <3>2
      <4> QED BY <1>3, <1>5, <1>6, <4>1
    <3> QED BY <3>1, <3>2
  <2> QED BY <2>1 DEF Known
<1>10. heap' \subseteq (1..made') \X Blocks
  <2>1. blocks \subseteq (1..made') \X Blocks
    BY <1>2, <1>3 DEF blocks
  <2> QED BY <1>2, <1>3, <1>4, <2>1
<1> QED BY <1>2, <1>3, <1>7, <1>8, <1>9, <1>10, OwnershipNext

LEMMA TrackerInitOwned ==
  ASSUME Ownership, NEW t \in Trackers, TrackerInit(t)
  PROVE  Ownership'
<1>1. /\ Typed(events) /\ Counted(events, held, current)
      /\ Held(events, held, current) /\ Allocated(events, heap)
      /\ Known(events, heap)
  BY OwnershipParts
<1>2. /\ kds \in {"none", "live", "freed"} /\ made \in Nat /\ opens \in Nat
      /\ infos \subseteq 1..opens /\ current \in Nat
      /\ held \in [Trackers -> Nat] /\ heap \subseteq (1..made) \X Blocks
  BY DEF Ownership, TypeOK
<1>3. PICK e \in ({current} \cup {held[u] : u \in Trackers}) \ {0} :
        events' = Tracked(events, e) /\ held' = [held EXCEPT ![t] = e]
  BY DEF TrackerInit
<1>4. held[t] = 0 /\ UNCHANGED <<kds, infos, opens, made, current, heap>>
  BY DEF TrackerInit
<1>5. e \in DOMAIN events /\ e \in Nat \ {0} /\ events[e] \in Event
  BY <1>1, <1>2 DEF Held, Typed
<1>6. /\ DOMAIN events' = DOMAIN events
      /\ events'[e] = [events[e] EXCEPT !.trackers = @ + 1]
      /\ \A x \in DOMAIN events : x # e => events'[x] = events[x]
  BY <1>3, <1>5 DEF Tracked
<1>7. /\ events'[e] \in Event /\ events'[e].parts = events[e].parts
      /\ events'[e].trackers = events[e].trackers + 1
  BY <1>5, <1>6 DEF Event
<1>8. held' \in [Trackers -> Nat] /\ held'[t] = e
      /\ \A u \in Trackers : u # t => held'[u] = held[u]
  BY <1>2, <1>3, <1>5
<1>9. Typed(events)'
  BY <1>1, <1>4, <1>6, <1>7 DEF Typed
<1>10. Counted(events, held, current)'
  <2>1. /\ Holds(e, held', current) = Holds(e, held, current) + 1
        /\ \A x : x # e /\ x # 0 => Holds(x, held', current) = Holds(x, held, current)
    BY <1>4, <1>5, <1>8, HoldsMore
  <2>2. \A x \in DOMAIN events : x # 0
    BY <1>1 DEF Typed
  <2>3. \A x \in DOMAIN events : events'[x].trackers = Holds(x, held', current)
    BY <1>1, <1>6, <1>7, <2>1, <2>2 DEF Counted
  <2> QED BY <1>4, <1>6, <2>3 DEF Counted, Holds
<1>11. Held(events, held, current)'
  BY <1>1, <1>4, <1>5, <1>6, <1>8 DEF Held
<1>12. \A x \in DOMAIN events : events'[x].parts = events[x].parts
  BY <1>6, <1>7
<1>13. Allocated(events, heap)' /\ Known(events, heap)'
  BY <1>1, <1>4, <1>6, <1>12 DEF Allocated, Known
<1> QED BY <1>2, <1>4, <1>8, <1>9, <1>10, <1>11, <1>13, OwnershipNext

LEMMA TrackerClearOwned ==
  ASSUME Ownership, NEW t \in Trackers, TrackerClear(t)
  PROVE  Ownership'
<1>1. /\ kds \in {"none", "live", "freed"} /\ made \in Nat /\ opens \in Nat
      /\ infos \subseteq 1..opens /\ current \in Nat
      /\ held \in [Trackers -> Nat] /\ heap \subseteq (1..made) \X Blocks
  BY DEF Ownership, TypeOK
<1>2. /\ held[t] # 0 /\ events' = Released(events, held[t])
      /\ heap' = heap \ Freed(events, held[t]) /\ held' = [held EXCEPT ![t] = 0]
      /\ UNCHANGED <<kds, infos, opens, made, current>>
  BY DEF TrackerClear
<1>3. /\ Typed(events') /\ Counted(events', held', current)
      /\ Held(events', held', current)
      /\ Allocated(events', heap') /\ Known(events', heap')
  BY <1>2, ClearOwned
<1>4. Typed(events)' /\ Counted(events, held, current)' /\ Held(events, held, current)'
  BY <1>2, <1>3 DEF Typed, Counted, Held, Holds
<1>5. Allocated(events, heap)' /\ Known(events, heap)'
  BY <1>3 DEF Allocated, Known
<1>6. held' \in [Trackers -> Nat] /\ heap' \subseteq (1..made') \X Blocks
  BY <1>1, <1>2
<1> QED BY <1>1, <1>2, <1>4, <1>5, <1>6, OwnershipNext

LEMMA OwnershipStep == Ownership /\ [Next]_vars => Ownership'
<1> SUFFICES ASSUME Ownership, [Next]_vars PROVE Ownership'
  OBVIOUS
<1>1. /\ Typed(events) /\ Counted(events, held, current)
      /\ Held(events, held, current) /\ Allocated(events, heap)
      /\ Known(events, heap)
  BY OwnershipParts
<1>2. /\ kds \in {"none", "live", "freed"} /\ made \in Nat /\ opens \in Nat
      /\ infos \subseteq 1..opens /\ current \in Nat
      /\ held \in [Trackers -> Nat] /\ heap \subseteq (1..made) \X Blocks
  BY DEF Ownership, TypeOK
<1>3. ASSUME UNCHANGED <<made, events, current, held, heap>>,
             kds' \in {"none", "live", "freed"}, opens' \in Nat,
             infos' \subseteq 1..opens'
      PROVE  Ownership'
  <2>1. Typed(events)' /\ Counted(events, held, current)' /\ Held(events, held, current)'
    BY <1>1, <1>3 DEF Typed, Counted, Held, Holds
  <2>2. Allocated(events, heap)' /\ Known(events, heap)'
    BY <1>1, <1>3 DEF Allocated, Known
  <2> QED BY <1>2, <1>3, <2>1, <2>2, OwnershipNext
<1>4. ASSUME LetGo, UNCHANGED <<made, held>>,
             kds' \in {"none", "live", "freed"}, opens' = opens,
             infos' \subseteq infos
      PROVE  Ownership'
  <2>1. events' = Released(events, current) /\ current' = 0
        /\ heap' = heap \ Freed(events, current)
    BY <1>4 DEF LetGo
  <2>2. /\ Typed(events') /\ Counted(events', held, 0) /\ Held(events', held, 0)
        /\ Allocated(events', heap') /\ Known(events', heap')
    BY <2>1, LetGoOwned
  <2>3. Typed(events)' /\ Counted(events, held, current)' /\ Held(events, held, current)'
    BY <1>4, <2>1, <2>2 DEF Typed, Counted, Held, Holds
  <2>4. Allocated(events, heap)' /\ Known(events, heap)'
    BY <2>2 DEF Allocated, Known
  <2> QED BY <1>2, <1>4, <2>1, <2>3, <2>4, OwnershipNext
<1>5. CASE Open
  BY <1>2, <1>3, <1>5 DEF Open
<1>6. CASE OpenFails
  BY <1>2, <1>3, <1>6 DEF OpenFails
<1>7. CASE DecodeOther
  BY <1>2, <1>4, <1>7 DEF DecodeOther
<1>8. CASE Close
  BY <1>2, <1>4, <1>8 DEF Close
<1>9. ASSUME NEW c \in Contents, DecodeText(c)
      PROVE  Ownership'
  BY <1>9, DecodeTextOwned
<1>10. ASSUME NEW c \in Contents, NEW n \in 0..Len(c.parts), DecodeFails(c, n)
       PROVE  Ownership'
  BY <1>10, DecodeFailsOwned
<1>11. ASSUME NEW t \in Trackers, TrackerInit(t)
       PROVE  Ownership'
  BY <1>11, TrackerInitOwned
<1>12. ASSUME NEW t \in Trackers, TrackerClear(t)
       PROVE  Ownership'
  BY <1>12, TrackerClearOwned
<1>13. ASSUME NEW t \in Trackers, NEW time \in Times, TrackerUpdate(t, time)
       PROVE  Ownership'
  BY <1>2, <1>3, <1>13 DEF TrackerUpdate
<1>14. CASE UNCHANGED vars
  BY <1>2, <1>3, <1>14 DEF vars
<1> QED BY <1>5, <1>6, <1>7, <1>8, <1>9, <1>10, <1>11, <1>12, <1>13, <1>14 DEF Next

(* No event is lost, freed twice or used after it is freed, whatever packets *)
(* fail where, and whatever trackers come and go.                            *)
THEOREM EventsAreOwned ==
  Spec => [](TypeOK /\ CountIsHolders /\ HeldIsLive /\ OwnedIsAllocated /\ LostIsKnown)
<1>1. Init => Ownership
  BY OwnershipInit
<1>2. Ownership /\ [Next]_vars => Ownership'
  BY OwnershipStep
<1>3. Ownership =>
        TypeOK /\ CountIsHolders /\ HeldIsLive /\ OwnedIsAllocated /\ LostIsKnown
  BY DEF Ownership
<1> QED BY <1>1, <1>2, <1>3, PTL DEF Spec

(* When the stream is closed with no tracker left, no event is.              *)
LEMMA ClosedEmpty ==
  ASSUME Ownership, \A t \in Trackers : held[t] = 0, LetGo
  PROVE  DOMAIN events' = {}
<1> DEFINE live == Released(events, current)
<1>1. /\ Typed(live) /\ Counted(live, held, 0)
  BY LetGoOwned
<1>2. events' = live
  BY DEF LetGo
<1> SUFFICES ASSUME NEW e \in DOMAIN live PROVE FALSE
  BY <1>2
<1>3. e # 0 /\ live[e].trackers # 0
  BY <1>1 DEF Typed, Event
<1>4. {t \in Trackers : held[t] = e} = {}
  BY <1>3
<1>5. Holds(e, held, 0) = 0
  BY <1>3, <1>4, FS_EmptySet DEF Holds
<1> QED BY <1>1, <1>3, <1>5 DEF Counted

LEMMA InfoStep ==
  ASSUME "trackers first" \in Promises
  PROVE  Ownership /\ InfoOK /\ [Next]_vars => InfoOK'
<1> SUFFICES ASSUME Ownership, InfoOK, [Next]_vars PROVE InfoOK'
  OBVIOUS
<1>1. ASSUME DOMAIN events' \subseteq DOMAIN events, UNCHANGED <<kds, opens, infos>>,
             \A e \in DOMAIN events' : events'[e].info = events[e].info
      PROVE  InfoOK'
  BY <1>1 DEF InfoOK
<1>2. LetGo => /\ DOMAIN events' \subseteq DOMAIN events
               /\ \A e \in DOMAIN events' : events'[e].info = events[e].info
  BY LetGoOwned DEF LetGo
<1>3. CASE Open
  BY <1>3 DEF Open, InfoOK
<1>4. CASE OpenFails
  BY <1>4 DEF OpenFails, InfoOK
<1>5. CASE DecodeOther
  BY <1>1, <1>2, <1>5 DEF DecodeOther
<1>6. CASE Close
  <2>1. DOMAIN events' = {} /\ kds' = "none"
    BY <1>6, ClosedEmpty DEF Close
  <2> QED BY <2>1 DEF InfoOK
<1>7. ASSUME NEW c \in Contents, DecodeText(c)
      PROVE  InfoOK'
  <2> DEFINE live == Released(events, current)
  <2>1. /\ DOMAIN live \subseteq DOMAIN events
        /\ \A x \in DOMAIN live : live[x].info = events[x].info
    BY LetGoOwned
  <2>2. kds = "live" /\ kds' = kds /\ infos' = infos /\ opens' = opens
    BY <1>7 DEF DecodeText
  <2>3. \A e \in DOMAIN events' : events'[e].info = opens
    <3>1. \A e \in DOMAIN live : live[e].info = opens
      BY <2>1 DEF InfoOK
    <3>2. events' = [e \in DOMAIN live \cup {made'} |->
                      IF e = made' THEN [trackers |-> 1, parts |-> Parts(c),
                                         info |-> opens, content |-> c]
                      ELSE live[e]]
      BY <1>7 DEF DecodeText
    <3> HIDE DEF live
    <3> QED BY <3>1, <3>2
  <2> QED BY <2>2, <2>3 DEF InfoOK
<1>8. ASSUME NEW c \in Contents, NEW n \in 0..Len(c.parts), DecodeFails(c, n)
      PROVE  InfoOK'
  BY <1>1, <1>8, LetGoOwned DEF DecodeFails
<1>9. ASSUME NEW t \in Trackers, TrackerInit(t)
      PROVE  InfoOK'
  <2>1. PICK e \in ({current} \cup {held[u] : u \in Trackers}) \ {0} :
          events' = Tracked(events, e)
    BY <1>9 DEF TrackerInit
  <2>2. e \in DOMAIN events /\ events[e] \in Event
    BY DEF Ownership, HeldIsLive, TypeOK
  <2>3. DOMAIN events' = DOMAIN events
        /\ \A x \in DOMAIN events : events'[x].info = events[x].info
    BY <2>1, <2>2 DEF Tracked, Event
  <2> QED BY <1>1, <1>9, <2>3 DEF TrackerInit
<1>10. ASSUME NEW t \in Trackers, TrackerClear(t)
       PROVE  InfoOK'
  <2>1. held[t] # 0
    BY <1>10 DEF TrackerClear
  <2> QED BY <1>1, <1>10, <2>1, ClearOwned DEF TrackerClear
<1>11. ASSUME NEW t \in Trackers, NEW time \in Times, TrackerUpdate(t, time)
       PROVE  InfoOK'
  BY <1>1, <1>11 DEF TrackerUpdate
<1>12. CASE UNCHANGED vars
  BY <1>1, <1>12 DEF vars
<1> QED BY <1>3, <1>4, <1>5, <1>6, <1>7, <1>8, <1>9, <1>10, <1>11, <1>12 DEF Next

(* A client that clears its trackers before it closes the stream never has   *)
(* an event that refers to a kate_info that is gone.                         *)
THEOREM InfoOutlivesEvents ==
  ASSUME "trackers first" \in Promises
  PROVE  Spec => []NoStaleInfo
<1>1. Init => Ownership /\ InfoOK
  <2> SUFFICES ASSUME Init PROVE Ownership /\ InfoOK
    OBVIOUS
  <2>1. DOMAIN events = {}
    BY InitEmpty
  <2>2. kds = "none"
    BY DEF Init
  <2> QED BY <2>1, <2>2, OwnershipInit DEF InfoOK
<1>2. Ownership /\ InfoOK /\ [Next]_vars => (Ownership /\ InfoOK)'
  BY OwnershipStep, InfoStep
<1>3. InfoOK => NoStaleInfo
  BY DEF InfoOK, NoStaleInfo
<1> QED BY <1>1, <1>2, <1>3, PTL DEF Spec

-----------------------------------------------------------------------------
(* What trackers show.                                                       *)

EachHas == DOMAIN has = Trackers

(* What an update may make of what a tracker shows, for an event that holds c*)
(* and the motions that lead somewhere at the time, now.                     *)
Led == (Simple \ {"hmargins", "vmargins"}) \cup {"align_ext"}

LEMMA ShownOfEvent ==
  ASSUME NEW c
  PROVE  FromEvent(c) \cap Led = {} /\ "align_ext" \notin FromEvent(c)
BY DEF FromEvent, Led, Simple, Colors

LEMMA ShownOfMotions ==
  ASSUME NEW c, NEW now
  PROVE  /\ TrackerHas(c, now) \cap Led = now \cap Led
         /\ ~({"align_int", "align_ext"} \subseteq TrackerHas(c, now))
<1> DEFINE morph == IF "style_morph" \in now /\ c.style /\ c.style2
                    THEN Colors \cup {"align_int", "hmargins", "vmargins"} ELSE {}
           region == IF c.region
                     THEN {IF s = "visible_section" THEN s ELSE "region" :
                             s \in now \cap OfRegion} ELSE {}
           path == IF "text_path" \in DOMAIN c.motions THEN {"path"} ELSE {}
           frames == IF c.pictures THEN {Framed[p] : p \in now \cap DOMAIN Framed} \cap now
                     ELSE {}
           inner == FromEvent(c) \cup morph \cup (now \cap {"align_int"})
           aligned == IF "align_ext" \in now THEN (inner \ {"align_int"}) \cup {"align_ext"}
                      ELSE inner
           others == region \cup path \cup frames
<1>1. TrackerHas(c, now) = aligned \cup others \cup (now \cap (Simple \cup Colors))
  BY DEF TrackerHas
<1>2. inner \cap Simple \subseteq {"hmargins", "vmargins"} /\ "align_ext" \notin inner
  <2>1. morph \subseteq Colors \cup {"align_int", "hmargins", "vmargins"}
    OBVIOUS
  <2>2. FromEvent(c) \subseteq Colors \cup {"align_int", "region"}
    BY DEF FromEvent
  <2>3. inner \subseteq Colors \cup {"align_int", "region", "hmargins", "vmargins"}
    BY <2>1, <2>2
  <2> QED BY <2>3 DEF Colors, Simple
<1>3. others \subseteq {"region", "visible_section", "path", "glyph_pointer_bitmap",
                        "marker_bitmap"}
  <2>1. region \subseteq {"region", "visible_section"}
    OBVIOUS
  <2>2. frames \subseteq {"glyph_pointer_bitmap", "marker_bitmap"}
    BY DEF Framed
  <2> QED BY <2>1, <2>2
<1>4. others \cap Led = {} /\ "align_int" \notin others /\ "align_ext" \notin others
  BY <1>3 DEF Led, Simple
<1>5. (Simple \cup Colors) \cap {"align_int", "align_ext"} = {}
  BY DEF Simple, Colors
<1> HIDE DEF inner, others
<1>6. aligned \cap Led = now \cap {"align_ext"}
  BY <1>2 DEF Led
<1>7. ~({"align_int", "align_ext"} \subseteq aligned)
  BY <1>2
<1>8. "align_ext" \in aligned <=> "align_ext" \in now
  BY <1>2
<1> HIDE DEF aligned
<1>9. (now \cap (Simple \cup Colors)) \cap Led = now \cap (Led \ {"align_ext"})
  BY DEF Led, Simple, Colors
<1>10. TrackerHas(c, now) \cap Led = now \cap Led
  BY <1>1, <1>4, <1>6, <1>9 DEF Led
<1>11. ~({"align_int", "align_ext"} \subseteq TrackerHas(c, now))
  BY <1>1, <1>4, <1>5, <1>7
<1> QED BY <1>10, <1>11

(* What TrackerShowsNow says of a step.                                      *)
ShowsNow ==
  \A t \in Trackers, time \in Times : TrackerUpdate(t, time) =>
    LET c == events[held[t]].content
        at == IF "time" \in Leads(c, time) THEN c.warped ELSE time
        seen == has'[t]
        led == (Simple \ {"hmargins", "vmargins"}) \cup {"align_ext"}
    IN /\ ~({"align_int", "align_ext"} \subseteq seen)
       /\ seen \cap led = Leads(c, at) \cap led

LEMMA UpdateShowsNow == EachHas => ShowsNow
<1> SUFFICES ASSUME EachHas, NEW t \in Trackers, NEW time \in Times,
                    TrackerUpdate(t, time)
             PROVE  LET c == events[held[t]].content
                        at == IF "time" \in Leads(c, time) THEN c.warped ELSE time
                    IN /\ ~({"align_int", "align_ext"} \subseteq has'[t])
                       /\ has'[t] \cap Led = Leads(c, at) \cap Led
  BY Zenon DEF ShowsNow, Led
<1> DEFINE c == events[held[t]].content
           at == IF "time" \in Leads(c, time) THEN c.warped ELSE time
<1>1. has'[t] = IF DOMAIN c.motions = {} THEN FromEvent(c)
                ELSE TrackerHas(c, Leads(c, at))
  BY DEF TrackerUpdate, EachHas, Warped
<1> HIDE DEF c
<1>2. CASE DOMAIN c.motions = {}
  <2>1. Leads(c, at) = {}
    BY <1>2 DEF Leads
  <2>2. "align_ext" \notin FromEvent(c) /\ FromEvent(c) \cap Led = {}
    BY ShownOfEvent
  <2> HIDE DEF at
  <2> QED BY <1>1, <1>2, <2>1, <2>2 DEF c, at
<1>3. CASE DOMAIN c.motions # {}
  <2> HIDE DEF at
  <2> QED BY <1>1, <1>3, ShownOfMotions DEF c, at
<1> QED BY <1>2, <1>3

LEMMA EachHasStep == EachHas /\ [Next]_vars => EachHas'
<1> SUFFICES ASSUME EachHas, [Next]_vars PROVE EachHas'
  OBVIOUS
<1>1. CASE UNCHANGED has
  BY <1>1 DEF EachHas
<1>2. ASSUME NEW t \in Trackers, NEW x, has' = [has EXCEPT ![t] = x]
      PROVE  EachHas'
  BY <1>2 DEF EachHas
<1>3. ASSUME NEW t \in Trackers, NEW time \in Times, TrackerUpdate(t, time)
      PROVE  EachHas'
  BY <1>3 DEF TrackerUpdate, EachHas
<1>4. ASSUME NEW t \in Trackers, TrackerInit(t) \/ TrackerClear(t)
      PROVE  EachHas'
  BY <1>2, <1>4 DEF TrackerInit, TrackerClear
<1> QED BY <1>1, <1>3, <1>4
        DEF Next, Open, OpenFails, DecodeOther, Close, DecodeText, DecodeFails, vars

(* At each update a tracker shows the places its motions lead to at that     *)
(* time, or at the one the motion of time leads to, no others whatever it    *)
(* showed before, and text aligned one way.                                  *)
THEOREM TrackersShowNow == Spec => TrackerShowsNow
<1>1. Init => EachHas
  BY DEF Init, EachHas
<1>2. EachHas /\ [Next]_vars => EachHas'
  BY EachHasStep
<1>3. EachHas => ShowsNow
  BY UpdateShowsNow
<1> QED BY <1>1, <1>2, <1>3, PTL DEF Spec, TrackerShowsNow, ShowsNow
=============================================================================
