--------------------------- MODULE KateEventLife ---------------------------
(***************************************************************************)
(* Who owns what a decoder allocates: src/src/kate_event.c, kate_tracker.c,*)
(* the memory guard and the text packets of kate_decode.c, the life of a   *)
(* kate_state in kate_high.c.                                              *)
(*                                                                         *)
(* An event is counted: the decoder holds the one it decoded last, each    *)
(* tracker holds one, and whoever lets go last destroys it.  While a       *)
(* packet is read, what is allocated belongs to a memory guard, which      *)
(* frees it all if the packet fails; but some parts are allocated without  *)
(* the guard, and some are not freed with the event.  An event refers to   *)
(* the kate_info of its stream and does not own it.                        *)
(*                                                                         *)
(* The second half is what a tracker shows of its event at a time.         *)
(***************************************************************************)
EXTENDS Integers, Sequences, FiniteSets

CONSTANTS
  Trackers,        (* the kate_trackers of the client                         *)
  Contents,        (* what text packets may hold                              *)
  Times,           (* the times trackers may be updated to                    *)
  MaxEvents,       (* bound: events made                                      *)
  MaxOpens,        (* bound: streams opened                                   *)
  Promises         (* "trackers first": they are cleared before the stream    *)

(* The blocks a text packet allocates through its guard ...                  *)
Guarded == {"text", "motions", "motion", "curves", "durations", "curve",
            "points", "language", "region", "style", "font", "style2",
            "font2", "palette", "bitmap", "bitmaps", "image"}
(* ... and those it does not.                                                *)
Loose == {"motion_meta", "region_meta", "style_meta", "style2_meta", "colors",
          "palette_meta", "pixels", "bitmap_meta", "image_pixels",
          "image_meta", "meta"}

Blocks == Guarded \cup Loose \cup {"event"}

(* parts: the blocks its decoding allocates, in order; the rest is what a    *)
(* tracker reads: whether it has a region, a style of its own or by its      *)
(* region, a second style, pictures for pointers, how long it lasts, and     *)
(* for each motion the times at which it leads somewhere, warped saying      *)
(* where the motion of time leads.                                           *)
ASSUME LifeAssumption ==
  /\ IsFiniteSet(Trackers)
  /\ MaxEvents \in Nat /\ MaxOpens \in Nat
  /\ \A c \in Contents : c.parts \in Seq(Guarded \cup Loose)

VARIABLES
  kds,             (* k->kds: "none", "live", or "freed" by a failed init     *)
  infos,           (* the kate_infos that have not been cleared               *)
  opens,           (* the streams opened so far                               *)
  made,            (* the events made so far                                  *)
  events,          (* the events that live                                    *)
  current,         (* kds->event, 0 for none                                  *)
  held,            (* what each tracker holds, 0 for nothing                  *)
  has,             (* what each tracker showed at its last update             *)
  heap             (* the blocks allocated and not freed, each with its event *)

vars == <<kds, infos, opens, made, events, current, held, has, heap>>

BlocksOf(e, parts) == {<<e, b>> : b \in parts \cup {"event"}}
Parts(c) == {c.parts[i] : i \in 1..Len(c.parts)}

(* What kate_event_destroy leaves behind of an event it frees.               *)
LeftBehind == {"region_meta", "style_meta", "font2", "style2_meta",
               "palette_meta", "bitmap_meta", "image_meta"}

Init ==
  /\ kds = "none" /\ infos = {} /\ opens = 0 /\ made = 0
  /\ events = <<>> /\ current = 0
  /\ held = [t \in Trackers |-> 0] /\ has = [t \in Trackers |-> {}]
  /\ heap = {}

(* One reference less to event e: the last destroys it.                      *)
Without(f, e) == [x \in DOMAIN f \ {e} |-> f[x]]

(* Slips: the event goes with its first release, or its blocks do while it   *)
(* stays, or a release at the last reference forgets to destroy.             *)
ReleasedAtOnce(live, e) == IF e = 0 THEN live ELSE Without(live, e)
FreedAtOnce(live, e) ==
  IF e = 0 THEN {} ELSE BlocksOf(e, live[e].parts \ LeftBehind)
ReleasedNever(live, e) ==
  IF e = 0 THEN live ELSE [live EXCEPT ![e].trackers = @ - 1]

Released(live, e) ==
  IF e = 0 THEN live
  ELSE IF live[e].trackers = 1 THEN Without(live, e)
  ELSE [live EXCEPT ![e].trackers = @ - 1]

(* The blocks of e that are freed when a reference is let go.                *)
Freed(live, e) ==
  IF e # 0 /\ live[e].trackers = 1
  THEN BlocksOf(e, live[e].parts \ LeftBehind) ELSE {}

(* kate_decode_state_clear, without a new event.                             *)
LetGo ==
  /\ events' = Released(events, current)
  /\ heap' = heap \ Freed(events, current)
  /\ current' = 0

(* kate_high_decode_init.  When it fails past the first allocation it frees  *)
(* the kate_decode_state and leaves k->kds as it is.                         *)
Open ==
  /\ kds # "live" /\ opens < MaxOpens
  /\ opens' = opens + 1
  /\ infos' = infos \cup {opens'}
  /\ kds' = "live"
  /\ UNCHANGED <<made, events, current, held, has, heap>>

OpenFails ==
  /\ kds # "live"
  /\ kds' \in {"none", "freed"}
  /\ UNCHANGED <<infos, opens, made, events, current, held, has, heap>>

(* kate_decode_text_packet: the decoder's hold on the last event goes, a new *)
(* event is made and tracked; at the end its guard lets go of the blocks.    *)
DecodeText(c) ==
  /\ kds = "live" /\ made < MaxEvents
  /\ made' = made + 1
  /\ LET live == Released(events, current)
         new == [trackers |-> 1, parts |-> Parts(c), info |-> opens,
                 content |-> c]
     IN /\ events' = [e \in DOMAIN live \cup {made'} |->
                        IF e = made' THEN new ELSE live[e]]
        /\ heap' = (heap \ Freed(events, current))
                     \cup BlocksOf(made', Parts(c))
        /\ current' = made'
  /\ UNCHANGED <<kds, infos, opens, held, has>>

(* What a failed packet does not free of the parts it read.                  *)
LostOnError(parts) == parts \ Guarded

(* It fails, or is the repeat of a known event, when it has allocated the    *)
(* first n parts: the event goes as plain memory, the guard frees the parts  *)
(* it has.                                                                   *)
DecodeFails(c, n) ==
  /\ kds = "live" /\ made < MaxEvents
  /\ made' = made + 1
  /\ events' = Released(events, current)
  /\ heap' = (heap \ Freed(events, current))
               \cup {<<made', b>> : b \in LostOnError({c.parts[i] : i \in 1..n})}
  /\ current' = 0
  /\ UNCHANGED <<kds, infos, opens, held, has>>

(* Another packet, or a text packet for whose event there is no memory.      *)
DecodeOther ==
  /\ kds = "live" /\ current # 0
  /\ LetGo
  /\ UNCHANGED <<kds, infos, opens, made, held, has>>

(* kate_tracker_init, on an event the client has: the one decoded last, or   *)
(* one it tracks.                                                            *)
Tracked(live, e) == [live EXCEPT ![e].trackers = @ + 1]

TrackerInit(t) ==
  /\ held[t] = 0
  /\ \E e \in ({current} \cup {held[u] : u \in Trackers}) \ {0} :
       /\ events' = Tracked(events, e)
       /\ held' = [held EXCEPT ![t] = e]
  /\ has' = [has EXCEPT ![t] = {}]
  /\ UNCHANGED <<kds, infos, opens, made, current, heap>>

TrackerClear(t) ==
  /\ held[t] # 0
  /\ events' = Released(events, held[t])
  /\ heap' = heap \ Freed(events, held[t])
  /\ held' = [held EXCEPT ![t] = 0]
  /\ has' = [has EXCEPT ![t] = {}]
  /\ UNCHANGED <<kds, infos, opens, made, current>>

(* kate_high_decode_clear: the event is let go before the kate_info.         *)
Close ==
  /\ kds = "live"
  /\ "trackers first" \in Promises => \A t \in Trackers : held[t] = 0
  /\ LetGo
  /\ infos' = infos \ {opens}
  /\ kds' = "none"
  /\ UNCHANGED <<opens, made, held, has>>

-----------------------------------------------------------------------------
(* kate_tracker_update: the properties a tracker says it has at a time.      *)

Simple == {"z", "hmargins", "vmargins", "bitmap_pos", "bitmap_size",
           "text_pos", "text_size", "draw", "draw_width", "glyph_pointer",
           "marker_pos"}
Colors == {"text_color", "background_color", "draw_color"}
OfRegion == {"region_pos", "region_size", "visible_section"}

FromEvent(c) ==
  (IF c.region THEN {"region"} ELSE {})
  \cup (IF c.style \/ (c.region /\ c.regionStyle)
        THEN Colors \cup {"align_int"} ELSE {})

(* A motion leads somewhere only within the event.                           *)
Leads(c, time) ==
  {s \in DOMAIN c.motions : time \in c.motions[s] /\ time <= c.duration}

(* Slip: the motion of time is looked up last, and does not count.           *)
WarpedLate(c, time) == time

(* The time the lookups use: a motion of time comes first.                   *)
Warped(c, time) == IF "time" \in Leads(c, time) THEN c.warped ELSE time

(* The frame of a pointer or marker is looked for when it has a place.       *)
Framed == [glyph_pointer |-> "glyph_pointer_bitmap", marker_pos |-> "marker_bitmap"]

TrackerHas(c, now) ==
  LET morph == IF "style_morph" \in now /\ c.style /\ c.style2
               THEN Colors \cup {"align_int", "hmargins", "vmargins"} ELSE {}
      region == IF c.region
                THEN {IF s = "visible_section" THEN s ELSE "region" :
                        s \in now \cap OfRegion} ELSE {}
      path == IF "text_path" \in DOMAIN c.motions THEN {"path"} ELSE {}
      frames == IF c.pictures THEN {Framed[p] : p \in now \cap DOMAIN Framed} \cap now
                ELSE {}
      inner == FromEvent(c) \cup morph \cup (now \cap {"align_int"})
  IN (IF "align_ext" \in now THEN (inner \ {"align_int"}) \cup {"align_ext"}
      ELSE inner)
     \cup region \cup path \cup frames \cup (now \cap (Simple \cup Colors))

TrackerUpdate(t, time) ==
  /\ held[t] # 0
  /\ LET c == events[held[t]].content
     IN has' = [has EXCEPT ![t] =
          IF DOMAIN c.motions = {} THEN FromEvent(c)
          ELSE TrackerHas(c, Leads(c, Warped(c, time)))]
  /\ UNCHANGED <<kds, infos, opens, made, events, current, held, heap>>

Next ==
  \/ Open \/ OpenFails \/ DecodeOther \/ Close
  \/ \E c \in Contents : \/ DecodeText(c)
                         \/ \E n \in 0..Len(c.parts) : DecodeFails(c, n)
  \/ \E t \in Trackers : \/ TrackerInit(t) \/ TrackerClear(t)
                         \/ \E time \in Times : TrackerUpdate(t, time)

Spec == Init /\ [][Next]_vars

-----------------------------------------------------------------------------
Event == [trackers : Nat \ {0}, parts : SUBSET Blocks, info : Nat,
          content : Contents]

(* Every variable has its type; in particular no event that lives is without *)
(* a reference (kate_event_release destroys it with the last one).           *)
TypeOK ==
  /\ kds \in {"none", "live", "freed"}
  /\ opens \in Nat /\ infos \subseteq 1..opens
  /\ made \in Nat
  /\ DOMAIN events \subseteq 1..made
  /\ \A e \in DOMAIN events : events[e] \in Event
  /\ current \in Nat /\ held \in [Trackers -> Nat]
  /\ heap \subseteq (1..made) \X Blocks

Holders(e) == {t \in Trackers : held[t] = e}

(* An event has as many references as it has holders, the decoder being one: *)
(* none is counted twice, and none is missed, whatever packets fail and in   *)
(* whatever order trackers come and go (trackers of kate_event.c:18-143).    *)
CountIsHolders ==
  \A e \in DOMAIN events :
    events[e].trackers = Cardinality(Holders(e)) + (IF current = e THEN 1 ELSE 0)

(* What the decoder or a tracker holds has not been destroyed.               *)
HeldIsLive ==
  /\ current # 0 => current \in DOMAIN events
  /\ \A t \in Trackers : held[t] # 0 => held[t] \in DOMAIN events

(* No block of an event that lives has been freed: not by the failure of a   *)
(* later packet, nor by another holder that lets go.                         *)
OwnedIsAllocated ==
  \A e \in DOMAIN events : BlocksOf(e, events[e].parts) \subseteq heap

(* What is neither freed nor owned is of the few kinds the code does not     *)
(* free: metadata, palettes' colors and bitmaps' pixels of a packet that     *)
(* fails, metadata of parts, the font of a second style.                     *)
LostIsKnown ==
  \A x \in heap :
    IF x[1] \in DOMAIN events THEN x[2] \in events[x[1]].parts \cup {"event"}
    ELSE x[2] \in Loose \cup LeftBehind

(* No event outlives the kate_info it refers to, which its destruction reads *)
(* (kate_event.c:86-113), when the client clears its trackers first.         *)
NoStaleInfo == \A e \in DOMAIN events : events[e].info \in infos

Ownership == TypeOK /\ CountIsHolders /\ HeldIsLive /\ OwnedIsAllocated /\ LostIsKnown

(* A tracker's text is aligned one way; it has the places and the external   *)
(* alignment that a motion leads to at the time it is updated to, and no     *)
(* others, whatever it had before; that time is the one its motion of time   *)
(* leads to, if it has one.                                                  *)
TrackerShowsNow ==
  [][\A t \in Trackers, time \in Times : TrackerUpdate(t, time) =>
       LET c == events[held[t]].content
           at == IF "time" \in Leads(c, time) THEN c.warped ELSE time
           seen == has'[t]
           led == (Simple \ {"hmargins", "vmargins"}) \cup {"align_ext"}
       IN /\ ~({"align_int", "align_ext"} \subseteq seen)
          /\ seen \cap led = Leads(c, at) \cap led]_vars
=============================================================================
