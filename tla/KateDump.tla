------------------------------ MODULE KateDump ------------------------------
(***************************************************************************)
(* katedec: the Kate streams of an Ogg file, each written to a file of its *)
(* own (katedec.c, kstream.c, and what ksrt.c, klrc.c and kkate.c print).  *)
(* A page is [no, bos, packets], the number that libogg gave it and whole  *)
(* packets; libogg puts a mark in the queue of a stream where the numbers  *)
(* of its pages have a gap.  The file may have lost any page, and may end  *)
(* anywhere.                                                               *)
(*                                                                         *)
(* A packet is [serial, no, kind]: its stream, its number in it, and what  *)
(* it is: "header", which one in n, "text", an event that starts at "at"   *)
(* and lasts "for", "end", "silent" for one that gives no event, "bad" for *)
(* one that cannot be decoded, or "foreign", not of Kate.                  *)
(***************************************************************************)
EXTENDS Integers, Sequences, SequencesExt, FiniteSets

CONSTANTS
  Serials,       (* the logical streams of the file                          *)
  Inputs,        (* the files tried: the pages of each stream, in order      *)
  Headers,       (* how many headers a Kate stream has: 9 in libkate         *)
  Language,      (* the language of each stream                              *)
  Formats,       (* a subset of {"kate", "srt", "lrc"}                       *)
  Templates,     (* the output names tried: of "-", "out", "%l", "%i"        *)
  Rate,          (* granules per second, <<numerator, denominator>>          *)
  MaxLost        (* how many pages are lost, at most                         *)

Packets ==
  [serial : Serials, no : Nat, kind : {"header"}, n : 0 .. Headers - 1]
  \cup [serial : Serials, no : Nat, kind : {"text"}, at : Nat, for : Nat]
  \cup [serial : Serials, no : Nat, kind : {"silent", "end", "bad", "foreign"}]
Pages == [no : Nat, bos : BOOLEAN, packets : Seq(Packets)]

(* A multiplexer numbers the pages of each stream from the one that starts   *)
(* it, and puts the first header of Kate at the beginning of that, if it is  *)
(* Kate at all.  The number of a packet only tells it from the others.       *)
WellFormed(s, pages) ==
  /\ \A n \in DOMAIN pages :
       /\ pages[n].bos =>
            /\ pages[n].no = 0 /\ pages[n].packets # <<>>
            /\ LET p == pages[n].packets[1] IN p.kind = "header" => p.n = 0
       /\ n > 1 /\ ~pages[n].bos => pages[n].no = pages[n - 1].no + 1
       /\ \A k \in DOMAIN pages[n].packets :
            LET p == pages[n].packets[k] IN
            /\ p.serial = s
            /\ p.kind = "header" /\ ~pages[n].bos => p.n # 0
  /\ \A m, n \in DOMAIN pages :
       \A j \in DOMAIN pages[m].packets, k \in DOMAIN pages[n].packets :
         m < n \/ (m = n /\ j < k) =>
           pages[m].packets[j].no < pages[n].packets[k].no

ASSUME InputsAssumption ==
  \A file \in Inputs :
    file \in [Serials -> Seq(Pages)] /\ \A s \in Serials : WellFormed(s, file[s])
ASSUME HeadersAssumption == Headers \in Nat \ {0}
ASSUME RateAssumption == Rate[1] \in Nat \ {0} /\ Rate[2] \in Nat \ {0}

VARIABLES
  given,         (* the file                                                 *)
  format, template,  (* the options of the command line                      *)
  next,          (* the place of the page that comes next, in each stream    *)
  lost,          (* the pages that were lost, as <<serial, place>>           *)
  count,         (* ogg_parser_data.n_streams                                *)
  streams,       (* kate_streams: the streams that are followed              *)
  reading,       (* the place of the one that packets are taken of, or 0     *)
  files,         (* what was printed to each file that was opened            *)
  disk,          (* the files that were opened and are not deleted           *)
  phase          (* "reading", "closing", and "done", "aborted" or "crashed" *)
vars == <<given, format, template, next, lost, count, streams, reading, files,
          disk, phase>>

-----------------------------------------------------------------------------
(* The writers.                                                              *)

HasStart == format = "kate"
HasEnd == format \in {"kate", "lrc"}
NewData == IF format = "lrc" THEN -1 ELSE 0

(* A granule, as a count of which there are unit to the second.              *)
Scaled(unit, t) == (unit * t * Rate[2] + (Rate[1] \div 2)) \div Rate[1]

SrtTime(t) ==
  LET ms == Scaled(1000, t)
  IN <<ms \div 3600000, (ms \div 60000) % 60, (ms \div 1000) % 60, ms % 1000>>
LrcTime(t) ==
  LET cs == Scaled(100, t) IN <<cs \div 6000, (cs \div 100) % 60, cs % 100>>

Stamp(t) == [what |-> "stamp", time |-> t]
Lyric(e) == [what |-> "event", event |-> e]

(* A slip: only the first lyric is stamped with its start.                   *)
NeedsStampOnce(data, e) == data < 0

NeedsStamp(data, e) == data < 0 \/ data < e.at

(* What is printed of an event, by the data of its stream: the number of the *)
(* last event, or the end of the last lyric.                                 *)
Printed(data, e) ==
  CASE format = "kate" -> <<Lyric(e)>>
    [] format = "srt" ->
         << [what |-> "event", event |-> e, number |-> data + 1,
             times |-> <<SrtTime(e.at), SrtTime(e.at + e.for)>>] >>
    [] OTHER -> (IF NeedsStamp(data, e) THEN <<Stamp(LrcTime(e.at))>> ELSE <<>>)
                \o <<Lyric(e), Stamp(LrcTime(e.at + e.for))>>
DataAfter(data, e) ==
  CASE format = "kate" -> data
    [] format = "srt" -> data + 1
    [] OTHER -> e.at + e.for

-----------------------------------------------------------------------------
(* The set of streams.                                                       *)

Stdout == <<"-">>

(* The place of the page that comes next, among those of its stream.         *)
HasPage(s) == next[s] \in DOMAIN given[s]
Page(s) == given[s][next[s]]

(* kstream_init.  fout is the name of its file, in a set: empty for NULL.    *)
(* from, for the properties: the first page that it takes.                   *)
NewStream(s) ==
  [serial |-> s, from |-> Len(given[s]) + 1, index |-> count, page |-> 0,
   queue |-> <<>>, probe |-> 0, init |-> "uninitialized", fout |-> {}, ret |-> 0,
   data |-> 0]
InData(ks) == ks.init \in {"data", "eos"}

(* find_kate_stream_for_page: the first whose serial number is that of the   *)
(* page, or 0.                                                               *)
Find(those, s) ==
  LET hit == {i \in DOMAIN those : those[i].serial = s}
  IN IF hit = {} THEN 0 ELSE CHOOSE i \in hit : \A j \in hit : i <= j

(* ogg_stream_pagein.                                                        *)
Gap == [kind |-> "gap"]
Queued(ks, page) ==
  ks.queue \o (IF page.no = ks.page THEN <<>> ELSE <<Gap>>) \o page.packets
Taken(ks, page) ==
  [ks EXCEPT !.from = IF @ < next[ks.serial] THEN @ ELSE next[ks.serial],
             !.page = page.no + 1, !.queue = Queued(ks, page)]

(* get_filename, by the tag in the name that was asked for: with what the tag*)
(* stands for.                                                               *)
Name(ks) ==
  CASE template = "-" -> Stdout
    [] template = "%l" -> <<template, Language[ks.serial]>>
    [] template = "%i" -> <<template, ks.index>>
    [] OTHER -> <<template>>

(* A slip: only the stream before is looked at.                              *)
UsedByLast(name) ==
  reading > 1 /\ name \in streams[reading - 1].fout

(* is_filename_used, and find_kate_stream_for_file for the standard output.  *)
Used(name) == \E i \in DOMAIN streams : name \in streams[i].fout

(* remove_kate_stream.                                                       *)
Without(i) == RemoveAt(streams, i)

-----------------------------------------------------------------------------
Init ==
  /\ given \in Inputs /\ format \in Formats /\ template \in Templates
  /\ next = [s \in Serials |-> 1] /\ lost = {} /\ count = 0
  /\ streams = <<>> /\ reading = 0
  /\ files = <<>> /\ disk = {}
  /\ phase = "reading"

Idle == phase = "reading" /\ reading = 0
Options == <<given, format, template>>

(* ogg_parser_on_page, of a page that starts a stream: one of a serial       *)
(* number that is already there goes to the stream that has it.              *)
BosPage(s) ==
  /\ Idle /\ HasPage(s) /\ Page(s).bos
  /\ LET added == Append(streams, NewStream(s))
         i == Find(added, s)
         ks == Taken(added[i], Page(s))
     IN /\ streams' = [added EXCEPT ![i] = [ks EXCEPT !.data = NewData]]
        /\ reading' = i
  /\ count' = count + 1
  /\ next' = [next EXCEPT ![s] = @ + 1]
  /\ UNCHANGED <<Options, lost, files, disk, phase>>

NextPage(s) ==
  /\ Idle /\ HasPage(s) /\ ~Page(s).bos
  /\ LET i == Find(streams, s)
     IN /\ i # 0
        /\ streams' = [streams EXCEPT ![i] = Taken(@, Page(s))]
        /\ reading' = i
  /\ next' = [next EXCEPT ![s] = @ + 1]
  /\ UNCHANGED <<Options, lost, count, files, disk, phase>>

(* A page of a stream that is not, or no longer, followed.                   *)
StrayPage(s) ==
  /\ Idle /\ HasPage(s) /\ ~Page(s).bos
  /\ Find(streams, s) = 0
  /\ next' = [next EXCEPT ![s] = @ + 1]
  /\ UNCHANGED <<Options, lost, count, streams, reading, files, disk, phase>>

(* parse_ogg_stream says nothing of a page that is damaged: on_hole is NULL. *)
LosePage(s) ==
  /\ Idle /\ HasPage(s) /\ Cardinality(lost) < MaxLost
  /\ lost' = lost \cup {<<s, next[s]>>}
  /\ next' = [next EXCEPT ![s] = @ + 1]
  /\ UNCHANGED <<Options, count, streams, reading, files, disk, phase>>

-----------------------------------------------------------------------------
(* The packets of the stream that is read.                                   *)

Reads == phase = "reading" /\ reading # 0
This == streams[reading]
Has(kind) == This.queue # <<>> /\ Head(This.queue).kind = kind

(* A slip: what comes behind a gap is dropped.                               *)
Next1Emptied == [This EXCEPT !.queue = IF Has("gap") THEN <<>> ELSE Tail(@)]

Next1 == [This EXCEPT !.queue = Tail(@)]

EndOfPage ==
  /\ Reads /\ This.queue = <<>>
  /\ reading' = 0
  /\ UNCHANGED <<Options, next, lost, count, streams, files, disk, phase>>

(* "Hole in data": the loop is left, and what comes after the gap waits for  *)
(* the next page of the stream.                                              *)
Hole ==
  /\ Reads /\ Has("gap")
  /\ streams' = [streams EXCEPT ![reading] = Next1]
  /\ reading' = 0
  /\ UNCHANGED <<Options, next, lost, count, files, disk, phase>>

(* kate_ogg_decode_headerin takes the headers in their order; the last one   *)
(* ends them.  Without the first it would take any, and one whose number is  *)
(* too high at any time; Packets and WellFormed know no such file.           *)
HeaderFits == Has("header") /\ Head(This.queue).n = This.probe
IsLast == This.probe = Headers - 1

Header ==
  /\ Reads /\ ~InData(This) /\ HeaderFits /\ ~IsLast
  /\ streams' = [streams EXCEPT ![reading] =
                   [Next1 EXCEPT !.init = "header_info", !.probe = @ + 1]]
  /\ UNCHANGED <<Options, next, lost, count, reading, files, disk, phase>>

(* clear_and_remove_kate_stream, of a stream that has no file: it is not     *)
(* Kate, or the header is wrong.                                             *)
WrongHeader ==
  /\ Reads /\ ~InData(This) /\ This.queue # <<>> /\ ~Has("gap") /\ ~HeaderFits
  /\ streams' = Without(reading)
  /\ reading' = 0
  /\ UNCHANGED <<Options, next, lost, count, files, disk, phase>>

Ready == Reads /\ ~InData(This) /\ HeaderFits /\ IsLast

Open ==
  /\ Ready /\ ~Used(Name(This))
  /\ streams' = [streams EXCEPT ![reading] =
                   [Next1 EXCEPT !.init = "data", !.probe = @ + 1, !.fout = {Name(This)}]]
  /\ files' = [f \in DOMAIN files \cup {Name(This)} |->
                 IF f # Name(This) THEN files[f]
                 ELSE IF HasStart THEN << [what |-> "start"] >> ELSE <<>>]
  /\ disk' = disk \cup {Name(This)}
  /\ UNCHANGED <<Options, next, lost, count, reading, phase>>

(* "Cannot write two Kate streams to the same output, new Kate stream will   *)
(* be ignored".                                                              *)
Ignore ==
  /\ Ready /\ Used(Name(This))
  /\ streams' = Without(reading)
  /\ reading' = 0
  /\ UNCHANGED <<Options, next, lost, count, files, disk, phase>>

(* kate_decode_init or fopen fails: exit, and nothing is tidied up.          *)
Abort ==
  /\ Ready
  /\ phase' = "aborted"
  /\ UNCHANGED <<Options, next, lost, count, streams, reading, files, disk>>

(* A slip: the result of each packet is kept.                                *)
StatusLatest(old, ret) == ret

(* What kstream.ret is after a packet: the last error.                       *)
Status(old, ret) == IF ret < 0 THEN ret ELSE old

(* Writing to NULL is the end of the program.                               *)
Write(ks, entries) ==
  /\ files' = [f \in DOMAIN files |->
                 IF f \in ks.fout THEN files[f] \o entries ELSE files[f]]
  /\ phase' = IF ks.fout = {} THEN "crashed" ELSE phase

Text ==
  /\ Reads /\ InData(This) /\ Has("text")
  /\ LET e == Head(This.queue)
     IN /\ Write(This, Printed(This.data, e))
        /\ streams' = [streams EXCEPT ![reading] =
                         [Next1 EXCEPT !.data = DataAfter(@, e), !.ret = Status(@, 0)]]
  /\ UNCHANGED <<Options, next, lost, count, reading, disk>>

(* A header among the data is ignored, as are a keepalive, a repeat of what  *)
(* is known and a packet of an unknown type.                                 *)
Silent ==
  /\ Reads /\ InData(This) /\ (\E kind \in {"silent", "header", "foreign"} : Has(kind))
  /\ streams' = [streams EXCEPT ![reading] = [Next1 EXCEPT !.ret = Status(@, 0)]]
  /\ UNCHANGED <<Options, next, lost, count, reading, files, disk, phase>>

Bad ==
  /\ Reads /\ InData(This) /\ Has("bad")
  /\ streams' = [streams EXCEPT ![reading] = [Next1 EXCEPT !.ret = Status(@, -1)]]
  /\ UNCHANGED <<Options, next, lost, count, reading, files, disk, phase>>

End ==
  /\ Reads /\ InData(This) /\ Has("end")
  /\ IF HasEnd THEN Write(This, << [what |-> "end"] >>) ELSE UNCHANGED <<files, phase>>
  /\ streams' = [streams EXCEPT ![reading] = [Next1 EXCEPT !.init = "eos", !.ret = Status(@, 0)]]
  /\ UNCHANGED <<Options, next, lost, count, reading, disk>>

-----------------------------------------------------------------------------
(* main, after the last page: what is left in the queues is not looked at.   *)

Unended(ks) == ks.init # "eos"

(* "Force EOS on truncated streams": one after the other, up to one that has *)
(* no file, if any.                                                          *)
ForceEnd ==
  /\ Idle
  /\ LET open == {i \in DOMAIN streams : HasEnd /\ Unended(streams[i])}
         fatal == {i \in open : streams[i].fout = {}}
         ended == UNION {streams[i].fout : i \in {j \in open : \A k \in fatal : j < k}}
     IN /\ files' = [f \in DOMAIN files |->
                       IF f \in ended THEN files[f] \o << [what |-> "end"] >>
                       ELSE files[f]]
        /\ phase' = IF fatal = {} THEN "closing" ELSE "crashed"
  /\ streams' = [i \in DOMAIN streams |-> [streams[i] EXCEPT !.init = "eos"]]
  /\ UNCHANGED <<Options, next, lost, count, reading, disk>>

Spoiled(ks) == ks.ret < 0

(* clear_kate_stream_set: kstream_clear deletes what cannot be trusted.      *)
ClearSet ==
  /\ phase = "closing"
  /\ LET spoiled == {i \in DOMAIN streams : Spoiled(streams[i])}
     IN disk' = disk \ ((UNION {streams[i].fout : i \in spoiled}) \ {Stdout})
  /\ streams' = <<>>
  /\ phase' = "done"
  /\ UNCHANGED <<Options, next, lost, count, reading, files>>

Next ==
  \/ \E s \in Serials : BosPage(s) \/ NextPage(s) \/ StrayPage(s) \/ LosePage(s)
  \/ EndOfPage \/ Hole \/ Header \/ WrongHeader \/ Open \/ Ignore \/ Abort
  \/ Text \/ Silent \/ Bad \/ End
  \/ ForceEnd \/ ClearSet

Spec == Init /\ [][Next]_vars

-----------------------------------------------------------------------------
(* The pages of a stream that were read and not lost, whether more than one  *)
(* of them starts it, and the packets that came with those that a kate_stream*)
(* has taken.                                                                *)
PagesOf(s) == {n \in 1 .. next[s] - 1 : <<s, n>> \notin lost}
StartsOnce(s) == \A m, n \in PagesOf(s) : given[s][m].bos /\ given[s][n].bos => m = n
Whole(s) == \A l \in lost : l[1] # s
TakenIn(ks) ==
  UNION {ToSet(given[ks.serial][n].packets) : n \in {m \in PagesOf(ks.serial) : m >= ks.from}}
Waiting(ks) == ToSet(ks.queue) \ {Gap}
Texts(packets) == {p \in packets : p.kind = "text"}
Events(f) == {n \in DOMAIN f : f[n].what = "event"}
EventsOf(f) == {f[n].event : n \in Events(f)}
Ends(f) == {n \in DOMAIN f : f[n].what = "end"}

Streams ==
  [serial : Serials, from : Nat, index : Nat, page : Nat,
   queue : Seq(Packets \cup {Gap}), probe : Nat,
   init : {"uninitialized", "header_info", "data", "eos"},
   fout : {{}} \cup {{name} : name \in DOMAIN files}, ret : Int, data : Int]

Entries ==
  [what : {"start", "end"}] \cup [what : {"stamp"}, time : Seq(Nat)]
  \cup [what : {"event"}, event : Packets]
  \cup [what : {"event"}, event : Packets, number : Int, times : Seq(Seq(Nat))]

TypeOK ==
  /\ given \in Inputs
  /\ next \in [Serials -> Nat]
  /\ count \in Nat
  /\ streams \in Seq(Streams)
  /\ reading \in 0 .. Len(streams)
  /\ disk \subseteq DOMAIN files
  /\ phase \in {"reading", "closing", "done", "aborted", "crashed"}

(* A file holds the events of one stream, each of them once, in their order, *)
(* whatever streams there are, whichever of them are refused, and whatever   *)
(* name is asked for.                                                        *)
Ordered(f) ==
  \A m, n \in Events(f) :
    m < n => /\ f[m].event.serial = f[n].event.serial
             /\ f[m].event.no < f[n].event.no
OneStreamEach == \A name \in DOMAIN files : Ordered(files[name])

(* All the events of the pages that were taken in are in the file of their   *)
(* stream or about to be, after those; they wait only behind a gap, and are  *)
(* not written if no page follows.                                           *)
NothingSkipped ==
  \A i \in DOMAIN streams : \A name \in streams[i].fout :
    LET ks == streams[i]
        written == EventsOf(files[name])
    IN /\ written \cup Texts(Waiting(ks)) = Texts(TakenIn(ks))
       /\ \A p \in written, q \in Texts(Waiting(ks)) : p.no < q.no
       /\ Idle /\ ks.queue # <<>> => ~StartsOnce(ks.serial) \/ ~Whole(ks.serial)

(* A file starts with its headers, and ends once, after the last event: when *)
(* its stream does, or at the end of a file that is cut.  Only a stream that *)
(* goes on after its end packet is written on.                               *)
GoesOn(ks) ==
  \E p, q \in TakenIn(ks) :
    p.kind = "end" /\ q.kind \in {"text", "end"} /\ p.no < q.no
Headed(f) == f # <<>> /\ \A n \in DOMAIN f : f[n].what = "start" <=> n = 1
Framed ==
  /\ format = "kate" => \A name \in DOMAIN files : Headed(files[name])
  /\ HasEnd => \A i \in DOMAIN streams : \A name \in streams[i].fout :
       ~GoesOn(streams[i]) =>
         /\ Ends(files[name]) \subseteq {Len(files[name])}
         /\ phase = "closing" => Ends(files[name]) # {}

(* The program ends well, but for a stream that is cut within its headers or *)
(* that starts twice: its end is forced though it has no file yet.           *)
HeadersCut(ks) ==
  \/ {p.n : p \in {q \in TakenIn(ks) : q.kind = "header"}} # 0 .. Headers - 1
  \/ ks.queue # <<>>
CrashesOnlyIfCut ==
  phase = "crashed" => HasEnd /\ \E i \in DOMAIN streams : HeadersCut(streams[i])

(* Each file is that of one stream, from its beginning to its end.           *)
FilesWhole == TypeOK /\ OneStreamEach /\ Framed /\ CrashesOnlyIfCut

(* What a reader of the file makes of it: the events are numbered from 1, and*)
(* their times are right to half a unit; a lyric is under the stamp of its   *)
(* start, or of the end of a lyric before, if that had not ended.            *)
Nearest(read, unit, t) ==
  2 * (read * Rate[1] - unit * t * Rate[2]) \in -Rate[1] .. Rate[1]
SrtRead(x) == 3600000 * x[1] + 60000 * x[2] + 1000 * x[3] + x[4]
LrcRead(x) == 6000 * x[1] + 100 * x[2] + x[3]
SrtRight(f) ==
  \A n \in DOMAIN f :
    LET e == f[n].event IN
    /\ StartsOnce(e.serial) => f[n].number = n
    /\ Nearest(SrtRead(f[n].times[1]), 1000, e.at)
    /\ Nearest(SrtRead(f[n].times[2]), 1000, e.at + e.for)

(* The last stamp before place n is at m.                                    *)
StampedAt(f, n, m) ==
  /\ m \in 1 .. n - 1 /\ f[m].what = "stamp"
  /\ \A k \in m + 1 .. n - 1 : f[k].what # "stamp"
ReadsAs(entry, t) == Nearest(LrcRead(entry.time), 100, t)
EndOf(e) == e.at + e.for
LrcRight(f) ==
  \A n \in Events(f) :
    LET e == f[n].event IN
    /\ n < Len(f) /\ f[n + 1].what = "stamp" /\ ReadsAs(f[n + 1], EndOf(e))
    /\ \E m \in DOMAIN f :
         /\ StampedAt(f, n, m)
         /\ \/ ReadsAs(f[m], e.at)
            \/ \E k \in Events(f) : /\ k < n /\ EndOf(f[k].event) >= e.at
                                    /\ ReadsAs(f[m], EndOf(f[k].event))
TimesRight ==
  \A name \in DOMAIN files :
    /\ format = "srt" => SrtRight(files[name])
    /\ format = "lrc" => LrcRight(files[name])

(* At the end, the file of a stream is deleted if a packet of it could not be*)
(* decoded, however many could be after it, and only then.                   *)
DeletesSpoiled ==
  [][phase = "closing" /\ phase' = "done" =>
       \A i \in DOMAIN streams : \A name \in streams[i].fout \ {Stdout} :
         name \notin disk' <=>
           \E p \in TakenIn(streams[i]) \ Waiting(streams[i]) : p.kind = "bad"]_vars

-----------------------------------------------------------------------------
(* The inductive invariants.                                                 *)

(* The pages that are no longer to come.                                     *)
PagesSound ==
  /\ TypeOK
  /\ \A s \in Serials : next[s] \in 1 .. Len(given[s]) + 1
  /\ lost \subseteq Serials \X Nat
  /\ \A l \in lost : l[2] < next[l[1]]
  /\ phase = "closing" => reading = 0

(* Of the packets got, those that wait are the last ones.                    *)
QueueSound(ks, got) ==
  /\ \A j, k \in DOMAIN ks.queue :
       j < k /\ ks.queue[j] # Gap /\ ks.queue[k] # Gap => ks.queue[j].no < ks.queue[k].no
  /\ Waiting(ks) \subseteq got
  /\ \A p \in got \ Waiting(ks), q \in Waiting(ks) : p.no < q.no

(* A stream that takes no page as long as one of its number is before it.    *)
Untouched(ks) ==
  /\ ks.from = Len(given[ks.serial]) + 1 /\ ks.queue = <<>> /\ ks.probe = 0
  /\ ks.fout = {} /\ ks.ret = 0
  /\ ~StartsOnce(ks.serial)

Got(i) == TakenIn(streams[i])
StreamsSound ==
  /\ PagesSound
  /\ \A i, j \in DOMAIN streams :
       i < j /\ streams[i].serial = streams[j].serial => Untouched(streams[j])
  /\ \A i \in DOMAIN streams :
       /\ \E n \in PagesOf(streams[i].serial) : given[streams[i].serial][n].bos
       /\ QueueSound(streams[i], Got(i))

(* A stream that has lost nothing leaves nothing in its queue.               *)
GapsAreLosses ==
  \A i \in DOMAIN streams :
    LET ks == streams[i] IN
    StartsOnce(ks.serial) /\ Whole(ks.serial) =>
      /\ ks.from < next[ks.serial]
      /\ ks.page = given[ks.serial][next[ks.serial] - 1].no + 1
      /\ \A k \in DOMAIN ks.queue : ks.queue[k] # Gap
      /\ i # reading => ks.queue = <<>>

(* What a stream has seen of the packets done.                               *)
ProgressSound(ks, done) ==
  /\ ks.fout = {} => /\ ks.probe < Headers
                     /\ \A p \in done : p.kind = "header" /\ p.n < ks.probe
  /\ ks.ret < 0 <=> \E p \in done : p.kind = "bad"
  /\ phase = "reading" =>
       /\ InData(ks) <=> ks.fout # {}
       /\ ks.init = "eos" <=> \E p \in done : p.kind = "end"

(* What is in the file of a stream of the packets done.                      *)
FileSound(ks, f, done) ==
  /\ EventsOf(f) = Texts(done)
  /\ HasEnd => /\ GoesOn(ks) \/ Ends(f) \subseteq {Len(f)}
               /\ phase = "reading" => (Ends(f) # {} <=> ks.init = "eos")
               /\ phase = "closing" => Ends(f) # {}

Done(i) == Got(i) \ Waiting(streams[i])
OutputSound ==
  /\ \A i, j \in DOMAIN streams : i # j => streams[i].fout \cap streams[j].fout = {}
  /\ \A i \in DOMAIN streams :
       /\ ProgressSound(streams[i], Done(i))
       /\ phase \in {"reading", "closing"} => streams[i].fout \subseteq disk
       /\ \A name \in streams[i].fout : FileSound(streams[i], files[name], Done(i))
  /\ \A name \in DOMAIN files : files[name] \in Seq(Entries) /\ Ordered(files[name])
  /\ format = "kate" => \A name \in DOMAIN files : Headed(files[name])

(* What the writers remember of the file of a stream, and before there is   *)
(* one: only a page that starts a stream sets it up.                         *)
DataSound(ks, f) ==
  /\ format = "srt" /\ StartsOnce(ks.serial) => ks.data = Len(f)
  /\ format = "lrc" =>
       \/ ks.data = -1
       \/ \E k \in Events(f), m \in DOMAIN f :
            /\ ks.data = EndOf(f[k].event)
            /\ StampedAt(f, Len(f) + 1, m) /\ f[m] = Stamp(LrcTime(ks.data))
Fresh(ks, got) ==
  \/ ks.data = NewData
  \/ ks.probe = 0 /\ \A p \in got : p.kind = "header" => p.n # 0
WritersSound ==
  /\ phase = "reading" =>
       \A i \in DOMAIN streams :
         /\ streams[i].fout = {} => Fresh(streams[i], Got(i))
         /\ \A name \in streams[i].fout : DataSound(streams[i], files[name])
  /\ format = "srt" =>
       \A name \in DOMAIN files : \A n \in DOMAIN files[name] :
         files[name][n].what = "event"
  /\ TimesRight
=============================================================================
