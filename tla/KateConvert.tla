---------------------------- MODULE KateConvert ----------------------------
(***************************************************************************)
(* The converter kateenc, src/tools/kateenc.c, on SubRip and LRC files,    *)
(* and the Ogg glue under it, src/src/kate_ogg.c.                          *)
(*                                                                         *)
(* It reads a file line by line, and encodes an event when it has one.     *)
(* Before that it walks from the time of the last packet to the start of   *)
(* the event, and puts in the stream the repeats and keepalives that are   *)
(* due at each step.                                                       *)
(*                                                                         *)
(* A line is known by its kind and times.  The encoder under the converter *)
(* is the one of KateEncoder, each call of it a step: what the library     *)
(* asks of its clients is shown of this one, not assumed.                  *)
(***************************************************************************)
EXTENDS KateEncoder

CONSTANTS
  Formats,                           (* of "srt" and "lrc"                    *)
  KeepaliveThresholds,               (* those asked for, 0 for none           *)
  CueTimes, LyricTimes,              (* the times that files give             *)
  Lines,                             (* how long files are (a bound)          *)
  OutputFails                        (* whether what is encoded may get lost  *)

ASSUME ConvertAssumption ==
  /\ Promises = {}
  /\ Faults \cap {"content", "packet"} = {}
  /\ Formats \subseteq {"srt", "lrc"}
  /\ CueTimes \subseteq Times \X Times
  /\ LyricTimes \subseteq Times
  /\ Thresholds \subseteq Nat \ {0} /\ KeepaliveThresholds \subseteq Nat
  /\ Lines \in [Formats -> Nat]
  /\ OutputFails \in BOOLEAN

VARIABLES
  format,          (* the input_file_type of main                             *)
  repeatT,         (* raw_repeat_threshold, 0 for none                        *)
  keepT,           (* raw_keepalive_threshold, 0 for none                     *)
  pc,              (* where the converter is                                  *)
  file,            (* the lines read                                          *)
  need,            (* the need of convert_srt                                 *)
  start,           (* t0, and the start_time of convert_lrc, -1 before any    *)
  end,             (* t1, and the t of convert_lrc                            *)
  text,            (* whether text is not empty                               *)
  words,           (* whether the line that convert_lrc has just read says any*)
  last,            (* last_stream_time                                        *)
  walk,            (* the t of update_stream_time                             *)
  missing          (* which packets of the stream did not reach the output    *)

reader == <<file, need, start, end, text, words>>
options == <<format, repeatT, keepT>>
convertVars == <<encoder, reader, options, pc, last, walk, missing>>

(* A client that goes forward, as the documentation of the library asks.     *)
Orderly == INSTANCE KateEncoder WITH Promises <- {"headers", "order"}

-----------------------------------------------------------------------------
TimingLine(t0, t1) == [kind |-> "timing", t0 |-> t0, t1 |-> t1]
Lyric(t, w) == [kind |-> "lyric", t0 |-> t, t1 |-> IF w THEN 1 ELSE 0]
Line(kind) == [kind |-> kind, t0 |-> 0, t1 |-> 0]

SrtLines ==
  {Line(k) : k \in {"blank", "id", "text"}} \cup {TimingLine(c[1], c[2]) : c \in CueTimes}
LrcLines ==
  {Line("blank"), Line("text")} \cup {Lyric(t, w) : t \in LyricTimes, w \in BOOLEAN}

Words(l) == l.t1 = 1

(* The smallest of the thresholds that are in use.                           *)
Step ==
  IF repeatT > 0 /\ (keepT = 0 \/ repeatT <= keepT) THEN repeatT ELSE keepT

ConvertInit ==
  /\ Init
  /\ format \in Formats
  /\ repeatT \in Thresholds \cup {0}
  /\ keepT \in KeepaliveThresholds
  /\ pc = "headers"
  /\ file = <<>>
  /\ need = "id"
  /\ start = -1 /\ end = -1
  /\ text = FALSE /\ words = FALSE
  /\ last = 0 /\ walk = 0
  /\ missing = {}

Goto(l) == pc' = l

-----------------------------------------------------------------------------
(* An error ends the conversion: nothing is finished.                        *)
Stop == Goto("failed")

(* A slip: the time of the last packet is not kept.                          *)
SentUntimed(t) == UNCHANGED last

(* send_packet: the packet goes to its own Ogg page.                         *)
Sent(t) == last' = IF t > last THEN t ELSE last

(* What the encoder has just made does not reach the output.                 *)
Lost(packets) == OutputFails /\ missing = {} /\ missing' = packets

(* kate_packet_create_ogg has no memory for its copy.                        *)
NotCopied == Lost({Len(stream) + 1}) /\ UNCHANGED last

(* send_packet cannot write the page.                                        *)
NotWritten(t) == Lost({Len(stream) + 1}) /\ Sent(t)

(* write_headers: the pages are written after the last of them.              *)
Headers ==
  /\ pc = "headers"
  /\ \/ /\ EncodeHeaders
        /\ \/ Goto("headers") /\ UNCHANGED <<last, missing>>
           \/ NotCopied /\ Stop
     \/ /\ packetno + 1 = NumHeaders
        /\ \/ Goto("read") /\ UNCHANGED missing
           \/ Lost(1 .. Len(stream)) /\ Stop
        /\ UNCHANGED <<encoder, last>>
  /\ UNCHANGED <<reader, options, walk>>

-----------------------------------------------------------------------------
(* Reading.                                                                  *)

Read(l) == Len(file) < Lines[format] /\ file' = Append(file, l)

(* sscanf takes any number at the start of a line for an id.                 *)
ReadId(l) ==
  /\ need = "id"
  /\ \/ l.kind = "blank" /\ Goto("read") /\ UNCHANGED need
     \/ l.kind \in {"id", "timing"} /\ need' = "timing" /\ Goto("read")
     \/ l.kind = "text" /\ Stop /\ UNCHANGED need
  /\ text' = IF l.kind \in {"id", "timing"} THEN FALSE ELSE text
  /\ UNCHANGED <<start, end>>

ReadTiming(l) ==
  /\ need = "timing"
  /\ IF l.kind = "timing"
     THEN /\ start' = l.t0 /\ end' = l.t1
          /\ IF l.t0 <= l.t1 THEN need' = "text" /\ Goto("read")
                             ELSE Stop /\ UNCHANGED need
     ELSE Stop /\ UNCHANGED <<start, end, need>>
  /\ UNCHANGED text

(* A slip: an event without text is passed over.                             *)
EmitSpoken == IF text THEN Goto("walk") ELSE Goto("read")

(* update_stream_time is about to walk from the last packet.                 *)
EmitEvent == Goto("walk")

(* A blank line ends the event, whether it has text or not; any other is     *)
(* text, which a line of times is not tried for.                             *)
ReadText(l) ==
  /\ need = "text" /\ l.kind # "timing"
  /\ IF l.kind = "blank" THEN need' = "id" /\ EmitEvent /\ UNCHANGED text
                         ELSE text' = TRUE /\ Goto("read") /\ UNCHANGED need
  /\ UNCHANGED <<start, end>>

(* A line of convert_srt.                                                    *)
ReadSrt ==
  /\ format = "srt" /\ pc = "read"
  /\ \E l \in SrtLines : Read(l) /\ (ReadId(l) \/ ReadTiming(l) \/ ReadText(l))
  /\ walk' = last
  /\ UNCHANGED <<encoder, options, words, last, missing>>

(* A line of convert_lrc ends the event of the line before, and starts its   *)
(* own: text is what the last line said until that event is encoded.  What is*)
(* above the first lyric is passed over, but for what looks like one and has *)
(* a negative time.                                                          *)
ReadLrc ==
  /\ format = "lrc" /\ pc = "read"
  /\ \E l \in LrcLines :
       /\ Read(l)
       /\ words' = Words(l)
       /\ \/ l.kind = "blank" /\ Goto("read") /\ UNCHANGED <<start, end, text>>
          \/ l.kind = "text" /\ Stop /\ UNCHANGED <<start, end, text>>
          \/ l.kind = "text" /\ start < 0 /\ Goto("read") /\ UNCHANGED <<start, end, text>>
          \/ /\ l.kind = "lyric" /\ text
             /\ end' = l.t0 /\ EmitEvent
             /\ UNCHANGED <<start, text>>
          \/ /\ l.kind = "lyric" /\ ~text
             /\ start' = l.t0 /\ text' = Words(l) /\ Goto("read")
             /\ UNCHANGED end
  /\ walk' = last
  /\ UNCHANGED <<encoder, options, need, last, missing>>

(* The end of the file: what convert_srt has gathered is encoded, what       *)
(* convert_lrc has is not, for lack of an end time.                          *)
EndOfFile ==
  /\ pc = "read"
  /\ walk' = last
  /\ IF format = "srt" /\ need = "text" /\ text
     THEN Goto("walk") /\ need' = "eof"
     ELSE Goto("finish") /\ UNCHANGED need
  /\ UNCHANGED <<encoder, options, file, start, end, text, words, last, missing>>

-----------------------------------------------------------------------------
(* update_stream_time.                                                       *)

Walking == pc = "walk" /\ Step > 0 /\ walk < start

(* Nothing to walk through.                                                  *)
WalkEnds ==
  /\ pc = "walk" /\ ~Walking
  /\ Goto("text")
  /\ UNCHANGED <<encoder, reader, options, last, walk, missing>>

(* The granule of a packet at the time of the walk would go back.            *)
Refused ==
  \E b \in Times :
    IsBase(Trimmed(timings, walk), walk, b) /\ ~Accepted(b, walk)

(* Repeats come first, until none is due.                                    *)
WalkRepeats ==
  /\ Walking
  /\ \/ repeatT = 0 /\ Goto("keepalive") /\ UNCHANGED <<encoder, last, missing>>
     \/ /\ repeatT > 0
        /\ RepeatNothing(walk, repeatT)
        /\ Goto(IF Refused THEN "text" ELSE "keepalive")
        /\ UNCHANGED <<last, missing>>
     \/ /\ repeatT > 0
        /\ EncodeRepeat(walk, repeatT)
        /\ \/ Sent(walk) /\ Goto("walk") /\ UNCHANGED missing
           \/ (NotCopied \/ NotWritten(walk)) /\ Goto("text")
     \/ /\ repeatT > 0
        /\ RepeatNoMemory(walk, repeatT)
        /\ Goto("text")
        /\ UNCHANGED <<last, missing>>
  /\ UNCHANGED <<reader, options, walk>>

(* A slip: no threshold makes a step.                                        *)
NoStep == 0

Stride == Step

(* A slip: the silence must be longer than the threshold.                    *)
SilentLonger == walk - last > keepT

Silent == walk - last >= keepT

(* A keepalive, if there has been no packet for that long, and the next step.*)
WalkKeepalive ==
  /\ pc = "keepalive"
  /\ \/ /\ keepT = 0 \/ ~Silent
        /\ Goto("walk")
        /\ UNCHANGED <<encoder, last, missing>>
     \/ /\ keepT > 0 /\ Silent
        /\ \/ /\ EncodeKeepalive(walk)
              /\ \/ Sent(walk) /\ Goto("walk") /\ UNCHANGED missing
                 \/ (NotCopied \/ NotWritten(walk)) /\ Goto("text")
           \/ /\ KeepaliveRejected(walk) \/ KeepaliveNoSlot(walk)
              /\ Goto("text")
              /\ UNCHANGED <<last, missing>>
  /\ walk' = IF pc' = "walk" THEN walk + Stride ELSE walk
  /\ UNCHANGED <<reader, options>>

-----------------------------------------------------------------------------
(* After an event: convert_lrc starts the next one where it ended.           *)
NextEvent ==
  /\ IF format = "lrc" THEN start' = end /\ text' = words
                       ELSE UNCHANGED <<start, text>>
  /\ Goto(IF need = "eof" THEN "finish" ELSE "read")
  /\ UNCHANGED <<file, need, end, words>>

(* emit_srt_event, and the event of convert_lrc.                             *)
Text ==
  /\ pc = "text"
  /\ EncodeText(start, end)
  /\ \/ Sent(start) /\ NextEvent /\ UNCHANGED missing
     \/ (NotCopied \/ NotWritten(start)) /\ Stop /\ UNCHANGED reader
  /\ UNCHANGED <<options, walk>>

TextFails ==
  /\ pc = "text"
  /\ \/ start > end /\ UNCHANGED encoder
     \/ EncodeTextRejected(start, end)
     \/ EncodeTextNoSlot(start, end)
     \/ EncodeTextNotSaved(start, end)
  /\ Stop
  /\ UNCHANGED <<reader, options, last, walk, missing>>

(* main ends the stream at the end of the last event.                        *)
Finish ==
  /\ pc = "finish"
  /\ \/ /\ EncodeFinish(-1)
        /\ \/ Sent(-1) /\ Goto("done") /\ UNCHANGED missing
           \/ (NotCopied \/ NotWritten(-1)) /\ Stop
     \/ FinishRejected(-1) /\ Stop /\ UNCHANGED <<last, missing>>
  /\ UNCHANGED <<reader, options, walk>>

ConvertNext ==
  \/ Headers \/ ReadSrt \/ ReadLrc \/ EndOfFile
  \/ WalkEnds \/ WalkRepeats \/ WalkKeepalive
  \/ Text \/ TextFails \/ Finish

(* The converter is a sequential program: it goes on as long as it can.      *)
ConvertSpec ==
  ConvertInit /\ [][ConvertNext]_convertVars /\ WF_convertVars(ConvertNext)
-----------------------------------------------------------------------------
(* Correctness.                                                              *)

(* Every variable stays in the range of its C variable.                      *)
ConvertTypeOK ==
  /\ TypeOK
  /\ pc \in {"headers", "read", "walk", "keepalive", "text", "finish",
             "done", "failed"}
  /\ need \in {"id", "timing", "text", "eof"}
  /\ start \in Times \cup {-1} /\ end \in Times \cup {-1}
  /\ last \in Times
  /\ walk \in Times \cup 0 .. MaxTime + Step - 1
  /\ missing \subseteq 1 .. Len(stream)

Timed == {"timing", "lyric"}

(* The times of a file do not go back.                                       *)
InOrder(f) ==
  \A i, j \in 1 .. Len(f) :
    i < j /\ f[i].kind \in Timed /\ f[j].kind \in Timed => f[i].t0 <= f[j].t0

(* A file in order makes the converter a client that goes forward in time,   *)
(* whatever fails: the walks never call the encoder for a time that is past. *)
KeepsPromises == [][InOrder(file') => [Orderly!Next]_encoder]_convertVars

(* The events of a file, read off its lines: of SubRip, a number, times and  *)
(* more, after a blank line or at the start; of LRC, a line with words and   *)
(* the next line that has a time.                                            *)
IsCue(i) ==
  /\ 1 < i /\ i < Len(file)
  /\ file[i].kind = "timing"
  /\ file[i - 1].kind \in {"id", "timing"}
  /\ i = 2 \/ file[i - 2].kind = "blank"

NextLyric(i, j) ==
  /\ i < j
  /\ file[j].kind = "lyric"
  /\ \A k \in i + 1 .. j - 1 : file[k].kind # "lyric"

IsSung(i) ==
  /\ file[i].kind = "lyric" /\ Words(file[i])
  /\ \E j \in 1 .. Len(file) : NextLyric(i, j)

CueLines ==
  {i \in 1 .. Len(file) : IF format = "srt" THEN IsCue(i) ELSE IsSung(i)}

TextPackets == {j \in 1 .. Len(stream) : stream[j].op = "text"}

(* A packet has the times that the file gives the cue at line i.             *)
Gives(i, p) ==
  /\ p.start = file[i].t0
  /\ format = "srt" => p.end = file[i].t1
  /\ format = "lrc" => \E j \in 1 .. Len(file) : NextLyric(i, j) /\ p.end = file[j].t0

(* The cues at the lines of S are the text packets of the stream, each of    *)
(* them once, and in order.                                                  *)
AreSent(S) ==
  \E at \in [S -> TextPackets] :
    /\ \A i \in S : Gives(i, stream[at[i]])
    /\ \A i, k \in S : i < k => at[i] < at[k]
    /\ \A j \in TextPackets : \E i \in S : at[i] = j

(* A conversion that succeeds puts each event of the file in the stream,     *)
(* once and in order, between the times the file gives.                      *)
CuesAreSent == pc = "done" => AreSent(CueLines)

Smooth == InOrder(file) /\ failures = 0 /\ missing = {}

Data == {i \in 1 .. Len(stream) : stream[i].op \in DataOps}

(* "Use repeat packets with given threshold": a player that seeks to any     *)
(* packet never goes back by more than the threshold and the step of a walk. *)
SeekDistanceBounded ==
  Smooth /\ repeatT > 0 =>
    \A i \in Data :
      stream[i].t - BaseOf(stream[i].gp) < repeatT + Step

(* "Use keepalive packets with given threshold": no two packets are further  *)
(* apart than the threshold and the step of a walk.                          *)
NoLongSilence ==
  Smooth /\ keepT > 0 =>
    \A i \in Data :
      \/ stream[i].t < keepT + Step
      \/ \E j \in Data : j < i /\ stream[i].t - stream[j].t < keepT + Step

(* The thresholds of the command line hold together, at each packet.         *)
CadenceKept == ConvertTypeOK /\ SeekDistanceBounded /\ NoLongSilence

(* Every conversion ends: a walk does not go on for a repeat that stays due. *)
Ends == <>(pc \in {"done", "failed"})
-----------------------------------------------------------------------------
(* The inductive invariants of the converter.                                *)

Emitting == pc \in {"walk", "keepalive", "text"}

(* What has been gathered of an event is there when it is needed.            *)
ReaderSound ==
  /\ ConvertTypeOK
  /\ format \in Formats /\ repeatT \in Thresholds \cup {0} /\ keepT \in Nat
  /\ text \in BOOLEAN /\ words \in BOOLEAN
  /\ file \in Seq(SrtLines \cup LrcLines)
  /\ pc \in {"headers", "failed"} \/ packetno >= NumHeaders - 1
  /\ pc = "keepalive" => walk < start
  /\ Emitting => start \in Times /\ end \in Times
  /\ format = "srt" /\ need = "text" => start \in Times /\ end \in Times
  /\ format = "lrc" => need = "id"
  /\ format = "lrc" /\ text => start \in Times

(* A line of the file is at t or later.                                      *)
Reached(t) ==
  t <= 0 \/ \E i \in 1 .. Len(file) : file[i].kind \in Timed /\ t <= file[i].t0

(* In a file in order nothing is sent before its time.                       *)
GoesForward ==
  InOrder(file) =>
    /\ Reached(start) /\ Reached(last)
    /\ pc \in {"headers", "read"} => clock <= last
    /\ Emitting => clock <= start /\ last <= start
    /\ pc \in {"walk", "keepalive"} => clock <= walk
    /\ format = "srt" /\ need = "text" => last <= start
    /\ format = "lrc" /\ (text \/ Emitting) => last <= start
    /\ format = "lrc" /\ Emitting => Reached(end)

ForwardInvariant == ReaderSound /\ GoesForward

(* The line of times that convert_srt has read last.                         *)
Gathered(i) ==
  /\ 1 < i /\ i <= Len(file)
  /\ file[i].kind = "timing"
  /\ file[i - 1].kind \in {"id", "timing"}
  /\ i = 2 \/ file[i - 2].kind = "blank"
  /\ \A k \in i + 1 .. Len(file) : file[k].kind # "timing"
  /\ start = file[i].t0 /\ end = file[i].t1

LastLine(kinds) == file # <<>> /\ file[Len(file)].kind \in kinds

(* Where convert_srt is in the file, and which cues are in the stream: all   *)
(* but the one it is about, if any.                                          *)
SrtPlace ==
  /\ pc = "read" /\ need = "id" => file = <<>> \/ LastLine({"blank"})
  /\ pc = "read" /\ need = "timing" =>
       /\ ~text /\ LastLine({"id", "timing"})
       /\ Len(file) = 1 \/ file[Len(file) - 1].kind = "blank"
  /\ pc = "read" /\ need = "text" =>
       \E i \in 1 .. Len(file) :
         /\ Gathered(i) /\ (text <=> i < Len(file))
         /\ AreSent({k \in CueLines : k < i})
  /\ (pc = "read" /\ need # "text") \/ pc \in {"finish", "done"} => AreSent(CueLines)
  /\ Emitting =>
       /\ need = "eof" \/ (need = "id" /\ LastLine({"blank"}))
       /\ \E i \in 1 .. Len(file) :
            /\ Gathered(i) /\ i < Len(file)
            /\ AreSent({k \in CueLines : k < i})

Spoken == {i \in 1 .. Len(file) : file[i].kind = "lyric" /\ Words(file[i])}

(* Where convert_lrc is: the last lyric waits for the next, or the one before*)
(* it is about to be sent.                                                   *)
LrcPlace ==
  /\ pc = "read" =>
       IF text
       THEN \E i \in Spoken :
              /\ Spoken \subseteq CueLines \cup {i}
              /\ \A k \in i + 1 .. Len(file) : file[k].kind # "lyric"
              /\ start = file[i].t0
       ELSE Spoken \subseteq CueLines
  /\ pc \in {"read", "finish", "done"} => AreSent(CueLines)
  /\ Emitting =>
       \E i \in Spoken :
         /\ NextLyric(i, Len(file))
         /\ start = file[i].t0 /\ end = file[Len(file)].t0
         /\ words = Words(file[Len(file)])
         /\ Spoken \subseteq CueLines \cup {Len(file)}
         /\ AreSent({k \in CueLines : k < i})

(* Every cue that has been read has been sent, but the one at hand.          *)
CueInvariant ==
  /\ ReaderSound
  /\ pc = "headers" => file = <<>> /\ need = "id" /\ ~text /\ TextPackets = {}
  /\ format = "srt" => SrtPlace
  /\ format = "lrc" => LrcPlace

(* Until a repeat cannot be allocated, the encoder's books are right.        *)
BooksHold ==
  InOrder(file) /\ (failures = 0 \/ "repeat" \notin Faults) => InOrderInvariant

(* An event that has not ended has been sent less than w before t.           *)
SentWithin(t, w) == \A d \in timings : d.end <= clock \/ t - d.repeat < w

(* The repeats are in time for the step that comes next.                     *)
RepeatsInTime ==
  /\ pc \in {"headers", "read"} => SentWithin(last, repeatT + Step)
  /\ pc = "walk" => SentWithin(walk, repeatT + Step)
  /\ pc = "keepalive" => SentWithin(walk, repeatT)
  /\ pc = "text" => SentWithin(start, repeatT + Step)

(* So are the keepalives.                                                    *)
KeepalivesInTime ==
  /\ pc \in {"walk", "keepalive"} => walk - last < keepT + Step
  /\ pc = "text" => start - last < keepT + Step
  /\ last = 0 \/ \E j \in Data : stream[j].t = last

(* While nothing goes wrong, every event that is kept can be repeated, and   *)
(* what is due is never later than the next step.                            *)
Paced ==
  /\ kpb = Empty
  /\ \A d \in timings : d.data = "text" \/ d.end <= clock
  /\ repeatT > 0 => RepeatsInTime
  /\ keepT > 0 => KeepalivesInTime

CadenceInvariant ==
  /\ ForwardInvariant
  /\ BooksHold
  /\ Smooth => Paced
  /\ SeekDistanceBounded /\ NoLongSilence
=============================================================================
