# libkate in TLA+

libkate encodes and decodes Kate streams: timed text (subtitles, lyrics) and
images, multiplexed with audio and video in Ogg. A client of the encoder makes
packets of timed events; a player gives packets to the decoder and gets events
back. What makes the library hard is neither threads (a `kate_state` belongs to
one thread) nor I/O (there is none), but that a stream must make sense from any
point of it: packets are lost, players seek, and an event may have started long
before the point where a player lands. The encoder keeps books on the events
that are still active to write *granule positions* that say how far to go back,
and *repeat* packets that carry an event again; the decoder keeps books on the
events it has, to drop the repeats it does not need. Both must stay right when a
call fails half way. Around the library are its tools: kateenc makes streams of
SubRip and LRC files and of a description language, katedec prints streams in
the same three forms.

Paths below are in the repository; all the modules are in this directory.

## The parts of the system

| Part | State | Operations | What makes it correct |
| --- | --- | --- | --- |
| Encoder data path: `src/kate_encode.c`, `src/kate_encode_state.c` | `kate_encode_state`: `timings` (start, end, id, time of the last repeat, saved packet and its repeat), `id`, `granulepos`, `packetno`, `eos`, the bit buffer `kpb` | `kate_encode_headers`, `_text`, `_keepalive`, `_repeat`, `_finish` (and their `_raw_times` forms) | granule positions never decrease; from the base of any of them every active event is found; a failed call does no harm |
| Event parameters: same files | pending motions, bitmaps, metadata, overrides | `kate_encode_add_*`, `_set_*`, `_merge_meta`, cleared with each packet | what is set is in the next event, and in no other; motions are destroyed once |
| Decoder data path: `src/kate_decode.c`, `src/kate_decode_state.c` | `kate_decode_state`: `event`, `active_events` | `kate_decode_packetin`, `_eventout`, `_seek` | each event delivered once; repeats recover what was missed |
| Headers: both `.c` files, `src/kate_info.c` | `probe`, `num_headers`, the lists of regions, styles, curves, motions, palettes, bitmaps, font mappings | `kate_encode_headers`, `kate_decode_headerin`, `kate_info_add_*` | header n is decoded n-th; what the decoder has is what the encoder had |
| Packets: both `.c` files, `src/kate_bitwise.c`, `kate_fp.c`, `kate_rle.c` | none | `kate_encode_*`, `kate_decode_*` of each kind of item | decoding inverts encoding across versions; a packet that is cut is refused |
| Events and trackers: `src/kate_event.c`, `src/kate_tracker.c` | `trackers` of an event, the `kate_info` it refers to; `has` of a tracker | `kate_event_create`, `_track`, `_release`, `kate_tracker_init`, `_update`, `_clear` | an event lives as long as someone tracks it; a tracker shows the event as it is at its time |
| Memory guard: `src/kate_decode.c` | the pointers allocated by one decoding function | malloc, flush, merge, destroy | everything is freed once when decoding fails, nothing when it succeeds |
| Stream information, metadata and comments: `src/kate_info.c`, `kate_meta.c`, `kate_comment.c` | language, category, granule encoding; lists of tags | set, add, query, remove, merge, copy | what the client said is what the player is told |
| Pure algorithms: `src/kate_granule.c`, `kate_text.c`, `kate_motion.c`, `kate_font.c` | none | conversions | they hold at the limits too |
| Ogg glue and high level API: `src/kate_ogg.c`, `src/kate_high.c` | none of their own, `probe` | wrappers | the right call for the phase of the stream |
| kateenc: `tools/kateenc.c` | `last_stream_time`, the event being read | `update_stream_time`, `convert_srt`, `convert_lrc` | every event of the file is in the stream; repeats and keepalives come at a steady pace; the conversion ends |
| Descriptions: `tools/kate_parser.y`, `kate_parser.c`, `kate_lexer.c` | the items defined so far and their names, the item being read, static buffers | the actions of the grammar | an event is what its statements say |
| katedec: `tools/katedec.c`, `kstream.c`, `kkate.c`, `ksrt.c`, `klrc.c` | one `kate_stream` for each serial number, its file | pages in, events printed | each file holds one stream, whole; what is printed as a description is read back |
| katalyzer, KateDJ, examples, tests, patches | | | input and output around the library |

The parts meet in few places. The encoder's packets reach the decoder through a
transport that may lose, cut or damage them. The granule position of a packet,
written by the encoder, is read by the player's seek. A `kate_info` is shared by
the encoder's client, or by decoder, events and trackers. kateenc drives the
encoder through the Ogg glue; players and katedec drive the decoder through the
high level API. A description goes through both: katedec prints what kateenc
reads.

## What is hard to test here

`PROJECT.json` lists the hazards with their lines. In short: a call that fails
after it has changed the encoder; long sequences of overlapping events whose
repeats move the base of later packets; calls that go back in time; the
boundaries `end <= t`, `repeat > t - threshold`, an event of no duration; the
parameters of an event that a packet of another kind clears; the decoder's list
when packets are lost, when a seek is followed by older events, and when ids come
again; headers out of step with `probe`; packets of other versions and packets
that are cut; who frees what when decoding fails, and who outlives whom; the walk
of the converter between two events; pages of streams that alternate, with holes;
and a parser that keeps what it reads in static variables.

## The modules

| Module | Models | Over |
| --- | --- | --- |
| `KateEncoder` | the encoder's data path | |
| `KateDecoder`, `KateDecoderList` | the decoder's data path; its list as the array it is | |
| `KateHeaders` | the order of headers at the decoder | |
| `KateStream` | encoder, transport, player and decoder | extends `KateEncoder`, an instance of `KateDecoder` |
| `KateChannel` | the abstract channel that `KateStream` implements | |
| `KateChoices`, `KateParams` | the parameters of the next event: what they promise, and how they are kept | `KateParams` implements `KateChoices` |
| `KateEventLife` | events, references, trackers, the memory guard, a `kate_state` from init to clear | |
| `KateFields`, `KateRle`, `KateText`, `KateMotion` | fields and numbers; run length bitmaps; UTF-8 and markup; curves, motions and fonts | each over the one before |
| `KateBitstream`, `KatePackets`, `KateTags` | the items of headers; whole packets; what is said and asked of a stream | |
| `KateCodec` | one packet from an encoder to a player | `KateTags` and all below it |
| `KateConvert` | kateenc on SubRip and LRC files, the Ogg glue | extends `KateEncoder` |
| `KateDump` | katedec and its files, one per Kate stream | |
| `KateScriptText`, `KateWriter`, `KateScript` | texts and entities in descriptions; katedec's printing of a stream; the parser | each over the one before |

`MC…` modules instantiate them for TLC, `…Proofs` modules hold theorems.

### KateEncoder

One variable per field of `kate_encode_state` that outlives a call, plus
`stream`, the packets the client was given, `clock`, the latest time it has used,
and `failures`. An action is an API call with its outcome: `EncodeText` is the
call that succeeds; `EncodeTextRejected`, `EncodeTextNoSlot`,
`EncodeTextBadMotion`, `EncodeTextNoPacket`, `EncodeTextNotSaved` are its early
returns, each with what the call had done by then. Calls refused before anything
changes (`KATE_E_INVALID_PARAMETER`, text that is not valid UTF-8, anything after
the end) are not steps.

| Code | Here |
| --- | --- |
| `timings[]` | a set of records; `Trimmed`, `NewTiming`, `IsEarliest`, `IsLatest`, `Repeated` are the functions of `kate_encode_state.c` |
| `original_data` | only what `kate_encode_state_get_repeat` can tell of it: absent, a text packet, a text packet with rubbish before it, or not a text packet |
| `kpb` | which call's bytes are left at the front of the buffer; `Started` and `Emit` |
| `(earliest_t << shift) \| (t - earliest_t)` | `Granule`, with a real bitwise or |
| a packet | a record: the call, the type in its first byte, whether it holds only what that call wrote, id, times, granule position, packet number |

Constants bound the model (`MaxTime`, `MaxPackets`, `MaxFailures`) and say what
may happen: `Faults` are the points of failure, `Promises` what the client keeps
to. A client that keeps `"order"` never passes a time before one it has passed;
one that keeps `"lifetime"` makes no event longer than the granule shift was chosen
for, as `kate_info_set_granule_encoding` asks. The array is a set because the
order decides only which of several due events `kate_encode_repeat` picks, which
is left open; two timings that agree on every field count once, and no decision
of the code depends on how many there are. 64 bit overflow of the shift is out of
the model: times are small.

### KateDecoder, KateDecoderList

`active` is `active_events[]`, `event` is what `kate_decode_eventout` returns. A
packet is its type, id, times, and whether the rest of it parses; `Packets` is
the set of those that may arrive. `PacketIn` is `kate_decode_packetin` with every
type; `DecodeFails` is a packet that does not parse or for which memory runs out.
`KateDecoderList` adds `slots`, the array in its order: pruning moves the last
entry into the hole and steps back (`Looked` is one iteration of the loop,
`Compacted` all of it, a recursive function), and `SlotsAreActive` says that
the array is the set that the rest of the models and proofs speak of.

### KateHeaders

The decoder before the data: `probe` and `numHeaders` are those of `kate_info`,
`taken` the headers decoded so far. A header that arrives is taken
(`TakeHeader`), refused because another one is due (`RefuseHeader`), or fails to
decode (`FailHeader`); once the last known header is taken, `probe` is -1 as
`kate_high_decode_packetin` sets it, headers are ignored and data is decoded. The
stream announces nine headers or, in a later version, more. The transport may
lose the headers in `Losable`, and the player may start over. What a damaged ID
header leaves in `num_headers` is in `Misread`. Streams that announce fewer headers
than the decoder knows are left out: no encoder makes them, and the high level API
never gets to their data.

### KateStream, KateChannel

`KateStream` extends the encoder and has the decoder by `INSTANCE`, over the packets
that an encoder makes; `texts` remembers which packets of the stream are events, for
the abstract channel. `Play` is the loop of a
player on `kate_high_decode_packetin`; `Lose` and `Damage` are the transport;
`SeekTo` is a player that calls `kate_decode_seek`, lands on any data packet and
resumes at the first packet whose time is not before its base. The transport and
the player are outside this repository and modelled from how the API is meant to
be used. The stream starts after the headers. Calls that leave bytes in the
encoder's buffer are excluded by `StreamAssumption`: how the decoder reads a packet
that starts with a piece of another one depends on every bit of both.

`KateChannel` is what all of it promises to a client and a player who never
meet a loss: a queue of events, each delivered once and in order, in the end.

### KateParams, KateChoices

`KateParams` has the arrays of `kate_encode_state` as they are: `motions`,
`indices` and `destroy` with the size each has been grown to (a growth may fail
after any of them), `bitmaps`, `own` and `index` for what is set by value or by
index, and the pending metadata, which the client's object is moved into or
copied to. `owner` says who has to destroy each motion. Items may be added to the
`kate_info`, headers encoded, events and other packets made, each call at any time
and any allocation failing. `KateChoices` knows none of this: a client chooses,
adds to lists, and an event carries the choices. `CarriesChoices` is the refinement:
what is chosen so far is `Pending`, read off the arrays as the encoder would read
them; a call that fails, or that is about something else, is `Refuse`.

### KateEventLife

`events` are those that live, with their reference counts and the `kate_info` they
were decoded with; `current` is the decoder's `event`, `held` what each tracker
holds, `heap` the blocks that are allocated, by event and part. `DecodeText` is a
text packet that decodes, `DecodeFails` one that fails after any number of its
allocations: the guard frees what it has, and what it does not have is lost.
`Open`, `OpenFails` and `Close` are the life of the `kate_state`; `has` is what
`kate_tracker_update` leaves in a tracker's `has` flags, with the motions of time
that change the time the rest of the update uses.

### KateCodec and the modules under it

A packet is a sequence of fields, each with its width and value; `Put…` operators
write them and `Get…` read them, one pair for each function pair of the code, over
records that are the structures. What is added by later versions comes after
warps, skipped by length. A reader fails when a field is missing, or when the width
it asks for is not that of the field: the code would read other bits. `KateCodec`
takes a packet through its steps: `Encode` (any header or event, by an encoder of
any version 0.0 to 0.7 or a later one), `Cut` at any field, `Follow` with more, or
`Misdirect` from a stream with other tables, `Decode`, and what a player then does:
draw a curve, follow a motion, look up a glyph, count characters, ask for a
language or tags. Numbers are exact fractions where the code has floating point;
16.16 numbers, run lengths, granules and thousandths have scaled down widths
(`FpBits`, `RunBits`, `GranuleBits`, `Milli`), and all the limits of
`kate_decode.c` are one (`Limit`).

### KateConvert

`pc` is where `kateenc` is: reading a line (`ReadSrt`, `ReadLrc`, `EndOfFile`),
walking from the last packet to the next event (`WalkRepeats`, `WalkKeepalive`,
`WalkEnds` are the loop of `update_stream_time`), encoding it (`Text`,
`TextFails`), finishing. The module extends `KateEncoder`, each call with its failures
of timings, saved packets and repeats; `ConvertAssumption` leaves out those that leave
bytes in the encoder's buffer (`"packet"`, `"content"`). It takes no promise for granted
(`Promises` is empty): that
the converter is a client that goes forward in time is `KeepsPromises`, stated with
`Orderly`, the same encoder under `INSTANCE` with a client that must. `missing` are
the packets that do not reach the output, if `OutputFails`: the Ogg glue has no memory for
its copy (`NotCopied`), or the page is not written (`NotWritten`), of a header, an event, a
repeat, a keepalive or the end. A line of a file is its kind and its times; lines above the
first lyric of an LRC file are passed over. The last section of the module has the invariants that
carry its theorems.

### KateDump

Pages of several streams alternate in any order, any page may be lost, and the file
may end anywhere. `given` is the file, the pages of each stream in order; `next` is
how far each stream has been read, and `lost` the pages that did not come. A packet
names its stream and its place in it, so that what is in a file can be compared with
what was in the pages. `streams` is the list of `kate_stream`: its `queue` holds the
packets libogg has not handed out, with a mark where page numbers have a gap, `fout`
is the name of its file in a set, empty for `NULL`, and `from`, kept for the
properties, the first page it took. `files` is what has been printed to each name,
`disk` the names that are not deleted. A page that comes or is lost, each packet of it, the gap that
libogg reports (`Hole`), the forced end of truncated streams (`ForceEnd`) and the
closing and deleting of files (`ClearSet`) are actions; the printing of an event in
each of the three formats keeps the times with their rounding.

`WellFormed` is what a multiplexer does, and all that is assumed of a file: the pages of a
stream are numbered one by one from the one that starts it, the first header of Kate
comes only on a page that starts the stream (kateenc makes it the first packet, and libogg
gives that a page of its own), a page that starts a stream of Kate has that header first, the
numbers of headers are below `Headers`, and each packet is that of the stream it is in.
Everything else may come: streams that are not Kate, the other headers in any order or
missing, a stream that starts again, packets after the end. What is assumed of headers matters:
`kate_decode_headerin` would take them unchecked before the ID header, and one whose number is
not below that of the ID header at any time (`kate_decode.c:1086`); `HeaderFits` refuses every
header that is not due, which is the same for these files.
The last section has the inductive invariants.

### KateScript, KateWriter, KateScriptText

A statement of a description is a step. The state is the parser's: `info` and `names`
(the items that were defined), `parser` (the static variables and the encoder's
overrides), `header` and `sent` (what was encoded). `said` and `saidlog` keep what the
statements said, for the properties; a statement that is not understood as it was written is
there as it was understood. A description is any sequence of statements of a topic
(styles, text, karaoke, curves and motions, bitmaps, fonts, times), within
`Budget`, or the one that `KateWriter` prints for a stream. Texts are sequences of the
characters that matter to entities, markup, escapes and the trimming of blanks.
A string that was scanned stays in the lexer's buffer, and the names of items, the tags of
metadata and the words of a morph are used after more was scanned. The lexer may have filled
its buffer again by then: what is found is one of `Spoils`, which may be no characters at all
(`Readings`, `NamesRead`), and the event is among the `spoilt`. If the buffer grew, the
string is looked for in memory that was freed (`Lose`), and the description ends there with
`lost`. The encoder looks at the time and the text of an event as `kate_encode_text` does:
`timings` and `lastBase` say whether an event or a keepalive goes back in time, which the
encoder refuses and the parser tells; what was set then waits for the next event.
`Grammar` is the set of all statements; what the program does with each does not depend on the topic. A
statement that comes where the grammar has none ends the reading (`Unreadable`), headers
that the encoder refuses end the program (`HeadersFail`).

## The runs

Deadlock is not checked where a program may stop: after `kate_encode_finish` a client
is done, and so is a player that has read a packet. `decoder_any`, `headers_order` and
`params` check it.

| Run | Instance | Shows |
| --- | --- | --- |
| `encoder_faults` | times 0..3, 3 data packets, 2 failures anywhere but in a repeat, shift 1, thresholds 0 and 2, a client that keeps its promises | `SeekCovers`: every event active at a packet is carried again at or after its base; `NoLateRejection`; `PositionsAreRight`; `InOrderInvariant`, the inductive invariant of the proofs |
| `encoder_anyorder` | times 0..3 in any order, lifetimes of any length, 3 data packets, 2 failures, a repeat may run out of memory | `StreamNonDecreasing`, `RepeatsAreLive` for a client that promises nothing |
| `decoder_any` | all packets of three ids and none, four granules, sound or not | `ActiveTogether` for every sequence of packets, `SlotsAreActive` for the array |
| `headers_order` | 9 or 10 headers, 3 lost or failing, 2 restarts | `DataNeedsHeaders`, `CleanPassOpens` |
| `stream_channel` | times 0..2, 4 data packets, 1 failing call | `IsChannel`: `KateStream` implements `KateChannel`, liveness included |
| `stream_seek` | times 0..3, shift 1, 4 data packets, 1 seek, 1 loss | `SeekRecovers` and `HeardIsDelivered` |
| `codec_packets` | each of nine headers empty and with an item of each shape, events with each parameter by index and by value, encoders of versions 0.0 to 0.7 and a later one; whole, cut at each field, followed by more, or of another stream | `RoundTrip`, `CutStoresNothing`, `IndicesInTables`; `TextSound`, `MotionsSound`, `PositionsHold`, `QueriesAnswered` of what a player does then |
| `memory` | 3 events of three contents, 2 streams, 2 trackers, failures after each allocation | `HeldIsLive`, `OwnedIsAllocated`, `NoStaleInfo`, `TrackerShowsNow` |
| `params` | one kind by index or value, 1 item, 2 motions that do the same and a stored one, 1 metadata object of 1 leaf, 1 failure | `ParamsInvariant`, `EventIsDecodable`, `CarriesChoices` |
| `driver` | SubRip files of 7 lines, LRC files of 4, times 0..3, threshold 1 for repeats, 0 or 2 for keepalives, failures of timings, saved packets, repeats, Ogg copies and writes | `CuesAreSent`, `CadenceKept`, `KeepsPromises`, `Ends` |
| `dump` | four files of two or three Kate streams, with a spoiled packet, a stream that goes on after its end, one whose headers are out of order, one that comes twice, pages in any order, one page lost, three formats, four output names | `FilesWhole`, `NothingSkipped`, `TimesRight`, `DeletesSpoiled` |
| `script` | every sequence of up to five statements of each of eight topics after its definitions, and what katedec prints of some thousands of streams, any string spoilt that may be | `WrittenIsRead`, `EventsStandAlone`, `TextKept`, `KaraokeOnTime`, `SentIsSound` |

The bounds: four granules let an event contain another, overlap it, touch it or
be of no duration, with repeats in between. With a shift of one the offset field
is full after two granules, so carries into the base would show. Three or four
data packets make the shortest histories that matter: two overlapping events, a
repeat of one, and the packet whose base is in question. Two failures let one
failed call spoil the recovery from another. `encoder_faults`, `stream_channel` and
`stream_seek` have two headers instead of nine: the data path knows of the headers
only that they come first and count as packets. In `headers_order` three losses and
two restarts let a header be missed in each pass, and one more. In `codec_packets`
each function pair of the code meets each shape of its item, and a list one item
or none; lists differ from one item on only in their count. In `memory` two trackers
and three events let a tracker hold an event while the decoder drops it, decodes
another and fails at a third, and two streams let it outlive one. In `params` two
packets are enough for a parameter to leak from one into the next, and the second
motion of the same kind comes by value and by index. In `driver` seven lines are two
events and the beginning of a third, cut anywhere; three time steps between two events
are longer than any threshold. In `dump` a stream has five pages at most: headers on
two of them, since their contents do not matter here. In `script` an item of each kind
can be defined, derived from and used twice.

Each property of a run has a mutant in `PROJECT.json`, a slip defined beside the
operator it replaces (`TrimmedLate`, `AgainPast`, ...), under which TLC finds the
property violated.

## Fairness

`KateEncoder`, `KateDecoder`, `KateHeaders`, `KateParams`, `KateEventLife`: none, a
client may stop at any time. `KateCodec`, `KateDump` and `KateScript` state no
liveness.
`KateStream` has `WF_streamVars(Play)`: a player reads on as long as there are packets,
and no call of the decoder blocks. Nothing is assumed of the client, of the
transport, or of seeks. `KateChannel` has the same for `Receive`, and `IsChannel`
shows that the first implies the second.
`KateConvert` has `WF_convertVars(ConvertNext)`: kateenc is one process that never waits for
another. `Ends` shows that it comes to an end: a loop in the walk would be a
behaviour that takes steps for ever.

## The proofs

`tlapm` checks all of them; they hold for every value of the constants that
satisfies the assumptions of the modules (`ConstantsAssumption`, and
`BitOrAssumption` of the bitwise or: that it is a natural number, and that
`a | 0 = a`; of `KateDump` also `InputsAssumption`, `HeadersAssumption` and
`RateAssumption`: well formed files, at least one header, a rate above zero; of
`KateScript` `DescriptionsAssumption`: statements are of `Grammar`, what is read of an
unset variable is told from every number, and what is found in place of a string is a string).

* `KateEncoderProofs`, for every client, every order of its calls and every failure:
  `TypeCorrect`, `Spec => []TypeOK`, with one step per action in `TypeStep`;
  `GranulesNeverDecrease`, `[]StreamNonDecreasing`; `RepeatsAreCopies`,
  `[]RepeatsAreLive`. `AnyOrderInvariant` carries the last two: the position of the
  last packet is in `granulepos`, which every later packet has to reach
  (`StreamBehind`), and what the books keep as the copy of an event is that of a text
  packet, of which no later copy is in the stream (`SavedIsEmitted`).

  For a client that keeps `"order"` and `"lifetime"`,
  with every failure but that of a repeat (`InOrderClient`): `StreamIsSeekable`,
  `Spec => []SeekCovers`; `BooksAreRight`, `Spec => []InOrderInvariant`;
  `NothingIsRejected`, `Spec => []NoLateRejection`.

  `SeekCovers` speaks of the stream only and is not inductive: that a packet of
  an active event lies at or after the base of the next granule position follows
  from the encoder's books. `InOrderInvariant` says they are right:
  `TimingsOrdered` (what is kept was emitted in the past and fits the offset),
  `BaseBehind` (the last base is behind the last packet of everything that is
  kept), `RepeatTimeIsEmitted` (the time in the books is that of a packet in the
  stream), `LiveEventsKept` (every event of the stream that has not ended is in
  the books). The new base is the earliest time in the books, so an event active
  at the packet has a copy at or after it; older packets keep theirs, because the
  stream only grows. `NoLateRejection` follows from `BaseBehind`: a base that is
  not before the last one, or the same one with a larger offset, makes a larger
  position. That is also why `"repeat"` must be excluded: a repeat that cannot be
  allocated counts as emitted, which breaks `RepeatTimeIsEmitted`.

  `PositionsAreExact`, `[]PositionsAreRight`, needs besides that, until a call fails, every event
  in the books that has not ended has a packet at the time the books say
  (`KeptIsEmitted`); the invariant is `PositionsInvariant`.
* `KateDecoderProofs`: `ListSound`, `Spec => [](TypeOK /\ ActiveTogether /\
  ActiveOnce)`, for every set of packets. `ArrayHoldsActive`, `[]SlotsAreActive`, is of
  the array: after k iterations of the loop the entries before the index are those to
  keep, and none to keep has been lost; that the loop is over after as many iterations
  as there are entries is an induction on k. With it, `ArrayImplementsSet` shows that
  the decoder with the array implements the one with the set (`ListSpec => Spec`), and
  `ArrayActiveTogether` reads `ActiveTogether` off it.
* `KateDecoderProofs` holds the theorem of `KateHeaders` too: `HeadersComeFirst`, for
  every number of headers and every pattern of losses, failures and restarts, if the ID
  header is neither lost nor damaged (`IdHeaderArrives`; it may fail for lack of
  memory): data only after all headers in order, and a pass without losses gets to the
  data. A player knows a Kate stream by its ID header (`kate_decode_is_idheader`), so
  the assumption is the usual case; without it the code does take the headers in any order.
  `HeadersInvariant` adds what makes this inductive: `numHeaders` is that of the
  stream once the player has moved (`CountKnown`), `probe` counts the headers decoded
  (`ProbeCounts`), and in a pass without losses the header that is due has not gone by
  (`NotMissed`).
* `KateStreamProofs`: encoder and decoder together.
  * `HeardSuffices`, `[]HeardIsDelivered`, for every client, every loss and seek: the
    decoder's list and what it has delivered agree on every id (`ActiveIsDelivered`).
  * `SeeksRecover`, `[]SeekRecovers`, for a client that keeps `"headers"` besides
    (`HeadersFirst`) and is an `InOrderClient`: `SeekCovers` says that a copy of the event
    lies at or after the base, and `HeardIsDelivered` that hearing a copy is enough.
  * `StreamIsChannel`: the safety part of `IsChannel`, for a client that keeps
    `"order"` and `"headers"` (`TimeOrder`, `HeadersFirst`) and a player that neither
    misses a packet nor seeks (`NothingMissed`). The player has been given
    the events it has gone past, in their order (`GivenInOrder`), and the decoder's list
    has all of those that a repeat could still come of, and no other (`ActiveIsKnown`):
    neither is an event taken for a repeat, nor a repeat for an event. The invariant is
    `ChannelInvariant`.
* `KateParamsProofs`: `ChoicesSound` (`ArraysCover`, `OneMotionEach` and the others hold
  for every client); `KeptForNextEvent`, `[]ParamsInvariant`, and `EventsDecodable`,
  `[]EventIsDecodable`, for a client that makes its headers before its events and adds
  no item after them (`Careful`, what the documentation of the API tells it to do);
  `ChoicesAreCarried`, `Spec => CarriesChoices`, for one that makes its headers first.
  `KateChoices` has no liveness, so that this refinement is proved whole.
* `KateStreamProofs` holds the theorems of `KateConvert` too, for files of every length,
  every threshold and every failure that `ConvertAssumption` has: timings, saved packets,
  repeats, Ogg copies and writes.
  * `ConverterKeepsPromises`, `KeepsPromises`: `ForwardInvariant` says where the
    encoder's clock is at each point of the converter, and that every time the walk or
    an event will use is one that a line of the file has reached.
  * `ConversionsAreSeekable`: `SeekCovers` of the stream of a file in order, as long as
    no repeat has failed to be allocated (`BooksHold`). The theorems of the encoder are
    used step by step, the promises they need being those just proved.
  * `CadenceIsKept`, `[]CadenceKept`: `CadenceInvariant` adds that what is kept was sent
    less than a threshold and a step before the walk (`RepeatsInTime`) and so was the last
    packet (`KeepalivesInTime`).

  Those two assume `LongShift`, that offsets reach over the whole file:
  `granule_shift` is 32 (`kate_info.c:39`), and kateenc never sets another.
  * `EventsAreSent`, `[]CuesAreSent`, without any assumption. The property says that an
    order-preserving function takes the cues of the file onto the text packets of the
    stream (`AreSent`). `CueInvariant` adds where the reader is: what its lines since
    the last cue have been gathered into (`SrtPlace`, `LrcPlace`), and that every cue
    but the one at hand is sent; each text packet extends the function by one cue, and a
    packet of another kind leaves it alone.
* `KateEventLifeProofs`: `EventsAreOwned`, for every number of trackers, streams and
  packets of any content: `CountIsHolders`, `HeldIsLive`, `OwnedIsAllocated` and
  `LostIsKnown`, which with `TypeOK` are inductive as they stand (`Ownership`): the
  last reference is let go exactly when nobody holds the event, because the count is
  the number of holders. `InfoOutlivesEvents`: `NoStaleInfo` for a client that clears
  its trackers before the stream (`"trackers first"`); the invariant that carries it is
  that while a stream is open, every event is one of that stream, and that none is left
  when it closes. Nothing in the code or its documentation asks this of a client, and
  without it `kate_event_release` reads a `kate_info` that has been cleared.
  `TrackersShowNow`, `[]TrackerShowsNow`: what an update leaves in a tracker depends on
  nothing but its time and the event.
* `KateDumpProofs`, for every file that is `WellFormed`, any number of streams, any name,
  format and rate, and every loss of pages. The invariants are built in layers, each of
  which the next needs:
  * `PagesSound` says that what was lost or taken has gone by. `StreamsSound` adds that of
    two streams of one serial number only the first takes pages (`Untouched`), and that of
    the packets a stream was given those that wait come after those that are done
    (`QueueSound`): the numbers grow from page to page, and a page is put behind the queue.
  * `GapsAreLosses`: a stream that starts once and has lost no page expects the number of
    its next page, so that no mark is put in its queue, and its queue is empty between pages.
  * `OutputSound`: no two streams have one file; what a stream has seen of its done packets
    is in `probe`, `init` and `ret` (`ProgressSound`), and what it printed of them is in its
    file (`FileSound`).
  * `WritersSound`: what the writers remember is that of the file, the number of the last
    event or the end of the last lyric (`DataSound`), and a stream that has no file has
    nothing to remember, unless the page that starts it is still to come (`Fresh`).

  `NothingIsSkipped`, `[]NothingSkipped`, follows from the first three and `FileSound`;
  `FilesAreWhole`, `[]FilesWhole`, from the first four: the guard of `Open` is what keeps
  files apart (`Used`), and a packet that is done comes after all that are printed.
  `SpoiledAreDeleted`, the action property `DeletesSpoiled`, is that `ret` is negative at the
  end exactly if a packet that is done was bad. `TimesAreRight`, `[]TimesRight`, adds the
  arithmetic: that rounding half a unit up is within half a unit for every rate, even or
  odd, and that hours, minutes, seconds and the rest, read again, are the count that
  was printed.
* `KateScriptProofs`: `SentIsSoundAlways`, `[]SentIsSound`, for every description over
  `Grammar`: any statements, any number of them, with any numbers and names, and what
  katedec printed. The invariant (`IInv`) has five parts:
  * `Books`: the tables of items and names have their types and go together.
  * `Parsing`: the parser has its type, and, unless an error was told, each item of a table
    refers within the tables (`Within`) and has all its values (`Full`); so does each
    override that waits in the encoder, and none of these was freed (`Fine`). That is what
    an item needs when it is derived from, which copies it, or sent, which may be much later.
  * `Headed`: before the headers nothing was sent, and after them the tables are what was
    sent, but for metadata that was added since (`Alike`).
  * `Logged`: what holds of the overrides when an event ends holds of it as it was sent;
    `Reading`: what is left to read is of `Grammar`.

  The long part is that a body keeps this, setting by setting (`ItemFromIs`, from
  `StyleSetIs` to `MappingSetIs`, and `KaraokeReadIs`). It is a loop over a sequence,
  and the points of a curve need more than types: within a body a curve has its points, or
  a static variable says how many are missing. Loops are functions over `0 .. Len(body)`,
  and `LoopStays` does the induction for all of them, over a set of values.
* `KateScriptSaidProofs`: `EventsStandAloneAlways`, `[]EventsStandAlone`, for every
  description over `Grammar`. The invariant is `IInv /\ Retold`: as long as no error was
  told and names are those declared, every event that was sent and is not `spoilt` is as its
  statements said (`AllTold`), and the parser is `Intact`, whatever was spoilt before. For an
  event whose tag or words the lexer moved its buffer under, the invariant holds with what
  its statements were understood to say.
  * Between events nothing waits in the encoder: the end of an event leaves nothing behind.
  * Within an event, what the encoder would send if the event ended now is what its
    statements have said so far (`Heard`). Each statement keeps that by a lemma of its own
    (`TextAttends`, `SlotAttends`, `LocalAttends`, `KaraokeAttends`, ...). The styles
    need a case of their own: both wait as pointers to one static variable, so
    that a later statement changes what is sent of an earlier one (`StyleHeard`).
  * The lists of metadata that wait with palettes, bitmaps and motions are none of the
    headers' (`Private`), so that nothing said of an event reaches an item of the headers;
    and the headers, which are sent before all events, are still what the tables say
    (`HeaderHeld`), which is what a reference to an item means to a reader of the stream.

  What a statement says is read alone, by a parser without the lists of other items, and
  `ItemHeard` is that this makes the same item, value by value through every body. Metadata
  of a derived style or region are added to the list it shares with its origin, and
  from then on (`shared`) the same holds but for metadata, as the property says.

  `KaraokeOnTimeAlways`, `[]KaraokeOnTime`, also for every description over `Grammar`. The
  invariant is `IInv /\ InTime`: unless an error was told, each event that was sent is on
  time (`AllOnTime`), no motion waits outside an event, and within one the parser and what
  was said of the event are `Playing`:
  * As many motions wait as were said, so that each mark names the motion of its own
    statement and not that of a later one.
  * The text read so far has the glyphs of the words said (`RunOf`), which is what the next
    word's marker starts from.
  * Each mark is reached at its time by the motion it names (`MarkHeld`), and that motion
    lasts as long as the event unless three times were said (`Lasting`): a third time may move
    the end after the karaoke was read, and ends in an error at the end of the event
    (`GivenHas`).

  `BodyTuned` follows a karaoke's body and the marks it says together, step by step
  (`InTune`), by the induction of the loops; `FinalLasts` is the pause that is left to the
  end of the event, which makes the motion whole. Names may be spoilt: it needs no tables.
  Again it is the events that are not `spoilt` of which the property speaks.

  `TextKeptAlways`, `[]TextKept`, rests on the same invariant, whose `AllOnTime` and `Playing`
  also speak of text: each event that was sent shows the text it was given (`InText`), and
  within an event the text so far shows what its pieces say (`Hears`). That `Escaped`, `Expanded`, `Trimmed` and the rest of a text show what they are
  given is an induction over a set of lengths.

Only model-checked:

* Liveness: that of `IsChannel`, and `Ends`. The prover has no rule for fairness.
* `KateCodec`, all of it: it uses `RECURSIVE` operators over data
  (`KateFields`, `KateRle`, `KateText`), and the prover loses arithmetic where one is in
  reach. Where the recursion is a function over the naturals, as in `KateDecoderList`,
  an induction over a set of numbers does what the library's theorems, which take an
  operator, cannot.
* Of `KateScript`: `WrittenIsRead`, which is about what one fold over texts and items prints
  and another reads back.

## Where the code departs from its documentation

Met while modelling, and each reproduced with the library or the tools themselves.
The properties above hold with these behaviours modelled as they are.

Of the data path; the formulas that state what the documentation says are in the
modules, and no run has them because the code does not keep them:

* `FinishesAfterLastEvent` (`kate_encode.c:1203`, `include/kate/kate.h.in:605`):
  `kate_encode_finish` at a negative time does not see events that were trimmed, and
  may end the stream before its last event.
* `BacklinkIsLive` (`doc/kate-format-text-data.doc:18`): a text call that is refused
  leaves its timing (`kate_encode.c:974`), and later backlinks point at it. Until a
  call fails it holds (`BacklinkIsLiveUntilFailure`).
* `OneByteMarkers` (`doc/kate-format-keepalive-data.doc:26`): a text call that fails on
  a motion leaves its bytes in the buffer, and they start the next packet.
* `RepeatTimeIsEmitted` (`kate_encode_state.c:302`): a repeat that cannot be allocated
  counts as emitted (`kate_encode_state.c:399`).
* `DataNeedsHeaders` without `IdHeaderArrives` (`doc/kate-format.doc:22`): a decoder
  that misses the ID header takes the other headers unchecked.
* `DeliveredOnce`: after a seek, the repeat of an older event makes the decoder forget
  a younger one, which it delivers again.

Of the codecs:

* `kate_rle.c:460` tests `run_length_bits` of another coding: a start/end line that is
  cut short never ends (outcome `Spinning`). The first pixel of a line may be lost, as
  the documentation of the format says.
* The decoder trusts the bitmaps of a font range that the encoder has checked; a
  palette that ends early is accepted (`kate_decode.c:806`); the limit of the number of
  comments is checked on another variable (`kate_decode.c:372`).
* A result of `kate_encode_overrides` is not looked at (`kate_encode.c:1027`): the packet
  is cut short, which the decoder notices.
* `kate_info_matches_language` compares primary tags as far as one of them goes;
  `kate_comment_query` finds a comment whose tag is what the asked tag starts with. An
  event of exactly the longest lifetime may be refused.
* A periodic motion that lasts no time never has a point: the search does not end.

Of memory: pixels of a bitmap whose run lengths fail, metadata and the font of a second
style are not freed (`LostIsKnown` names them all); `kate_high_decode_init` that fails
leaves a pointer to what it freed (`kate_high.c:41`).

Of kateenc on files: a failure is overwritten before it is asked whether to delete the
output (`kateenc.c:1116`); a packet that cannot be copied to Ogg has been counted, and
the converter goes on; the last lyric of an LRC file has no end and is not encoded; the
id and times at the end of a SubRip file are dropped.

Of descriptions:

* With `-K`, a keepalive that is due when an event is encoded (`kate_parser.c:2148`)
  clears all that the event had set but its text and times (`kate_encode.c:150`),
  against `kate_encode.c:1297`.
* The names of items, the tags of metadata and the words of a morph are pointers into the
  lexer's buffer (`kate_lexer.l:236`), used when the rest of their definition or statement has
  been scanned (`kate_parser.y:2303`, `2348`, `2611`, `2710`). When the lexer reads more of the
  file in between, its buffer moves, or grows and is freed, and something else is there: no
  error is told. A value in bytes that is printed longer than the buffer loses its tag every
  time, so that katedec's own output may come back with another tag.
* The points of a curve are counted in a static variable that only the type of a curve
  resets; an event's own style and own secondary style both become the latter; metadata
  of a derived style are added to the one it derives from.
* `a & b` and a newline is printed so that the newline is read back as an entity's text;
  a numeric entity for `<` is stored as a named one; karaoke counts each character of an
  entity as a glyph.
* katedec prints font mappings of events, and metadata of palettes and motions, in ways
  the grammar does not have, no predefined style of an event without a region, and an id
  that kateenc ignores.
* After an event that failed, its local bitmaps are freed while the encoder still has
  them; names of local bitmaps are not found; metadata given fewer bytes than announced
  have the rest unset.

Of katedec: a stream that is cut within its headers, or that starts twice, is ended on a
file that was never opened; packets after a gap wait for the next page of their stream;
what follows an end packet is printed after the closing brace; lyrics that overlap are
stamped with the end of the one before.

## Not modelled

* katalyzer, KateDJ, the examples, the tests and the patches to other programs: input and
  output around the library, or not part of it.
* Of packets: padding bits, raw paletted bitmaps, which come without run lengths
  (`kate_decode.c:872`) and which this encoder no longer writes, cuts within a tag of metadata, and which bits a
  reader finds that asks for a width that was not written. The growth of buffers.
* Of trackers: colors, positions and sizes, which are floating point geometry.
* Of ownership: each header item is part of its `kate_info`, and each part of an event one
  block; a guard within a guard is not told apart.
* Of `kate.c`: the initialisation of plain structures.
* Of kateenc: regions of SubRip files (which the code reads after their block has ended), the
  karaoke tags of LRC files (`kateenc.c:720`), which add a motion to an event,
  the raw debugging mode, options, the parsing of numbers. Its buffers are long enough.
* Of descriptions: the parser's and lexer's tables, macros, the reading of images, settings
  that only copy a number (colors, canvas, category, granules), motions that the encoder
  cannot write, and the printing of times in 32 bit floating point.
* Of katedec: images, statistics, fuzzing, and the offsets and sizes that the reader of
  pages gives to holes, which only katalyzer uses.
* 64 bit overflow of granule positions: times are small.

## What is left

Worth proving next: the parts of `KateCodec` whose recursion can be written as a function
over the naturals, the run lengths of `KateRle` first; and that a `KateEncoder` over the
fields of `KatePackets` implements the one over abstract packets.
Worth modelling: a client of several events at a time in `KateStream`, with calls that
leave bytes behind, over the fields of `KatePackets`.
