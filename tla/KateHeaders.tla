---------------------------- MODULE KateHeaders ----------------------------
(***************************************************************************)
(* The header phase of the Kate decoder: kate_decode_headerin, and the     *)
(* switch to the data phase in kate_high_decode_packetin.                  *)
(*                                                                         *)
(* The decoder knows KnownHeaders headers and is done with the last of     *)
(* them; the ID header says how many the stream has, as later versions of  *)
(* the format may add some.  A header whose number is below that one must  *)
(* be the one that is due.  Headers are lost on the way, or fail to decode *)
(* for damage or lack of memory, and a player may start over from the      *)
(* beginning of the stream with the decoder it has.                        *)
(***************************************************************************)
EXTENDS Integers, Sequences

CONSTANTS
  KnownHeaders,    (* the headers this decoder knows: NUM_HEADERS, 9         *)
  Announcements,   (* how many headers streams may have                      *)
  Losable,         (* the headers that may be lost on the way                *)
  Misread,         (* what a damaged ID header may leave in num_headers      *)
  MaxLosses,       (* bound: headers lost or not decoded                     *)
  MaxRestarts      (* bound: times the player starts over                    *)

ASSUME HeadersAssumption ==
  /\ KnownHeaders \in Nat \ {0}
  /\ \A a \in Announcements : a \in Nat /\ KnownHeaders <= a
  /\ Losable \subseteq Nat
  /\ Misread \subseteq Nat
  /\ MaxLosses \in Nat /\ MaxRestarts \in Nat

VARIABLES
  announced,       (* the headers of this stream; data packets follow        *)
  position,        (* the next packet of the stream                          *)
  intact,          (* every packet since the player started was decoded, or  *)
                   (* refused by the decoder                                 *)
  probe,           (* ki->probe: the header that is due, -1 in data          *)
  numHeaders,      (* ki->num_headers                                        *)
  taken,           (* the headers decoded, in order                          *)
  heard,           (* a data packet was decoded                              *)
  losses, restarts

stream == <<announced, position, intact>>
headersVars == <<announced, position, intact, probe, numHeaders, taken, heard,
                 losses, restarts>>

(* kate_high_decode_init, with the values of kate_info_init.                 *)
HeadersInit ==
  /\ announced \in Announcements
  /\ position = 0 /\ intact = TRUE
  /\ probe = 0 /\ numHeaders = 0
  /\ taken = <<>> /\ heard = FALSE
  /\ losses = 0 /\ restarts = 0

Probing == probe >= 0

(* The next packet of the stream is header n, and is behind the player when  *)
(* the step is over.                                                         *)
Arrives(n) ==
  /\ n = position /\ n < announced
  /\ position' = position + 1
  /\ UNCHANGED announced

(* A slip: a header is taken when one before it was missed.                  *)
InTurnAfter(n) == n < numHeaders => probe <= n

(* The check that header n is the one that is due.                           *)
InTurn(n) == n < numHeaders => probe = n

IsLast(n) == n = KnownHeaders - 1

(* The header is decoded, or ignored when it is one of a later version.      *)
TakeHeader(n) ==
  /\ Probing /\ InTurn(n) /\ Arrives(n)
  /\ numHeaders' = IF n = 0 THEN announced ELSE numHeaders
  /\ probe' = IF IsLast(n) THEN -1 ELSE probe + 1
  /\ taken' = IF n < KnownHeaders THEN Append(taken, n) ELSE taken
  /\ UNCHANGED <<intact, heard, losses, restarts>>

RefuseHeader(n) ==
  /\ Probing /\ ~InTurn(n) /\ Arrives(n)
  /\ UNCHANGED <<intact, probe, numHeaders, taken, heard, losses, restarts>>

Missed ==
  /\ losses < MaxLosses
  /\ intact' = FALSE /\ losses' = losses + 1

(* A slip: a header that fails is not asked for again.                       *)
FailHeaderAdvances(n) ==
  /\ Probing /\ InTurn(n) /\ n < KnownHeaders /\ Arrives(n)
  /\ Missed
  /\ numHeaders' = IF n = 0 THEN announced ELSE numHeaders
  /\ probe' = probe + 1
  /\ UNCHANGED <<taken, heard, restarts>>

(* The header is in turn and fails to decode.  The ID header has set         *)
(* num_headers by then, unless it is damaged.                                *)
FailHeader(n) ==
  /\ Probing /\ InTurn(n) /\ n < KnownHeaders /\ Arrives(n)
  /\ Missed
  /\ IF n = 0 THEN numHeaders' \in Misread \cup {announced}
              ELSE UNCHANGED numHeaders
  /\ UNCHANGED <<probe, taken, heard, restarts>>

(* In data headers are ignored.                                              *)
IgnoreHeader(n) ==
  /\ ~Probing /\ Arrives(n)
  /\ UNCHANGED <<intact, probe, numHeaders, taken, heard, losses, restarts>>

(* A data packet has no magic, so that the header phase refuses it.          *)
RefuseData ==
  /\ position = announced /\ Probing
  /\ UNCHANGED headersVars

DecodeData ==
  /\ position = announced /\ ~Probing
  /\ heard' = TRUE
  /\ UNCHANGED <<stream, probe, numHeaders, taken, losses, restarts>>

LoseHeader(n) ==
  /\ n \in Losable /\ Arrives(n)
  /\ Missed
  /\ UNCHANGED <<probe, numHeaders, taken, heard, restarts>>

StartOver ==
  /\ restarts < MaxRestarts
  /\ restarts' = restarts + 1
  /\ position' = 0 /\ intact' = TRUE
  /\ UNCHANGED <<announced, probe, numHeaders, taken, heard, losses>>

HeaderIn(n) ==
  \/ TakeHeader(n)
  \/ RefuseHeader(n)
  \/ FailHeader(n)
  \/ IgnoreHeader(n)
  \/ LoseHeader(n)

HeadersNext ==
  \/ \E n \in 0 .. announced - 1 : HeaderIn(n)
  \/ RefuseData
  \/ DecodeData
  \/ StartOver

HeadersSpec == HeadersInit /\ [][HeadersNext]_headersVars
-----------------------------------------------------------------------------
FirstHeaders(k) == [i \in 1 .. k |-> i - 1]

(* No data packet is decoded before every header was, in order and once:     *)
(* regions, styles and curves are in place for what refers to them.          *)
DataNeedsHeaders == heard => taken = FirstHeaders(KnownHeaders)

(* Whatever was lost or failed before, and wherever that left probe, a       *)
(* player that starts over and gets every header gets to the data.           *)
CleanPassOpens == intact /\ position >= KnownHeaders => ~Probing

HeadersTypeOK ==
  /\ announced \in Announcements
  /\ position \in 0 .. announced
  /\ intact \in BOOLEAN /\ heard \in BOOLEAN
  /\ probe \in Nat \cup {-1}
  /\ numHeaders \in Nat
  /\ taken \in Seq(Nat)
  /\ losses \in 0 .. MaxLosses /\ restarts \in 0 .. MaxRestarts

(* num_headers is that of the stream from the first packet on.               *)
CountKnown ==
  \/ numHeaders = 0 /\ probe = 0 /\ position = 0
  \/ numHeaders = announced

(* probe counts the headers decoded.                                         *)
ProbeCounts ==
  IF Probing THEN probe < KnownHeaders /\ taken = FirstHeaders(probe)
             ELSE taken = FirstHeaders(KnownHeaders)

(* In a pass without losses the header that is due has not gone by.          *)
NotMissed == intact /\ Probing => position <= probe

(* The inductive invariant of the proofs, when the ID header always arrives. *)
HeadersInvariant ==
  /\ HeadersTypeOK
  /\ CountKnown
  /\ ProbeCounts
  /\ NotMissed
  /\ heard => ~Probing
=============================================================================
