---------------------------- MODULE MCKateDump ----------------------------
(* Files of three streams, of which two or three are Kate.                   *)
EXTENDS KateDump, TLC

MCSerials == 1 .. 3
MCLanguage == <<"en", "en", "fr">>
MCFormats == {"kate", "srt", "lrc"}
MCTemplates == {"-", "out", "%l", "%i"}

H(n) == [kind |-> "header", n |-> n]
T(t, d) == [kind |-> "text", at |-> t, for |-> d]
P(kind) == [kind |-> kind]

(* The pages of stream s from their packets; the last starts over at "again".*)
Stream(s, again, packets) ==
  [n \in DOMAIN packets |->
     [no |-> IF n < again THEN n - 1 ELSE n - again, bos |-> n \in {1, again},
      packets |-> [k \in DOMAIN packets[n] |->
                     [serial |-> s, no |-> 10 * n + k] @@ packets[n][k]]]]
Once(s, packets) == Stream(s, Len(packets) + 1, packets)

Lyrics(s) == Once(s, << <<H(0)>>, <<H(1)>>, <<T(0, 7), P("silent"), T(7, 30)>>,
                        <<T(20, 12)>>, <<P("end")>> >>)
Spoilt(s) == Once(s, << <<H(0)>>, <<H(1)>>, <<T(1, 1), P("bad")>>, <<T(9, 1), P("end")>> >>)
Short(s) == Once(s, << <<H(0)>>, <<H(1), T(5, 200)>>, <<P("end")>> >>)
GoingOn(s) == Once(s, << <<H(0)>>, <<H(1)>>, <<T(2, 2), P("end")>>, <<T(11, 3)>> >>)
Video(s) == Once(s, << <<P("foreign")>>, <<P("foreign"), P("foreign")>> >>)
Misordered(s) == Once(s, << <<H(0), H(0)>>, <<H(1)>>, <<T(3, 3)>> >>)
Twice(s) == Stream(s, 5, << <<H(0)>>, <<H(1)>>, <<T(4, 4)>>, <<P("end")>>,
                            <<H(0)>>, <<H(1)>>, <<T(41, 5)>>, <<P("end")>> >>)

MCInputs ==
  { <<Lyrics(1), Spoilt(2), Video(3)>>, <<Spoilt(1), Short(2), Short(3)>>,
    <<Twice(1), GoingOn(2), <<>> >>, <<GoingOn(1), Misordered(2), Short(3)>> }
MCRate == <<3, 1>>
=============================================================================
