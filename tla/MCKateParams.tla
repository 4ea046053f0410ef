---------------------------- MODULE MCKateParams ----------------------------
(* An instance of KateParams for TLC.                                        *)
EXTENDS KateParams

(* Two motions of the client that do the same thing; one predefined motion   *)
(* that does another.                                                         *)
MCSemantics == [m \in {"m1", "m2"} |-> "time"]
MCStored == <<"size">>
MCHeaders == <<"regions", "motions", "bitmaps">>
=============================================================================
