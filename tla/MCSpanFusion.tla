---------------------------- MODULE MCSpanFusion ----------------------------
(***************************************************************************)
(* Short texts for SpanFusion.  ":" is a character NFKC leaves alone and    *)
(* "W" one that becomes two (an ellipsis, a ligature, a trademark sign).    *)
(***************************************************************************)
EXTENDS SpanFusion, TLC

Char == {"a", "b", "c", " ", ":", "W"}
Widths == [c \in Char |-> IF c = "W" THEN 2 ELSE 1]
Spaced == {<<"a", " ", "b", ":", "c">>}
Wide == {<<"W", "a", "b", "c">>, <<"a", "b", "c", "W">>}
Ranks == [t \in Type |-> IF t = "cf" THEN 1 ELSE 2]
=============================================================================
