----------------------------- MODULE MCRequest -----------------------------
(***************************************************************************)
(* Request for TLC: the BFF's endpoint 1 calls 2 and 3, two endpoints of   *)
(* one service, and both may call 4.  Eighths of a millisecond; the own    *)
(* times and thresholds lie where rounding shows.                          *)
(***************************************************************************)
EXTENDS Request

Diamond == <<<<1, 2>>, <<1, 3>>, <<2, 4>>, <<3, 4>>>>
Endpoints == <<1, 2, 3, 4>>
TwoOfOneService == <<0, 1, 1, 2>>
OntoFailures == [severity \in 1 .. 3 |-> {"5xx"}]
SomeIds == [h \in (1 .. 4) \X (1 .. 2) |-> 10 * ((3 * h[1]) % 5) + h[2]]
Ahead == {0, 3}
\* Those a double reads short of the durations that occur.
ReadShort == {1001, 1003, 1005, 1007, 1009, 1011, 1013, 1015, 2002, 2006, 2010, 2014,
              4004, 4007, 4012, 4015, 8008, 8011, 8014, 8017, 16016, 16019, 16022}
Limits == [v \in 1 .. 4 |-> CASE v = 4 -> 8012 [] OTHER -> 8006]
=============================================================================
