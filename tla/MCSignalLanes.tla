---------------------------- MODULE MCSignalLanes ----------------------------
(* An instance of SignalLanes for TLC: a day that runs up on volume, and one *)
(* that reverses and whose range is thin unless its first minute counts      *)
(* twice.                                                                    *)
EXTENDS SignalLanes, TLC

Day(closes, volumes) == [m \in 1 .. Len(closes) |-> [close |-> closes[m], volume |-> volumes[m]]]
MCTapes == {Day(<<0, 1, 2, 2>>, <<3, 1, 1, 1>>), Day(<<2, 0, 3, -2>>, <<2, 1, 1, 1>>)}
=============================================================================
