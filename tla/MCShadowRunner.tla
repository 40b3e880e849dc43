--------------------------- MODULE MCShadowRunner ---------------------------
(* Instances of ShadowProperties for TLC. *)
EXTENDS ShadowProperties, TLC

CONSTANTS index, equity, call, trend, macro

\* the trend lane looks at both symbols, the macro lane at the index
WatchesBoth == [l \in {trend, macro} |->
                  IF l = trend THEN {index, equity} ELSE {index}]
WatchesIndex == [l \in {trend, macro} |-> {index}]
=============================================================================
