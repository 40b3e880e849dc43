----------------------------- MODULE MCNewsTap ------------------------------
EXTENDS NewsTap, TLC

\* two headlines of one moment, and one of a wire
MCStamp  == 1 :> 1 @@ 2 :> 1 @@ 3 :> 2 @@ 4 :> 4 @@ 5 :> 3
MCSource == [i \in 1 .. 5 |-> IF i = 5 THEN "gdelt" ELSE "benzinga"]
=============================================================================
