------------------------------ MODULE NewsTap ------------------------------
(***************************************************************************)
(* scripts/news_tap.py: a poll fetches what the sources have since the     *)
(* tap's cursor, appends the headlines it has not seen to the news stream, *)
(* remembers them and moves the cursor to the newest.  Sources fail and    *)
(* publish late, an append breaks off, the process dies and starts an hour *)
(* back.  What may not happen is that the cursor leaves a headline behind. *)
(*                                                                         *)
(* Abstractions.  A headline is its number; two sources do not report one  *)
(* story (CrossSourceDedup).  The memory of the seen is not exhausted.  A  *)
(* source publishes behind its own newest by the overlap at most.  The     *)
(* wires (Finnhub, GDELT) are due at every poll or not, as their cadence   *)
(* and back-off would have it.                                             *)
(***************************************************************************)
EXTENDS Naturals, FiniteSets

CONSTANTS
  Headline,    \* numbers
  Stamp,       \* headline -> its timestamp
  SourceOf,    \* headline -> "benzinga" or a wire
  Wires,       \* the other sources that are enabled
  Overlap,     \* how far before the cursor a poll asks
  Limit,       \* headlines Benzinga returns at most
  SinceHours,  \* how far back a new process starts
  LastMoment   \* bound on the clock

Sources == {"benzinga"} \cup Wires

ASSUME TapAssumption ==
  /\ IsFiniteSet(Headline) /\ Headline \subseteq Nat
  /\ Stamp \in [Headline -> Nat]
  /\ {Overlap, SinceHours, Limit} \subseteq Nat

VARIABLES
  moment,
  out,       \* headlines the sources have published
  tap,       \* [up, cursor, from, seen, wire]: from is the cursor it started with
  stream     \* headlines in news_stream.jsonl

ntVars == <<moment, out, tap, stream>>

NoTap == [up |-> FALSE, cursor |-> 0, from |-> 0, seen |-> {}, wire |-> 0]

NTInit == moment = 0 /\ out = {} /\ tap = NoTap /\ stream = {}

MomentPasses ==
  /\ moment < LastMoment /\ moment' = moment + 1
  /\ UNCHANGED <<out, tap, stream>>

\* a source publishes: late, but not later than the overlap
Publishes ==
  /\ \E i \in Headline \ out :
       /\ SourceOf[i] \in Sources /\ Stamp[i] <= moment
       /\ \A j \in Headline :
            SourceOf[j] = SourceOf[i] /\ Stamp[j] + Overlap < Stamp[i] => j \in out
       /\ out' = out \cup {i}
  /\ UNCHANGED <<moment, tap, stream>>

\* the launcher starts it, or the owner again
TapUp ==
  /\ ~tap.up
  /\ LET back == IF moment > SinceHours THEN moment - SinceHours ELSE 0
     IN  tap' = [NoTap EXCEPT !.up = TRUE, !.cursor = back, !.from = back, !.wire = back]
  /\ UNCHANGED <<moment, out, stream>>

TapStops == tap.up /\ tap' = NoTap /\ UNCHANGED <<moment, out, stream>>
-----------------------------------------------------------------------------
Before(i, j) == Stamp[i] < Stamp[j] \/ (Stamp[i] = Stamp[j] /\ i < j)

\* what a source has from the overlap before a cursor on
Since(cursor, sources) ==
  {i \in out : SourceOf[i] \in sources /\ Stamp[i] + Overlap >= cursor}

\* fetch_news: the oldest up to the limit; nothing when it fails
Benzinga ==
  LET found == Since(tap.cursor, {"benzinga"})
  IN  {{}, {i \in found : Cardinality({j \in found : Before(j, i)}) < Limit}}

\* _run_windowed: from its own cursor, which a success moves to now
Wired ==
  {[found |-> {}, wire |-> tap.wire]}
    \cup {[found |-> Since(tap.wire, ws), wire |-> moment] : ws \in (SUBSET Wires) \ {{}}}

\* fault: the cursor moves with the clock
CursorWithTheClock(fresh) == moment

\* the cursor moves to the newest of the appended and is never moved back
Newest(fresh) ==
  CHOOSE c \in {tap.cursor} \cup {Stamp[i] : i \in fresh} :
    \A i \in fresh : c >= tap.cursor /\ c >= Stamp[i]

\* poll_once: appended, remembered, and the cursor moved
TapPolls ==
  /\ tap.up
  /\ \E b \in Benzinga, w \in Wired :
       LET fresh == (b \cup w.found) \ tap.seen
       IN  /\ stream' = stream \cup fresh
           /\ tap' = [tap EXCEPT !.seen = @ \cup fresh, !.cursor = Newest(fresh),
                                 !.wire = w.wire]
  /\ UNCHANGED <<moment, out>>

\* the append raises, some lines out: nothing is remembered; or the process dies
AppendFails ==
  /\ tap.up
  /\ \E b \in Benzinga, w \in Wired :
       LET fresh == (b \cup w.found) \ tap.seen
       IN  /\ \E i \in fresh : stream' = stream \cup {j \in fresh : Before(j, i)}
           /\ tap' \in {NoTap, [tap EXCEPT !.wire = w.wire]}
  /\ UNCHANGED <<moment, out>>

NTNext == MomentPasses \/ Publishes \/ TapUp \/ TapStops \/ TapPolls \/ AppendFails

TapSpec == NTInit /\ [][NTNext]_ntVars
-----------------------------------------------------------------------------
(* A poll that failed or was cut short never skips the window forward      *)
(* (benzinga_news.py:252-258): of the time the process answers for, every  *)
(* headline a source has published is in the stream or is still asked for. *)
NoneBehindCursor ==
  tap.up => \A i \in out \ stream :
              Stamp[i] + Overlap >= tap.from => Stamp[i] + Overlap >= tap.cursor
=============================================================================
