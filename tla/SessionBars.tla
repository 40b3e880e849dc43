----------------------------- MODULE SessionBars -----------------------------
(***************************************************************************)
(* The bars of one symbol on one day, from the roll or the start of the    *)
(* process on: OptionsShadowCore.tick and _backfill of                     *)
(* scripts/run_options_shadow.py with LiveBarBuilder and HunterFeed of     *)
(* atlas/hunter/feed.py.  Bars come from two sources, a one-time fetch of  *)
(* the day's history, tried MaxAttempts times, and live quotes, which form *)
(* one minute at a time.  Both are committed to the builder (session VWAP, *)
(* high of day, trailing closes) and handed to the lanes.                  *)
(*                                                                         *)
(* Abstractions.  A bar is its minute and its source; prices and volumes   *)
(* are left out.  The history, an outside service, holds any of the        *)
(* minutes that are complete when it is asked.                             *)
(***************************************************************************)
EXTENDS Integers, Sequences, FiniteSets

CONSTANTS
  OpenMinute,      \* OPEN_MIN
  CloseMinute,     \* self._close_min
  MaxAttempts,     \* BACKFILL_MAX_ATTEMPTS
  LastMinute,      \* bound: the clock stops here
  MaxRaises        \* bound on ticks that raise while they hand over history

ASSUME BarsAssumption ==
  /\ OpenMinute \in Nat /\ CloseMinute \in Nat /\ LastMinute \in Nat
  /\ MaxAttempts \in Nat \ {0} /\ MaxRaises \in Nat

VARIABLES
  clock,      \* the minute of the wall clock
  pc,         \* where the tick is
  tick,       \* minute of the tick's now
  bars,       \* the builder's committed bars, in order (st.mins)
  forming,    \* st.cur_minute
  filled,     \* is the symbol in self._backfilled?
  attempts,   \* self._backfill_attempts
  rest,       \* minutes of the fetched history still to take
  seen,       \* bars handed to the lanes, in order
  raises      \* ticks that raised while they handed over history

vars == <<clock, pc, tick, bars, forming, filled, attempts, rest, seen, raises>>

None == -1
Bar  == [minute : Nat, source : {"live", "history"}]

Init ==
  /\ clock \in 0 .. LastMinute
  /\ pc = "idle" /\ tick = 0
  /\ bars = <<>> /\ forming = None
  /\ filled = FALSE /\ attempts = 0 /\ rest = {}
  /\ seen = <<>> /\ raises = 0

ClockTicks ==
  /\ clock < LastMinute
  /\ clock' = clock + 1
  /\ UNCHANGED <<pc, tick, bars, forming, filled, attempts, rest, seen, raises>>

BeginTick ==
  /\ pc = "idle"
  /\ tick' = clock /\ pc' = "backfill"
  /\ UNCHANGED <<clock, bars, forming, filled, attempts, rest, seen, raises>>

-----------------------------------------------------------------------------
(* A completed bar: the lanes.                                             *)

\* pre-open and post-close bars never reach lanes
InSession(m) == m \in OpenMinute .. CloseMinute - 1

\* _on_completed_bar
HandOver(b) == seen' = IF InSession(b.minute) THEN Append(seen, b) ELSE seen

\* the last committed bar is of minute m or a later one
Covered(m) == bars # <<>> /\ m <= bars[Len(bars)].minute

-----------------------------------------------------------------------------
(* Tick: the history.                                                      *)

Wanted == ~filled /\ tick >= OpenMinute + 1

BackfillSkip ==
  /\ pc = "backfill" /\ ~Wanted
  /\ pc' = "poll"
  /\ UNCHANGED <<clock, tick, bars, forming, filled, attempts, rest, seen, raises>>

\* fault: an empty answer is asked for again and again
BackfillFailsForever ==
  /\ pc = "backfill" /\ Wanted
  /\ attempts' = IF attempts < MaxAttempts THEN attempts + 1 ELSE attempts
  /\ pc' = "poll"
  /\ UNCHANGED <<clock, tick, bars, forming, filled, rest, seen, raises>>

\* no bars: no budget, a transport error, an empty day
BackfillFails ==
  /\ pc = "backfill" /\ Wanted
  /\ attempts' = attempts + 1
  /\ filled' = (attempts + 1 >= MaxAttempts)
  /\ pc' = "poll"
  /\ UNCHANGED <<clock, tick, bars, forming, rest, seen, raises>>

\* some of the minutes complete by the clock of the request
BackfillLoads ==
  /\ pc = "backfill" /\ Wanted
  /\ rest' \in (SUBSET (OpenMinute .. clock - 1)) \ {{}}
  /\ pc' = "seed"
  /\ UNCHANGED <<clock, tick, bars, forming, filled, attempts, seen, raises>>

History(m) == [minute |-> m, source |-> "history"]
Live(m)    == [minute |-> m, source |-> "live"]

\* seed_bar: what is covered is ignored
Seed(m) == bars' = IF Covered(m) THEN bars ELSE Append(bars, History(m))

\* the lanes get the bar, whether or not the builder took it; handling the
\* signal of a lane may raise, and main() contains what the tick raises
SeedBar ==
  /\ pc = "seed"
  /\ \E m \in rest :
       /\ \A n \in rest : m <= n
       /\ Seed(m)
       /\ HandOver(History(m))
       /\ \/ rest' = rest \ {m} /\ UNCHANGED <<pc, raises>>
          \/ /\ InSession(m) /\ raises < MaxRaises
             /\ rest' = {} /\ pc' = "idle" /\ raises' = raises + 1
  /\ UNCHANGED <<clock, tick, forming, filled, attempts>>

SeedDone ==
  /\ pc = "seed" /\ rest = {}
  /\ filled' = TRUE /\ pc' = "poll"
  /\ UNCHANGED <<clock, tick, bars, forming, attempts, rest, seen, raises>>

-----------------------------------------------------------------------------
(* Tick: the live quote.                                                   *)

\* no quotes, pre-open, or the close: the tick gate
PollNothing ==
  /\ pc = "poll"
  /\ pc' = "idle"
  /\ UNCHANGED <<clock, tick, bars, forming, filled, attempts, rest, seen, raises>>

\* a quote is stamped with the clock after it came
Quoted == pc = "poll" /\ tick \in OpenMinute .. CloseMinute - 1

\* fault: a bar is out with the last tick of its minute
RollOverEarly ==
  /\ Quoted /\ forming # None /\ clock >= forming
  /\ bars' = Append(bars, Live(forming))
  /\ HandOver(Live(forming))
  /\ forming' = IF clock > forming THEN clock ELSE None
  /\ pc' = "idle"
  /\ UNCHANGED <<clock, tick, filled, attempts, rest, raises>>

\* on_tick: a later minute completes the one forming
RollOver ==
  /\ Quoted /\ forming # None /\ clock > forming
  /\ bars' = Append(bars, Live(forming))
  /\ HandOver(Live(forming))
  /\ forming' = clock
  /\ pc' = "idle"
  /\ UNCHANGED <<clock, tick, filled, attempts, rest, raises>>

\* a bucket opens, unless history covers its minute, or goes on
FormBar ==
  /\ Quoted /\ (forming = None \/ clock <= forming)
  /\ forming' = IF forming = None /\ ~Covered(clock) THEN clock ELSE forming
  /\ pc' = "idle"
  /\ UNCHANGED <<clock, tick, bars, filled, attempts, rest, seen, raises>>

-----------------------------------------------------------------------------

Step == \/ BeginTick \/ BackfillSkip \/ BackfillFails \/ BackfillLoads
        \/ SeedBar \/ SeedDone \/ PollNothing \/ RollOver \/ FormBar

Next == ClockTicks \/ Step

Spec == Init /\ [][Next]_vars

\* the loop goes on and time passes
FairSpec == Spec /\ WF_vars(ClockTicks) /\ WF_vars(Step)

-----------------------------------------------------------------------------
(* Properties.                                                             *)

(* Every variable keeps its shape. *)
TypeOK ==
  /\ clock \in Nat /\ tick \in Nat
  /\ pc \in {"idle", "backfill", "seed", "poll"}
  /\ bars \in Seq(Bar) /\ seen \in Seq(Bar)
  /\ forming \in Nat \cup {None}
  /\ filled \in BOOLEAN /\ attempts \in 0 .. MaxAttempts
  /\ rest \subseteq Nat
  /\ raises \in 0 .. MaxRaises

(* A lane never sees a forming candle: what is committed or handed over is *)
(* a minute that is past.                                                  *)
ClosedOnly ==
  /\ \A i \in 1 .. Len(bars) : bars[i].minute < clock
  /\ \A i \in 1 .. Len(seen) : seen[i].minute < clock

(* The history is asked for a bounded number of times and the symbol does  *)
(* not stay unsettled: it has its history, or has given up for the day.    *)
BackfillSettles == (clock > OpenMinute) ~> filled
=============================================================================
