----------------------------- MODULE SignalLanes -----------------------------
(***************************************************************************)
(* The signal lanes (atlas/options/lanes.py) of one symbol, fed with the   *)
(* completed bars of SessionBars in the order in which they are handed     *)
(* over, and the runner's answer to a signal (_on_signal, _lane_confirm,   *)
(* _lane_release of scripts/run_options_shadow.py).  The lanes are made    *)
(* anew each day, so this is one day of one process.                       *)
(*                                                                         *)
(* Abstractions.  The day's tape is one close and one volume for each      *)
(* minute, the same live and in the history.  A close is a level: the      *)
(* noise area is what lies within Noise of the open, and the VWAP is at    *)
(* the open.  The opening range is that of the closes of its minutes.      *)
(* The lanes last30 and the FOMC arm of macro_reaction are parked by the   *)
(* runner and the pre-earnings lane emits nothing: they are left out.      *)
(***************************************************************************)
EXTENDS SessionBars, FiniteSetsExt, Functions

CONSTANTS
  Tapes,        \* bound: the tapes of the day, minute -> [close, volume]
  Noise,        \* noise_at, in levels
  Grid,         \* minutes of the boundary a trend is confirmed on
  RangeMinutes, \* minutes of the opening range
  RvolMin,      \* volume of the opening range that puts a name in play
  Cooldown,     \* RELEASE_COOLDOWN_MIN
  Ttl,          \* signal_ttl_min
  MeasureEnd,   \* CPI_MEASURE_END
  Blackouts     \* minutes in a blackout

ASSUME LanesAssumption ==
  /\ \A tape \in Tapes : /\ OpenMinute .. CloseMinute - 1 \subseteq DOMAIN tape
                        /\ \A m \in DOMAIN tape : tape[m].close \in Int /\ tape[m].volume \in Nat
  /\ Noise \in Nat /\ Grid \in Nat \ {0} /\ RangeMinutes \in Nat /\ RvolMin \in Nat
  /\ Cooldown \in Nat /\ Ttl \in Nat /\ MeasureEnd \in Nat /\ Blackouts \subseteq Nat

VARIABLES
  tape,       \* the day's tape
  latched,    \* _latched: sides <<lane, direction>> with an entry
  rearm,      \* _cooldown: side -> minute from which it fires again
  range,      \* _ORState of the symbol
  macro,      \* MacroReactionLane: [measured, pending]
  fires       \* the signals so far, in order: [side, minute, now, entered]

laneVars == <<tape, latched, rearm, range, macro, fires>>

Direction == {"call", "put"}
Sides     == {"index_trend", "inplay_orb"} \X Direction
Unmoved   == 0

LanesInit ==
  /\ tape \in Tapes
  /\ latched = {} /\ rearm = [side \in Sides |-> 0]
  /\ range = [closes |-> {}, volume |-> 0, ready |-> FALSE, inPlay |-> FALSE]
  /\ macro = [measured |-> FALSE, pending |-> Unmoved]
  /\ fires = <<>>

Toward(move) == IF move > 0 THEN "call" ELSE "put"

-----------------------------------------------------------------------------
(* What a completed bar of minute m makes the lanes say.                   *)

\* neither latched by an entry nor cooling down
Armed(side, m) == side \notin latched /\ m >= rearm[side]

\* IndexTrendLane.update: a close beyond the noise area on a boundary
TrendSignals(m) ==
  LET move == tape[m].close
      side == <<"index_trend", Toward(move)>>
  IN  IF (m + 1) % Grid = 0 /\ (move > Noise \/ move < -Noise) /\ Armed(side, m)
      THEN {side} ELSE {}

InOpeningRange(m) == m < OpenMinute + RangeMinutes

\* InPlayORBLane.update: the range, and what is decided at the first bar after
RangeAfter(m) ==
  IF InOpeningRange(m)
  THEN [range EXCEPT !.closes = @ \cup {tape[m].close}, !.volume = @ + tape[m].volume]
  ELSE IF range.ready THEN range
  ELSE [range EXCEPT !.ready = TRUE, !.inPlay = range.volume >= RvolMin]

\* ... and a close beyond the range of a name in play
OrbSignals(m) ==
  LET after == RangeAfter(m)
      side  == <<"inplay_orb", IF tape[m].close > Max(after.closes) THEN "call" ELSE "put">>
      beyond == tape[m].close > Max(after.closes) \/ tape[m].close < Min(after.closes)
  IN  IF /\ ~InOpeningRange(m) /\ after.inPlay /\ Cardinality(after.closes) > 1
         /\ beyond /\ Armed(side, m)
      THEN {side} ELSE {}

\* MacroReactionLane._measure: once, on the first bar from MeasureEnd on
Measured(m) ==
  IF macro.measured \/ m < MeasureEnd THEN macro
  ELSE [measured |-> TRUE, pending |-> tape[m].close]

\* MacroReactionLane.update: what was measured, on a bar clear of blackouts,
\* whose close is at minute m + 1
MacroSignals(m) ==
  IF Measured(m).pending # Unmoved /\ m + 1 \notin Blackouts
  THEN {<<"macro_reaction", Toward(Measured(m).pending)>>} ELSE {}

-----------------------------------------------------------------------------
(* The runner's answer.                                                    *)

\* _on_signal at the tick's minute: too late or after hours it is journaled, in
\* a blackout the side is released; else it is entered or merged, or refused.
\* An answer may raise, and nothing contains that before main()
Answers(m) ==
  IF tick > m + 1 + Ttl \/ tick \notin OpenMinute .. CloseMinute - 1 THEN {"none"}
  ELSE IF tick \in Blackouts THEN {"released"}
  ELSE {"entered", "released", "raised"}

\* fault: a signal latches its side, whatever becomes of it
LatchesEverything(answer) == TRUE

\* _lane_confirm: an entry latches its side for the day
Latches(answer) == answer = "entered"

\* fault: a signal nobody answers leaves its side armed
RearmAfterRelease(m, answer) == IF answer = "released" THEN tick + Cooldown ELSE 0

\* _lane_release: a refusal holds the side for the cooldown; before any answer
\* it is held by the pending guard
Rearm(m, answer) == IF answer = "released" THEN tick + Cooldown ELSE m + Cooldown + 1

\* the order in which the lanes hear a bar
Rank(lane) == CASE lane = "index_trend" -> 1 [] lane = "inplay_orb" -> 2 [] OTHER -> 3

Signals(m) == TrendSignals(m) \cup OrbSignals(m) \cup MacroSignals(m)

\* an answer to a lane before this one raised
Cut(lane, answer) ==
  \E s \in DOMAIN answer : answer[s] = "raised" /\ Rank(s[1]) < Rank(lane)

\* these sides, lane after lane
Orders(sides) ==
  {order \in Bijection(1 .. Cardinality(sides), sides) :
     \A i, j \in DOMAIN order : i < j => Rank(order[i][1]) < Rank(order[j][1])}

\* _on_completed_bar: lane after lane hears the bar and is answered, until an
\* answer raises; the latch and the guard of a side are its own
Hear(m) ==
  /\ \E answer \in [Signals(m) -> Answers(m)] :
       LET spoken == {s \in Signals(m) : ~Cut(s[1], answer)}
       IN \E order \in Orders(spoken) :
            /\ latched' = latched \cup {s \in spoken \cap Sides : Latches(answer[s])}
            /\ rearm' = [s \in Sides |-> IF s \in spoken THEN Rearm(m, answer[s]) ELSE rearm[s]]
            /\ range' = IF Cut("inplay_orb", answer) THEN range ELSE RangeAfter(m)
            /\ macro' = IF Cut("macro_reaction", answer) THEN macro
                        ELSE IF MacroSignals(m) = {} THEN Measured(m)
                        ELSE [measured |-> TRUE, pending |-> Unmoved]
            /\ fires' = fires \o [i \in DOMAIN order |->
                          [side |-> order[i], minute |-> m, now |-> tick,
                           entered |-> answer[order[i]] = "entered"]]
            /\ pc = "seed" => (raises' # raises) = (\E s \in spoken : answer[s] = "raised")
  /\ UNCHANGED tape

-----------------------------------------------------------------------------
(* The bars and the lanes.                                                 *)

\* whatever is handed over is heard
Lanes(A) ==
  /\ A
  /\ IF seen' = seen THEN raises' = raises /\ UNCHANGED laneVars
     ELSE Hear(seen'[Len(seen')].minute)

DayInit == Init /\ LanesInit
DayNext == Lanes(ClockTicks) \/ Lanes(Step)
DaySpec == DayInit /\ [][DayNext]_<<vars, laneVars>>

\* the loop goes on and time passes
FairDay == DaySpec /\ WF_<<vars, laneVars>>(Lanes(ClockTicks)) /\ WF_<<vars, laneVars>>(Lanes(Step))

-----------------------------------------------------------------------------
(* Properties.                                                             *)

Earlier(i, j) == i < j /\ fires[i].side = fires[j].side

(* A lane does not speak twice for one move: signals of a side are a       *)
(* cooldown of bars apart, counted from the bar or from the answer, there  *)
(* is none after an entry, and the event's reaction is said once and never *)
(* inside a blackout.  So it is in whatever order live bars and history    *)
(* come, also when the history is handed over again because an answer      *)
(* raised.                                                                 *)
SaidOnce ==
  \A j \in 1 .. Len(fires) :
    /\ \A i \in 1 .. Len(fires) : Earlier(i, j) =>
         /\ fires[j].side \in Sides /\ ~fires[i].entered
         /\ \/ fires[j].minute > fires[i].minute + Cooldown
            \/ fires[j].minute >= fires[i].now + Cooldown
    /\ fires[j].side \notin Sides => fires[j].minute + 1 \notin Blackouts

TrendBreaks(m, side) ==
  /\ (m + 1) % Grid = 0 /\ side[1] = "index_trend"
  /\ \/ side[2] = "call" /\ tape[m].close > Noise
     \/ side[2] = "put" /\ tape[m].close < -Noise

(* "A selector rejection no longer burns the day": a break that is handed  *)
(* over once the cooldown of every answer to its side is past, and none of *)
(* them was an entry, is a signal again, also when what held the side was  *)
(* a stale bar of the history or an answer that raised.                    *)
NotBurned ==
  [][seen' # seen =>
       LET m == seen'[Len(seen')].minute
       IN  \A side \in Sides :
             /\ TrendBreaks(m, side)
             /\ \A i \in 1 .. Len(fires) : fires[i].side = side =>
                  /\ ~fires[i].entered
                  /\ fires[i].now + Cooldown <= m /\ fires[i].minute + Cooldown < m
             => \E i \in Len(fires) + 1 .. Len(fires') : fires'[i].side = side]_<<vars, laneVars>>

(* "First-5-min RVOL >= 5": a name that breaks its opening range is in     *)
(* play by the volume of the range's minutes.  The code counts a minute    *)
(* twice when the history lands while its live bucket is forming, as it    *)
(* does at 09:31 in a process that was up before the open, and then a name *)
(* is in play that is not.                                                 *)
InPlayByTheTape ==
  \A i \in 1 .. Len(fires) : fires[i].side[1] = "inplay_orb" =>
    LET volume[m \in OpenMinute - 1 .. OpenMinute + RangeMinutes - 1] ==
          IF m < OpenMinute THEN 0 ELSE volume[m - 1] + tape[m].volume
    IN  volume[OpenMinute + RangeMinutes - 1] >= RvolMin
=============================================================================
