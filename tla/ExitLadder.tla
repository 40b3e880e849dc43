----------------------------- MODULE ExitLadder -----------------------------
(***************************************************************************)
(* One open position of the main shadow: decide_exit of                    *)
(* atlas/options/exit_engine.py, the sweep of run_options_shadow.py that   *)
(* feeds it, and the marks of atlas/options/shadow.py from which a respawn *)
(* or a day roll rebuilds what the engine carries from mark to mark.       *)
(*                                                                         *)
(* What the option math yields at a mark is a record of verdicts, free at  *)
(* each mark: the pricing that leads to them decides nothing else.  Rules  *)
(* (c) and (e) are inert (stop_frac is None, no straddle is ever held).    *)
(***************************************************************************)
EXTENDS Integers, FiniteSets

CONSTANTS
  None,
  Grid,          \* minutes at which a sweep may find a mark due
  OpenMinute,    \* 570
  ReframeMinute, \* OPEN_MIN + 30
  ZeroDteMinute, \* zero_dte_sell_min, close - 60
  DeepMinute,    \* zero_dte_deep_itm_ext_min, close - 30
  EodMinute,     \* eod_flat_min, close - 15
  PlannedMinute, \* planned_exit_minute of a lane, capped at close - 1
  CloseMinute,   \* session_close_min
  FlatMinute,    \* late_close_flat_min, close + 10
  Persist,       \* ev_persist_min
  Cycles,        \* theta_share_cycles
  PrintLead,     \* print_flat_lead_min
  PostPrint,     \* post_print_decision_min
  PrintMinute,   \* a macro release,
  PrintDays,     \* on these days
  OvernightDte,  \* overnight_min_dte
  Positions,     \* as entered: [dte, index, planned, print]
  GrantDays,     \* days, not Fridays, before a named catalyst
  LastDay,       \* bound on days
  MaxDeaths      \* bound on respawns

Clocks == {OpenMinute, ReframeMinute, ZeroDteMinute, DeepMinute, EodMinute,
           PlannedMinute, CloseMinute, FlatMinute, PrintMinute}

ASSUME LadderAssumption ==
  /\ Grid \cup Clocks \subseteq Nat /\ GrantDays \cup PrintDays \subseteq Nat
  /\ {Persist, Cycles, PrintLead, PostPrint, OvernightDte, MaxDeaths} \subseteq Nat
  /\ Positions \subseteq [dte : Nat, index : BOOLEAN, planned : BOOLEAN, print : BOOLEAN]
  /\ LastDay \in Nat \ {0} /\ Cycles > 0
  /\ ZeroDteMinute <= DeepMinute /\ DeepMinute <= EodMinute
  /\ EodMinute <= PlannedMinute /\ PlannedMinute < CloseMinute
  /\ CloseMinute <= FlatMinute
  /\ \E m \in Grid : OpenMinute < m /\ m < FlatMinute
  /\ \E m \in Grid : FlatMinute <= m
  /\ None \notin Nat \cup [day : Nat, minute : Nat]

\* the statistical exits: (h) EV of holding below selling, (i*) profit present
\* and today's value unlikely to be seen again
Stat == {"h", "i"}

VARIABLES
  day, minute,
  pos,       \* the position, entered on day 1
  status,    \* "open", "exited" (an exit row) or "expired" (flagged at a roll)
  up,        \* the process runs
  carried,   \* what the engine carries from mark to mark, in memory
  marks,     \* the same as the stored marks re-prime it
  bar,       \* the last committed bar of today: "none", "good" or "bad"
  swept,     \* this minute's sweep is over
  decision,  \* what it came to
  deaths,
  \* history
  run,       \* the first mark since which each condition held at every mark
  first,     \* today's first mark
  badBars,   \* bad bars of today, no more than two are counted
  unsaved    \* memory once ran ahead of the stored marks

memory == <<carried, marks>>
history == <<run, first, badBars, unsaved>>
vars == <<day, minute, pos, status, up, memory, bar, swept, decision, deaths, history>>

Dte == pos.dte - (day - 1)

AfterHours == minute >= CloseMinute

NoClocks == [r \in Stat |-> None]

NewCarried == [since |-> NoClocks, breaches |-> 0, armed |-> FALSE,
               streak |-> 0, judged |-> FALSE]

\* fault: the clocks of the statistical exits are not read back
RebuiltFreshClocks == [marks EXCEPT !.since = NoClocks]

\* _open_positions: the clocks, the breaches and the peak are read back from
\* the marks, the thesis streak starts over
Rebuilt == marks

FirstOf(set) == CHOOSE m \in set : \A n \in set : m <= n
-----------------------------------------------------------------------------
(* A mark's verdicts.                                                      *)

\* priced: there is a price of the underlying; low: the conditions of the
\* statistical exits; delta 1: at least 0.70, 2: at least 0.80; over: bid above
\* the entry ask; theta: decay dominates; far: and the target is unlikely;
\* stale: bars stopped, or a halt
Verdicts ==
  {e \in [priced : BOOLEAN, low : SUBSET Stat, delta : 0 .. 2, over : BOOLEAN,
          theta : BOOLEAN, far : BOOLEAN, stale : BOOLEAN] :
     /\ e.priced \/ (AfterHours /\ e.low = {} /\ e.delta = 0 /\ ~e.theta)
     \* told apart only where a rule tells them apart
     /\ e.priced => ~AfterHours \/ e.low # {} \/ e.theta \/ e.delta > 0
     /\ e.far => e.theta /\ ~AfterHours
     /\ e.stale => e.low = {"h"} /\ ~AfterHours
     /\ e.delta = 1 => Dte >= OvernightDte /\ minute >= EodMinute
     /\ e.delta = 2 => Dte = 0 /\ minute >= ZeroDteMinute}

\* fault: a clean mark does not reset the clock
SinceKeeps(e) ==
  [r \in Stat |-> IF carried.since[r] # None THEN carried.since[r]
                  ELSE IF r \in e.low /\ ~e.stale THEN minute ELSE None]

\* h_since, i_since: the minute of the first mark of the breach
Since(e) ==
  [r \in Stat |-> IF r \notin e.low \/ e.stale THEN None
                  ELSE IF carried.since[r] # None THEN carried.since[r] ELSE minute]

OneMore(breaches, e) ==
  IF ~e.theta THEN 0 ELSE IF breaches < Cycles THEN breaches + 1 ELSE breaches

Armed(e) == carried.armed \/ e.over

Held(r, e) == Since(e)[r] # None /\ minute - Since(e)[r] >= Persist

\* the round trip was profitable once, and is not any more
GainGone(e) == Armed(e) /\ ~e.over

\* the evidence rule's exception
Granted(e) == Dte >= OvernightDte /\ e.delta >= 1 /\ day \in GrantDays

PrintNear == day \in PrintDays /\ PrintMinute - PrintLead <= minute /\ minute <= PrintMinute

\* a macro lane's position, from its release on
PostPrintDue == pos.print /\ minute - PrintMinute >= PostPrint

\* a carried position has no frame before 10:00
Reframing == day > 1 /\ minute < ReframeMinute

\* fault: a bar already judged is judged again
StreakAgain ==
  IF AfterHours \/ bar = "none" THEN carried.streak
  ELSE IF Reframing \/ bar = "good" THEN 0 ELSE carried.streak + 1

\* _thesis_valid: a committed bar is judged once, by every lane of the position
Streak ==
  IF AfterHours THEN carried.streak
  ELSE IF Reframing THEN 0
  ELSE IF bar = "none" \/ carried.judged THEN carried.streak
  ELSE IF bar = "good" THEN 0 ELSE carried.streak + 1

Judged == IF AfterHours \/ Reframing \/ bar = "none" THEN carried.judged ELSE TRUE
-----------------------------------------------------------------------------
(* decide_exit: the first rule that applies.                               *)

FirstRule(ladder, default) ==
  LET on == {k \in DOMAIN ladder : ladder[k][1]}
  IN IF on = {} THEN default ELSE ladder[FirstOf(on)][2]

SellClock(e) == IF e.delta = 2 THEN DeepMinute ELSE ZeroDteMinute

InSession(e) == FirstRule(<<
  <<Dte = 0 /\ minute >= SellClock(e),                        "a_zero_dte_clock">>,
  <<Streak >= 2,                                              "b_thesis_invalid">>,
  <<GainGone(e) /\ "h" \in e.low,                             "d2_costbasis_backstop">>,
  <<PostPrintDue /\ "h" \in e.low,                            "f_post_print_no_edge">>,
  <<PrintNear,                                                "print_window_flat">>,
  <<Dte >= 1 /\ pos.planned /\ minute >= PlannedMinute,       "planned_exit_flat">>,
  <<Dte >= 1 /\ ~pos.planned /\ minute >= EodMinute /\ ~Granted(e),
                                                              "overnight_evidence_rule">>,
  <<OneMore(carried.breaches, e) >= Cycles /\ e.far,          "g_theta_dominates">>,
  <<"h" \in e.low /\ ~e.stale /\ Held("h", e),                "h_ev_hold_below_sell">>,
  <<"i" \in e.low /\ ~e.stale /\ Held("i", e),                "i_regain_low">>
  >>, "j_hold")

\* fault: a position without a gain to lose is held before the clock is asked
PastTheCloseHolds(e) == FirstRule(<<
  <<Granted(e) \/ ~Armed(e),        "overnight_grant_hold">>,
  <<minute >= FlatMinute,           "late_close_flat">>,
  <<pos.planned,                    "planned_exit_flat">>,
  <<GainGone(e),                    "d2_costbasis_backstop">>
  >>, "ah_hold")

\* the ladder after the close: cost and clocks only
PastTheClose(e) == FirstRule(<<
  <<Granted(e),                     "overnight_grant_hold">>,
  <<minute >= FlatMinute,           "late_close_flat">>,
  <<pos.planned,                    "planned_exit_flat">>,
  <<GainGone(e),                    "d2_costbasis_backstop">>
  >>, "ah_hold")

Holds == {"j_hold", "overnight_grant_hold", "ah_hold"}
-----------------------------------------------------------------------------
(* The sweep.                                                              *)

Swept(news) == swept' = TRUE /\ decision' = news

\* an exit row is written, or the append raises and the position stays
Exits(rule) ==
  \/ status' = "exited" /\ Swept(rule) /\ UNCHANGED unsaved
  \/ status' = "open" /\ Swept("unwritten") /\ unsaved' = TRUE

\* past the close a single name is only kept for a grant it may still get
MayRide == pos.index \/ (Dte >= OvernightDte /\ day \in GrantDays)

ForcedFlat ==
  /\ AfterHours /\ ~MayRide
  /\ Exits("post_close_forced_flat")
  /\ UNCHANGED <<day, minute, pos, up, memory, bar, deaths, run, first, badBars>>

NoQuote ==
  /\ AfterHours => MayRide
  /\ IF AfterHours /\ minute >= FlatMinute
     THEN Exits("late_close_flat")
     ELSE Swept("no_quote") /\ UNCHANGED <<status, unsaved>>
  /\ UNCHANGED <<day, minute, pos, up, memory, bar, deaths, run, first, badBars>>

\* a day without a price is no mark
NoPrice ==
  /\ ~AfterHours
  /\ Swept("no_price")
  /\ UNCHANGED <<day, minute, pos, status, up, memory, bar, deaths, history>>

\* what the engine's decision leaves in memory ...
Updated(e) ==
  [since |-> Since(e),
   breaches |-> IF AfterHours THEN carried.breaches ELSE OneMore(carried.breaches, e),
   armed |-> Armed(e), streak |-> Streak, judged |-> Judged]

\* ... and a rebuild would make of the marks with this one
Stored(e) ==
  [marks EXCEPT !.since = Since(e), !.armed = @ \/ e.over, !.breaches = OneMore(@, e)]

\* the engine raises: the peak and the thesis were updated, no row is written
EngineFails ==
  /\ \E over \in BOOLEAN :
       carried' = [carried EXCEPT !.armed = @ \/ over, !.streak = Streak, !.judged = Judged]
  /\ Swept("engine_error")
  /\ unsaved' = TRUE
  /\ UNCHANGED <<day, minute, pos, status, up, marks, bar, deaths, run, first, badBars>>

\* history of the conditions, as the marks saw them
Noted(e) ==
  /\ first' = IF first = None /\ ~unsaved' THEN minute ELSE first
  /\ run' = [r \in Stat |-> IF r \notin e.low \/ e.stale \/ unsaved' THEN None
                           ELSE IF run[r] # None THEN run[r]
                           ELSE [day |-> day, minute |-> minute]]

\* a quote, a decision, and a mark row or an exit row
Mark(e) ==
  /\ carried' = Updated(e)
  /\ LET rule == IF AfterHours THEN PastTheClose(e) ELSE InSession(e)
     IN IF rule \notin Holds
        THEN Exits(rule) /\ UNCHANGED marks
        ELSE /\ Swept(rule)
             /\ UNCHANGED status
             /\ \/ marks' = Stored(e) /\ UNCHANGED unsaved
                \/ UNCHANGED marks /\ unsaved' = TRUE
  /\ Noted(e)
  /\ UNCHANGED <<day, minute, pos, up, bar, deaths, badBars>>

Sweep ==
  /\ up /\ ~swept
  /\ \/ ForcedFlat \/ NoQuote
     \/ (AfterHours => MayRide) /\ (NoPrice \/ EngineFails \/ \E e \in Verdicts : Mark(e))
-----------------------------------------------------------------------------
(* The day, the bars and the process.                                      *)

BarCommits(b) ==
  /\ OpenMinute < minute /\ ~AfterHours
  /\ ~swept                \* a tick hands on the bars, then sweeps
  /\ bar' = b
  /\ badBars' = IF b = "bad" /\ badBars < 2 THEN badBars + 1 ELSE badBars
  /\ carried' = [carried EXCEPT !.judged = FALSE]
  /\ UNCHANGED <<day, minute, pos, status, up, marks, swept, decision, deaths,
                 run, first, unsaved>>

MinutePasses ==
  /\ \E m \in Grid : minute < m
  /\ minute' = FirstOf({m \in Grid : minute < m})
  /\ swept' = FALSE /\ decision' = "none"
  /\ UNCHANGED <<day, pos, status, up, memory, bar, deaths, history>>

\* _roll_day rebuilds what is open, and flags and drops what has expired
DayRolls ==
  /\ \A m \in Grid : m <= minute
  /\ day < LastDay
  /\ day' = day + 1 /\ minute' = FirstOf(Grid)
  /\ status' = IF Dte <= 0 THEN "expired" ELSE "open"
  /\ carried' = IF up THEN Rebuilt ELSE NewCarried
  /\ swept' = FALSE /\ decision' = "none"
  /\ bar' = "none" /\ badBars' = 0 /\ first' = None
  /\ UNCHANGED <<pos, up, marks, deaths, run, unsaved>>

Dies ==
  /\ up /\ deaths < MaxDeaths
  /\ up' = FALSE /\ deaths' = deaths + 1
  /\ carried' = NewCarried
  /\ UNCHANGED <<day, minute, pos, status, marks, bar, swept, decision, history>>

Respawns ==
  /\ ~up
  /\ up' = TRUE
  /\ carried' = Rebuilt
  /\ UNCHANGED <<day, minute, pos, status, marks, bar, swept, decision, deaths, history>>

\* a position that was just entered
Init ==
  /\ day = 1 /\ minute = FirstOf({m \in Grid : m > OpenMinute})
  /\ pos \in Positions
  /\ status = "open" /\ up = TRUE
  /\ carried = NewCarried /\ marks = NewCarried
  /\ bar = "none" /\ swept = TRUE /\ decision = "none" /\ deaths = 0
  /\ run = NoClocks /\ first = None /\ badBars = 0 /\ unsaved = FALSE

\* the life of the position
Next ==
  /\ status = "open"
  /\ \/ Sweep \/ MinutePasses \/ DayRolls \/ Dies \/ Respawns
     \/ \E b \in {"good", "bad"} : BarCommits(b)

Spec == Init /\ [][Next]_vars
-----------------------------------------------------------------------------
\* A statistical exit only fires on a condition that every mark of the last
\* Persist minutes has seen, whatever respawns, halts and unquoted sweeps lie
\* between. Excepted is a mark row that was lost before a death.
Patience ==
  [][\A r \in Stat :
       /\ decision' = (IF r = "h" THEN "h_ev_hold_below_sell" ELSE "i_regain_low")
       /\ ~unsaved'
       => /\ run'[r] # None
          /\ run'[r].day < day \/ minute - run'[r].minute >= Persist]_vars

\* The other way round: a breach that began today and that every mark has seen
\* since is not held past Persist minutes, and a respawn buys it no time.
EdgeOrSold ==
  [][\A r \in Stat :
       decision' = "j_hold" /\ run'[r] # None /\ ~unsaved'
       => run'[r].day < day \/ minute - run'[r].minute < Persist]_vars

\* A thesis is only dropped on two bars of the same day that were both judged
\* bad: however often a bar is looked at, across a merge, a death or a roll.
TwoBadBars == [][decision' = "b_thesis_invalid" => badBars >= 2]_vars

\* What the book carries into the next day, past a sweep at the hard flat that
\* got its work done, is a contract the overnight grant may keep: never one
\* that expires, never one without a catalyst in the morning.
CarriesGranted ==
  [][day' # day /\ status = "open" /\ up /\ swept
       /\ decision \notin {"engine_error", "unwritten"}
     => Dte >= OvernightDte /\ day \in GrantDays]_vars
=============================================================================
