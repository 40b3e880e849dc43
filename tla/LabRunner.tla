------------------------------ MODULE LabRunner ------------------------------
(***************************************************************************)
(* The strategy lab's process: scripts/run_strategy_lab.py with the        *)
(* per-strategy ledgers of atlas/strategy_lab/ledger.py.  One process      *)
(* ticks; a tick may roll the day (rebuild from the ledger, settle what    *)
(* expired), then polls quotes and gives every armed strategy a turn:      *)
(* manage its open combos, then scan for new ones.  The process may die    *)
(* between any two durable writes and be started again; the clock runs on  *)
(* its own and may pass a minute, or midnight, in the middle of a tick.    *)
(*                                                                         *)
(* Abstractions.  A position is the row of its entry record; a leg is its  *)
(* expiry day, and an option symbol (occ) is <<strategy, expiry>>.  Prices *)
(* are left out: what matters is whether one is on file.  The journal and  *)
(* mark files, which no decision reads back, are left out.                 *)
(***************************************************************************)
EXTENDS Integers, Sequences, FiniteSets

CONSTANTS
  Strategy,          \* strategy ids with a ledger directory
  Rosters,           \* armed rosters a process may load (registry.armed_roster)
  RideToExpiry,      \* strategies with META.settle_at_expiry
  MaxConcurrent,     \* META.max_concurrent, per strategy
  LegShapes,         \* leg sets a scan may propose, as days to expiry
  Quota,             \* QUARANTINE_ERRORS_PER_DAY
  OpenMinute,        \* 570: ticks before it only write the heartbeat
  BackstopMinute,    \* options close of the strategy minus lead_min
  LastMinute,        \* latest options close plus LATE_TICK_GRACE_MIN
  EndMinute,         \* last minute of a day
  LastDay,           \* bound: the clock stops at its end
  Holidays,          \* days that are not trading days
  MaxRows,           \* bound on entry rows
  MaxStarts,         \* bound on process starts
  SameMinuteRespawn, \* may a process come up in a minute of its predecessor?
  None               \* no strategy has its turn

ASSUME RosterAssumption ==
  /\ Rosters \subseteq SUBSET Strategy
  /\ RideToExpiry \subseteq Strategy
  /\ None \notin Strategy
  /\ MaxConcurrent \in [Strategy -> Nat \ {0}]
  /\ LegShapes \subseteq (SUBSET Nat) \ {{}}
  /\ Quota \in Nat \ {0}
  /\ MaxRows \in Nat /\ MaxStarts \in Nat
  /\ SameMinuteRespawn \in BOOLEAN

ASSUME ClockAssumption ==
  /\ {OpenMinute, BackstopMinute, LastMinute, EndMinute, LastDay} \subseteq Nat
  /\ LastDay >= 1
  /\ Holidays \subseteq Nat

VARIABLES
  \* durable: the ledger tree under runtime/strategy_lab
  entries,    \* entry rows, in file order (entries.jsonl)
  exits,      \* exit rows, in file order (exits.jsonl)
  \* the environment
  now,        \* the wall clock: [day, minute]
  starts,     \* processes started so far
  \* the process, lost when it dies
  pc,         \* where the process is
  armed,      \* self.armed, read from config/strategy_lab.yaml at start
  hub,        \* was a market hub built (a token was configured)?
  pday,       \* self._day, 0 before the first roll
  held,       \* self.positions, as rows of entries
  errors,     \* self.quarantined
  seq,        \* self._seq_today
  quoted,     \* hub._last_quotes: option symbols with a quote on file
  \* the tick in progress
  tick,       \* now_dt of the tick: [day, minute]
  fresh,      \* did this tick's poll return quotes?
  due,        \* armed strategies whose mark interval has elapsed
  turn,       \* armed strategies still to have their turn
  cur,        \* the strategy whose turn it is
  todo,       \* rows the current loop has still to visit
  priced,     \* rows whose expired legs' closes are retrievable, quotes sound
  batch       \* proposals of the current scan still to enter

ledger  == <<entries, exits>>
process == <<armed, hub, pday, held, errors, seq, quoted>>
local   == <<tick, fresh, due, turn, cur, todo, priced, batch>>
vars    == <<entries, exits, now, starts, pc, armed, hub, pday, held, errors,
             seq, quoted, tick, fresh, due, turn, cur, todo, priced, batch>>

-----------------------------------------------------------------------------
(* Rows, ids and the rebuild.                                              *)

Time == [day : Nat, minute : Nat]
Id   == Strategy \X Nat \X Nat \X Nat
Row  == [sid : Strategy, day : Nat, minute : Nat, seq : Nat, legs : SUBSET Nat]
Rule == {"expiry_settlement", "expiry_backstop", "strategy"}

\* next_position_id: sid:underlying:day:minute:seq
IdOf(r) == <<r.sid, r.day, r.minute, r.seq>>

Rows == 1 .. Len(entries)
RowsOf(s) == {i \in held : entries[i].sid = s}
ExitedIds == {exits[k].id : k \in 1 .. Len(exits)}

\* fault: an exits file that cannot be read counts as no exits
OpenRowsNoExits == Rows

\* open_positions_all: entries minus exited position ids
OpenRows == {i \in Rows : IdOf(entries[i]) \notin ExitedIds}

Occ(i) == {<<entries[i].sid, x>> : x \in entries[i].legs}

\* _leg_book is not None: a quote of any age is on file for every leg
Booked(i) == Occ(i) \subseteq quoted

\* expired_legs(pos, today - 1) is not empty
HasExpired(i, d) == \E x \in entries[i].legs : x < d

\* every leg that has not expired has a quote on file
LiveLegsQuoted(i, d) ==
  \A x \in entries[i].legs : x >= d => <<entries[i].sid, x>> \in quoted

\* expiry_backstop_due, for a strategy that does not settle at expiry
BackstopDue(i, t) ==
  /\ entries[i].sid \notin RideToExpiry
  /\ \E x \in entries[i].legs : x <= t.day
  /\ t.minute >= BackstopMinute

\* room left under META.max_concurrent
Room(s) == IF Cardinality(RowsOf(s)) < MaxConcurrent[s]
             THEN MaxConcurrent[s] - Cardinality(RowsOf(s)) ELSE 0

Before(a, b) == a.day < b.day \/ (a.day = b.day /\ a.minute < b.minute)
Stamp(i) == [day |-> entries[i].day, minute |-> entries[i].minute]

NoTick == [day |-> 0, minute |-> 0]

-----------------------------------------------------------------------------
(* Initial state: no ledger, no process, the first minute of day 1.        *)

MemoryLost ==
  /\ pc' = "down"
  /\ armed' = {} /\ hub' = FALSE /\ pday' = 0 /\ held' = {} /\ quoted' = {}
  /\ errors' = [s \in Strategy |-> 0]
  /\ seq' = [s \in Strategy |-> 0]
  /\ tick' = NoTick /\ fresh' = FALSE /\ due' = {} /\ turn' = {}
  /\ cur' = None /\ todo' = {} /\ priced' = {} /\ batch' = 0

Init ==
  /\ entries = <<>> /\ exits = <<>>
  /\ now = [day |-> 1, minute |-> 0]
  /\ starts = 0
  /\ pc = "down"
  /\ armed = {} /\ hub = FALSE /\ pday = 0 /\ held = {} /\ quoted = {}
  /\ errors = [s \in Strategy |-> 0]
  /\ seq = [s \in Strategy |-> 0]
  /\ tick = NoTick /\ fresh = FALSE /\ due = {} /\ turn = {}
  /\ cur = None /\ todo = {} /\ priced = {} /\ batch = 0

-----------------------------------------------------------------------------
(* The environment: clock, process start and death.                        *)

ClockTicks ==
  /\ \/ /\ now.minute < EndMinute
        /\ now' = [now EXCEPT !.minute = @ + 1]
     \/ /\ now.minute >= EndMinute /\ now.day < LastDay
        /\ now' = [day |-> now.day + 1, minute |-> 0]
  /\ UNCHANGED <<ledger, starts, pc, process, local>>

ClockStopped == now.day >= LastDay /\ now.minute >= EndMinute

\* every entry on the ledger is of an earlier minute
MinuteIsNew == \A i \in Rows : Before(Stamp(i), now)

\* main(): lock taken, hub built or not (build_hub), core constructed with
\* empty memory.  Any start counts: the launcher's respawn, the next day's
\* launch, a manual one.
Start ==
  /\ pc = "down" /\ starts < MaxStarts
  /\ SameMinuteRespawn \/ MinuteIsNew
  /\ starts' = starts + 1
  /\ pc' = "idle"
  /\ armed' \in Rosters
  /\ hub' \in BOOLEAN
  /\ UNCHANGED <<ledger, now, pday, held, errors, seq, quoted, local>>

\* A stop flag between ticks, an exception main() does not contain (any
\* ledger write outside _wrap may raise one) or a kill: memory is gone.
\* Not when the bounds on starts and on the clock leave no way back.
Die ==
  /\ pc # "down" /\ starts < MaxStarts
  /\ SameMinuteRespawn \/ ~ClockStopped \/ MinuteIsNew
  /\ MemoryLost
  /\ UNCHANGED <<ledger, now, starts>>

-----------------------------------------------------------------------------
(* Tick: the day roll.                                                     *)

\* fault: the day is rolled at start only
BeginTickRollsOnce ==
  /\ pc = "idle"
  /\ tick' = now
  /\ pc' = IF pday = 0 THEN "roll" ELSE "gate"
  /\ UNCHANGED <<ledger, now, starts, process, fresh, due, turn, cur, todo,
                 priced, batch>>

BeginTick ==
  /\ pc = "idle"
  /\ tick' = now
  /\ pc' = IF now.day # pday THEN "roll" ELSE "gate"
  /\ UNCHANGED <<ledger, now, starts, process, fresh, due, turn, cur, todo,
                 priced, batch>>

\* fault: a failed rebuild latches the day and the tick goes on
RollAbortLatches ==
  /\ pc = "roll"
  /\ pc' = "gate" /\ pday' = tick.day
  /\ UNCHANGED <<ledger, now, starts, armed, hub, held, errors, seq, quoted,
                 local>>

\* LedgerUnreadable: nothing is rebuilt, _day is not latched, the tick ends
\* after the heartbeat and the next tick tries again.
RollAbort ==
  /\ pc = "roll"
  /\ pc' = "idle" /\ tick' = NoTick
  /\ UNCHANGED <<ledger, now, starts, process, fresh, due, turn, cur, todo,
                 priced, batch>>

\* Positions replaced by the ledger's open ones; settlement will visit those
\* with an expired leg.  Without a hub no closing price can be retrieved.
RollLoad ==
  /\ pc = "roll"
  /\ held' = OpenRows
  /\ todo' = {i \in OpenRows : HasExpired(i, tick.day)}
  /\ priced' \in IF hub THEN SUBSET todo' ELSE {{}}
  /\ pc' = "settle"
  /\ UNCHANGED <<ledger, now, starts, armed, hub, pday, errors, seq, quoted, tick,
                 fresh, due, turn, cur, batch>>

\* fault: the exit is written and the position is not removed
WriteExitKeeps(i, rule) ==
  /\ exits' = Append(exits, [row |-> i, id |-> IdOf(entries[i]), rule |-> rule,
                             day |-> tick.day])
  /\ UNCHANGED held

WriteExit(i, rule) ==
  /\ exits' = Append(exits, [row |-> i, id |-> IdOf(entries[i]), rule |-> rule,
                             day |-> tick.day])
  /\ held' = held \ {i}

Settle(i) ==
  /\ pc = "settle" /\ i \in todo
  /\ i \in priced /\ LiveLegsQuoted(i, tick.day)
  /\ WriteExit(i, "expiry_settlement")
  /\ todo' = todo \ {i} /\ priced' = priced \ {i}
  /\ UNCHANGED <<entries, now, starts, pc, armed, hub, pday, errors, seq, quoted,
                 tick, fresh, due, turn, cur, batch>>

\* settlement_deferred: a price is missing; the position stays open
SettleDefer(i) ==
  /\ pc = "settle" /\ i \in todo
  /\ ~(i \in priced /\ LiveLegsQuoted(i, tick.day))
  /\ todo' = todo \ {i}
  /\ UNCHANGED <<ledger, now, starts, pc, process, tick, fresh, due, turn, cur,
                 priced, batch>>

\* fault: the settlement pass gives up before its last position
RollDoneEarly ==
  /\ pc = "settle"
  /\ pday' = tick.day
  /\ errors' = [s \in Strategy |-> 0]
  /\ seq' = [s \in Strategy |-> 0]
  /\ priced' = {} /\ todo' = {}
  /\ pc' = "gate"
  /\ UNCHANGED <<ledger, now, starts, armed, hub, held, quoted, tick, fresh,
                 due, turn, cur, batch>>

RollDone ==
  /\ pc = "settle" /\ todo = {}
  /\ pday' = tick.day
  /\ errors' = [s \in Strategy |-> 0]
  /\ seq' = [s \in Strategy |-> 0]
  /\ priced' = {}
  /\ pc' = "gate"
  /\ UNCHANGED <<ledger, now, starts, armed, hub, held, quoted, tick, fresh, due,
                 turn, cur, todo, batch>>

-----------------------------------------------------------------------------
(* Tick: the session gate and the quote poll.                              *)

InSession ==
  /\ hub
  /\ tick.day \notin Holidays
  /\ tick.minute >= OpenMinute /\ tick.minute <= LastMinute

EndTick ==
  /\ pc' = "idle"
  /\ tick' = NoTick /\ fresh' = FALSE /\ due' = {} /\ turn' = {} /\ cur' = None
  /\ UNCHANGED <<ledger, now, starts, process, todo, priced, batch>>

HeartbeatOnly ==
  /\ pc = "gate" /\ ~InSession
  /\ EndTick

\* poll_quotes: one batched call for every underlying and every open leg;
\* an option that has expired has no quote; a failed call leaves the old
\* quotes on file and returns none.
Poll ==
  /\ pc = "gate" /\ InSession
  /\ \/ /\ quoted' \in {quoted \cup got :
                          got \in SUBSET {o \in UNION {Occ(i) : i \in held} :
                                            o[2] >= tick.day}}
        /\ fresh' = TRUE
     \/ /\ UNCHANGED quoted
        /\ fresh' = FALSE
  /\ due' \in SUBSET armed
  /\ turn' = armed
  /\ pc' = "turn"
  /\ UNCHANGED <<ledger, now, starts, armed, hub, pday, held, errors, seq, tick, cur,
                 todo, priced, batch>>

TickDone ==
  /\ pc = "turn" /\ turn = {}
  /\ EndTick

-----------------------------------------------------------------------------
(* Tick: one strategy's turn.                                              *)

Quarantined(s) == errors[s] >= Quota

EndTurn ==
  /\ turn' = turn \ {cur}
  /\ cur' = None
  /\ pc' = "turn"

\* tick(): `continue` before both manage and scan
SkipQuarantined(s) ==
  /\ pc = "turn" /\ s \in turn /\ Quarantined(s)
  /\ turn' = turn \ {s}
  /\ UNCHANGED <<ledger, now, starts, pc, process, tick, fresh, due, cur, todo,
                 priced, batch>>

\* fault: only the positions entered today are managed
BeginManageToday(s) ==
  /\ pc = "turn" /\ s \in turn /\ ~Quarantined(s)
  /\ s \in due
  /\ cur' = s
  /\ todo' = {i \in RowsOf(s) : entries[i].day = pday}
  /\ pc' = "manage"
  /\ UNCHANGED <<ledger, now, starts, process, tick, fresh, due, turn, priced,
                 batch>>

BeginManage(s) ==
  /\ pc = "turn" /\ s \in turn /\ ~Quarantined(s)
  /\ s \in due
  /\ cur' = s
  /\ todo' = RowsOf(s)
  /\ pc' = "manage"
  /\ UNCHANGED <<ledger, now, starts, process, tick, fresh, due, turn, priced,
                 batch>>

SkipManage(s) ==
  /\ pc = "turn" /\ s \in turn /\ ~Quarantined(s)
  /\ s \notin due
  /\ cur' = s
  /\ pc' = "scan"
  /\ UNCHANGED <<ledger, now, starts, process, tick, fresh, due, turn, todo,
                 priced, batch>>

\* _wrap: the exception is contained and counted
Count(s) == errors' = [errors EXCEPT ![s] = @ + 1]

\* fault: manage() is asked before the rail, and may hold
ManageHoldFirst(i) ==
  /\ pc = "manage" /\ i \in todo
  /\ todo' = todo \ {i}
  /\ UNCHANGED <<ledger, now, starts, pc, process, tick, fresh, due, turn, cur,
                 priced, batch>>

\* no quote for a leg (combo_mark_partial), or marked and manage() says hold
ManageHold(i) ==
  /\ pc = "manage" /\ i \in todo
  /\ ~(Booked(i) /\ BackstopDue(i, tick))
  /\ todo' = todo \ {i}
  /\ UNCHANGED <<ledger, now, starts, pc, process, tick, fresh, due, turn, cur,
                 priced, batch>>

Backstop(i) ==
  /\ pc = "manage" /\ i \in todo
  /\ Booked(i) /\ BackstopDue(i, tick)
  /\ WriteExit(i, "expiry_backstop")
  /\ todo' = todo \ {i}
  /\ UNCHANGED <<entries, now, starts, pc, armed, hub, pday, errors, seq, quoted,
                 tick, fresh, due, turn, cur, priced, batch>>

ManageClose(i) ==
  /\ pc = "manage" /\ i \in todo
  /\ Booked(i) /\ ~BackstopDue(i, tick)
  /\ WriteExit(i, "strategy")
  /\ todo' = todo \ {i}
  /\ UNCHANGED <<entries, now, starts, pc, armed, hub, pday, errors, seq, quoted,
                 tick, fresh, due, turn, cur, priced, batch>>

ManageRaise(i) ==
  /\ pc = "manage" /\ i \in todo
  /\ Booked(i) /\ ~BackstopDue(i, tick)
  /\ Count(cur)
  /\ todo' = todo \ {i}
  /\ UNCHANGED <<ledger, now, starts, pc, armed, hub, pday, held, seq, quoted, tick,
                 fresh, due, turn, cur, priced, batch>>

ManageDone ==
  /\ pc = "manage" /\ todo = {}
  /\ pc' = "scan"
  /\ UNCHANGED <<ledger, now, starts, process, local>>

\* no room, scan interval not elapsed, blackout, or scan() proposes nothing
ScanNothing ==
  /\ pc = "scan"
  /\ EndTurn
  /\ UNCHANGED <<ledger, now, starts, process, tick, fresh, due, todo, priced,
                 batch>>

ScanRaise ==
  /\ pc = "scan" /\ Room(cur) > 0
  /\ Count(cur)
  /\ EndTurn
  /\ UNCHANGED <<ledger, now, starts, armed, hub, pday, held, seq, quoted, tick,
                 fresh, due, todo, priced, batch>>

\* proposals[:room]
ScanProposes ==
  /\ pc = "scan"
  /\ batch' \in 1 .. Room(cur)
  /\ pc' = "enter"
  /\ UNCHANGED <<ledger, now, starts, process, tick, fresh, due, turn, cur,
                 todo, priced>>

EntryRow(legs) ==
  [sid |-> cur, day |-> pday, minute |-> tick.minute, seq |-> seq[cur],
   legs |-> legs]

TakeSeq == seq' = [seq EXCEPT ![cur] = @ + 1]

\* no underlying quote, or symbol_state vetoes the underlying
EnterDecline ==
  /\ pc = "enter" /\ batch > 0
  /\ batch' = batch - 1
  /\ UNCHANGED <<ledger, now, starts, pc, process, tick, fresh, due, turn, cur,
                 todo, priced>>

\* _enter raises before its row is on disk, with or without a sequence
\* number taken
EnterRaise ==
  /\ pc = "enter" /\ batch > 0 /\ fresh
  /\ batch' = batch - 1
  /\ Count(cur)
  /\ UNCHANGED seq \/ TakeSeq
  /\ UNCHANGED <<ledger, now, starts, pc, armed, hub, pday, held, quoted, tick, fresh,
                 due, turn, cur, todo, priced>>

\* write_entry raises after its row is on disk (flush or fsync fails): _wrap
\* contains it and the position is not tracked
EnterOrphans ==
  /\ pc = "enter" /\ batch > 0 /\ fresh
  /\ Len(entries) < MaxRows
  /\ batch' = batch - 1
  /\ \E shape \in LegShapes :
       entries' = Append(entries, EntryRow({tick.day + n : n \in shape}))
  /\ TakeSeq /\ Count(cur)
  /\ UNCHANGED <<exits, now, starts, pc, armed, hub, pday, held, quoted, tick, fresh,
                 due, turn, cur, todo, priced>>

Enter ==
  /\ pc = "enter" /\ batch > 0 /\ fresh
  /\ Len(entries) < MaxRows
  /\ batch' = batch - 1
  /\ \E shape \in LegShapes :
       entries' = Append(entries, EntryRow({tick.day + n : n \in shape}))
  /\ TakeSeq
  /\ held' = held \cup {Len(entries) + 1}
  /\ UNCHANGED <<exits, now, starts, pc, armed, hub, pday, errors, quoted, tick,
                 fresh, due, turn, cur, todo, priced>>

EnterDone ==
  /\ pc = "enter" /\ batch = 0
  /\ EndTurn
  /\ UNCHANGED <<ledger, now, starts, process, tick, fresh, due, todo, priced,
                 batch>>

-----------------------------------------------------------------------------

Roll   == RollAbort \/ RollLoad \/ RollDone
            \/ \E i \in todo : Settle(i) \/ SettleDefer(i)
Manage == ManageDone
            \/ \E i \in todo : ManageHold(i) \/ Backstop(i) \/ ManageClose(i)
                                 \/ ManageRaise(i)
Scan   == ScanNothing \/ ScanRaise \/ ScanProposes
Entry  == EnterDecline \/ EnterRaise \/ EnterOrphans \/ Enter \/ EnterDone
Turn   == \E s \in turn : SkipQuarantined(s) \/ BeginManage(s) \/ SkipManage(s)

Step == BeginTick \/ Roll \/ HeartbeatOnly \/ Poll \/ Turn \/ Manage \/ Scan
          \/ Entry \/ TickDone

Next == ClockTicks \/ Start \/ Die \/ Step

Spec == Init /\ [][Next]_vars

\* The process keeps running its code and is started when it is down, time
\* passes, the ledger is readable again and again, and a strategy's mark
\* interval elapses again and again.  Nothing is assumed of strategies, of
\* prices, or of quotes.
Fairness ==
  /\ WF_vars(ClockTicks) /\ WF_vars(Start) /\ WF_vars(Step)
  /\ SF_vars(RollLoad)
  /\ \A s \in Strategy : SF_vars(Poll /\ s \in due')

FairSpec == Spec /\ Fairness
=============================================================================
