---------------------------- MODULE ShadowRunner ----------------------------
(***************************************************************************)
(* The main shadow runner: scripts/run_options_shadow.py with the ledger   *)
(* of atlas/options/shadow.py and the day latches of options/lanes.py.     *)
(* A tick rolls the day if it can, hands completed bars to the lanes, whose*)
(* signals merge into a position or open one, and then sweeps the open     *)
(* positions.  main() contains whatever a tick raises and goes on with the *)
(* memory the tick left behind; the process may also die at any point.     *)
(*                                                                         *)
(* Abstractions.  A position is the row of its entry record, a contract    *)
(* its exposure (underlying and side) and expiry.  Which bars complete,    *)
(* from the feed or from a backfill, is module SessionBars; here a lane    *)
(* may fire on any completed bar of the session.  What the selector picks  *)
(* and what the exit engine decides within the session are free.  Marks,   *)
(* quote rows and the post-exit capture, which decide nothing, are left    *)
(* out.                                                                    *)
(***************************************************************************)
EXTENDS Integers, Sequences, FiniteSets

CONSTANTS
  Underlying,        \* symbols with bars
  Side,              \* "call", "put"
  Lane,              \* lanes that emit
  Watches,           \* lane -> the symbols it looks at
  Latching,          \* lanes with confirm_entry and release (the rest emit
                     \* once a day, whatever becomes of it)
  Index,             \* INDEX_UNDERLYINGS: options quote past the equity close
  Dtes,              \* days to expiry of the contracts the selector may pick
  MaxConcurrent,     \* cfg max_concurrent
  Cooldown,          \* RELEASE_COOLDOWN_MIN
  Ttl,               \* signal_ttl_min
  OpenMinute,        \* 570
  CloseMinute,       \* the session close of the day
  FlatMinute,        \* late_close_flat_min, close + 10
  OvernightDte,      \* overnight_min_dte
  GrantDays,         \* days, not Fridays, before a named catalyst
  Weekends,          \* days with weekday() >= 5
  EndMinute,         \* last minute of a day
  LastDay,           \* bound: the clock stops on this day,
  LastMinute,        \* at this minute
  MaxRows,           \* bound on entry rows
  MaxStarts,         \* bound on process starts
  Faults             \* faults of the disk, see FaultAssumption

ASSUME MarketAssumption ==
  /\ Latching \subseteq Lane /\ Index \subseteq Underlying
  /\ Watches \in [Lane -> SUBSET Underlying]
  /\ Dtes \subseteq Nat /\ OvernightDte \in Nat
  /\ MaxConcurrent \in Nat \ {0}
  /\ GrantDays \subseteq Nat /\ Weekends \subseteq Nat

ASSUME SessionAssumption ==
  /\ {Cooldown, Ttl, OpenMinute, CloseMinute, FlatMinute, EndMinute, LastDay,
    LastMinute}       \subseteq Nat
  /\ CloseMinute <= FlatMinute
  /\ MaxRows \in Nat /\ MaxStarts \in Nat

\* "late":     an append raises after its row is on disk (flush, fsync)
\* "tolerant": a tolerant read of the entries file, which is locked, returns no
\*             rows, at the rebuild or at the count of the day's entries
\* "roll":     an append raises while a roll, not the first of its process,
\*             refills the positions
ASSUME FaultAssumption == Faults \subseteq {"late", "tolerant", "roll"}

VARIABLES
  \* durable: runtime/options_shadow_*.jsonl
  entries,    \* shadow_entry rows, in file order
  merges,     \* shadow_merge rows, in file order (they share the entries file)
  exits,      \* shadow_exit rows, in file order
  flagged,    \* ids journaled expired_unexited_position, in file order
  \* the environment
  now,        \* the wall clock: [day, minute]
  starts,     \* processes started so far
  \* the process, lost when it dies
  pc,         \* where the process is
  client,     \* was a Tradier client built (a token was configured)?
  pday,       \* self._day, 0 before the first roll
  held,       \* self.positions, as rows of entries
  tags,       \* pos.lanes of the positions in memory, as pairs <<row, lane>>
  count,      \* self.entries_today
  latched,    \* <<lane, exposure>> that cannot fire again today
  cooldown,   \* <<lane, exposure>> -> minute before which it cannot fire
  \* the tick in progress
  tick,       \* now of the tick: [day, minute]
  todo,       \* rows the sweep has still to visit
  due         \* of these, marks due whose engine call does not raise

ledger  == <<entries, merges, exits, flagged>>
process == <<client, pday, held, tags, count, latched, cooldown>>
local   == <<tick, todo, due>>
vars    == <<entries, merges, exits, flagged, now, starts, pc, client, pday, held,
             tags, count, latched, cooldown, tick, todo, due>>

-----------------------------------------------------------------------------
(* Rows, ids and the rebuild.                                              *)

Time     == [day : Nat, minute : Nat]
Exposure == Underlying \X Side
Key      == Lane \X Exposure
Id       == Exposure \X Nat \X Nat \X Nat \X Nat
\* proc, the process that wrote the row, is not in the file; no action reads it
Row == [exp : Exposure, lane : Lane, expiry : Nat, day : Nat, minute : Nat,
        seq : Nat, proc : Nat]

\* position_id: occ:day:minute:entries_today
IdOf(r) == <<r.exp, r.expiry, r.day, r.minute, r.seq>>

Rows == 1 .. Len(entries)
RowsOfDay(d) == {i \in Rows : entries[i].day = d}
ExitedIds == {exits[k].id : k \in 1 .. Len(exits)}
FlaggedIds == {flagged[k] : k \in 1 .. Len(flagged)}

\* _open_positions: entries minus exited ids
OpenRows == {i \in Rows : IdOf(entries[i]) \notin ExitedIds}

\* rows of the given ones that have not expired on day d
Unexpired(rows, d) == {i \in rows : entries[i].expiry >= d}

\* the lanes of a rebuilt position: its entry's and its merge rows'
LanesOnDisk(i) ==
  {entries[i].lane} \cup {merges[k].lane : k \in
      {k \in 1 .. Len(merges) : merges[k].id = IdOf(entries[i])}}

NoTick == [day |-> 0, minute |-> 0]
NoKeys == [k \in Key |-> 0]

-----------------------------------------------------------------------------
(* Initial state and environment.                                          *)

MemoryLost ==
  /\ pc' = "down"
  /\ client' = FALSE /\ pday' = 0 /\ held' = {} /\ tags' = {} /\ count' = 0
  /\ latched' = {} /\ cooldown' = NoKeys
  /\ tick' = NoTick /\ todo' = {} /\ due' = {}

Init ==
  /\ entries = <<>> /\ merges = <<>> /\ exits = <<>> /\ flagged = <<>>
  /\ now = [day |-> 1, minute |-> 0]
  /\ starts = 0
  /\ pc = "down"
  /\ client = FALSE /\ pday = 0 /\ held = {} /\ tags = {} /\ count = 0
  /\ latched = {} /\ cooldown = NoKeys
  /\ tick = NoTick /\ todo = {} /\ due = {}

ClockTicks ==
  /\ \/ /\ now.minute < (IF now.day < LastDay THEN EndMinute ELSE LastMinute)
        /\ now' = [now EXCEPT !.minute = @ + 1]
     \/ /\ now.minute >= EndMinute /\ now.day < LastDay
        /\ now' = [day |-> now.day + 1, minute |-> 0]
  /\ UNCHANGED <<ledger, starts, pc, process, local>>

\* main(): lock taken, client built or not, core with empty memory
Start ==
  /\ pc = "down" /\ starts < MaxStarts
  /\ starts' = starts + 1
  /\ client' \in BOOLEAN
  /\ pc' = "idle"
  /\ UNCHANGED <<ledger, now, pday, held, tags, count, latched, cooldown, local>>

\* stopped by the launcher, killed, or the machine went down
Die ==
  /\ pc # "down" /\ starts < MaxStarts
  /\ MemoryLost
  /\ UNCHANGED <<ledger, now, starts>>

EndTick ==
  /\ pc' = "idle"
  /\ tick' = NoTick /\ todo' = {} /\ due' = {}

\* main() contains what the tick raised (a journal append, the heartbeat):
\* the next tick starts from whatever memory this one left
TickFails ==
  /\ \/ pc \in {"roll", "bars", "sweep"}
     \/ pc = "rebuild" /\ "roll" \in Faults /\ pday # 0
  /\ EndTick
  /\ UNCHANGED <<ledger, now, starts, process>>

-----------------------------------------------------------------------------
(* Tick: the day roll.                                                     *)

\* fault: the day is rolled once per process
BeginTickRollsOnce ==
  /\ pc = "idle"
  /\ tick' = now
  /\ pc' = IF pday = 0 THEN "roll" ELSE "bars"
  /\ UNCHANGED <<ledger, now, starts, process, todo, due>>

BeginTick ==
  /\ pc = "idle"
  /\ tick' = now
  /\ pc' = IF now.day # pday THEN "roll" ELSE "bars"
  /\ UNCHANGED <<ledger, now, starts, process, todo, due>>

\* fault: the day is latched first
RollAbortLatches ==
  /\ pc = "roll"
  /\ pc' = "bars" /\ pday' = tick.day
  /\ UNCHANGED <<ledger, now, starts, client, held, tags, count, latched, cooldown,
                 local>>

\* LedgerUnreadable: _roll_day returns, and the tick goes on under the
\* previous day's state
RollAbort ==
  /\ pc = "roll"
  /\ pc' = "bars"
  /\ UNCHANGED <<ledger, now, starts, process, local>>

\* fault: only the entries of the day are rebuilt
RollLoadToday ==
  /\ pc = "roll"
  /\ latched' = {} /\ cooldown' = NoKeys
  /\ held' = {} /\ tags' = {}
  /\ todo' = OpenRows \cap RowsOfDay(tick.day)
  /\ pc' = "rebuild"
  /\ UNCHANGED <<ledger, now, starts, client, pday, count, tick, due>>

\* fresh lanes; the loop over the open positions refills self.positions
RollLoad ==
  /\ pc = "roll"
  /\ latched' = {} /\ cooldown' = NoKeys
  /\ held' = {} /\ tags' = {}
  /\ todo' \in {OpenRows} \cup (IF "tolerant" \in Faults THEN {{}} ELSE {})
  /\ pc' = "rebuild"
  /\ UNCHANGED <<ledger, now, starts, client, pday, count, tick, due>>

Track(i) ==
  /\ pc = "rebuild" /\ i \in todo
  /\ entries[i].expiry >= tick.day
  /\ held' = held \cup {i}
  /\ tags' = tags \cup {<<i, l>> : l \in LanesOnDisk(i)}
  /\ todo' = todo \ {i}
  /\ UNCHANGED <<ledger, now, starts, pc, client, pday, count, latched, cooldown,
                 tick, due>>

\* expired without an exit row: said once, no longer tracked
Flag(i) ==
  /\ pc = "rebuild" /\ i \in todo
  /\ entries[i].expiry < tick.day
  /\ flagged' = IF IdOf(entries[i]) \in FlaggedIds THEN flagged
                  ELSE Append(flagged, IdOf(entries[i]))
  /\ todo' = todo \ {i}
  /\ UNCHANGED <<entries, merges, exits, now, starts, pc, process, tick, due>>

\* fault: the day's entries are not counted from the file
RollDoneUncounted ==
  /\ pc = "rebuild" /\ todo = {}
  /\ count' = 0
  /\ pday' = tick.day
  /\ pc' = "bars"
  /\ UNCHANGED <<ledger, now, starts, client, held, tags, latched, cooldown, local>>

\* the day is latched last
RollDone ==
  /\ pc = "rebuild" /\ todo = {}
  /\ count' \in {Cardinality(RowsOfDay(tick.day))}
                  \cup (IF "tolerant" \in Faults THEN {0} ELSE {})
  /\ pday' = tick.day
  /\ pc' = "bars"
  /\ UNCHANGED <<ledger, now, starts, client, held, tags, latched, cooldown, local>>

-----------------------------------------------------------------------------
(* Tick: completed bars, lanes and signals.                                *)

InSession == tick.minute \in OpenMinute .. CloseMinute - 1
               /\ tick.day \notin Weekends

\* IndexTrendLane.update, InPlayORBLane.update: not latched, not cooling down;
\* MacroReactionLane.update: not yet emitted
Armed(k, m) ==
  IF k[1] \in Latching THEN k \notin latched /\ m >= cooldown[k]
                       ELSE \A j \in latched : j[1] # k[1]

\* A lane fires for an exposure on bar m of the session.  The bar is complete
\* by the clock of the poll or the backfill, which is read after the tick's
\* (abstraction: less than a minute after).
Fires(k, m) ==
  /\ pc = "bars" /\ client
  /\ pday # 0                        \* no lanes before the first roll
  /\ k[2][1] \in Watches[k[1]]
  /\ m \in OpenMinute .. CloseMinute - 1
  /\ m <= tick.minute /\ (m < now.minute \/ tick.day < now.day)
  /\ Armed(k, m)

\* the pending guard of a latching lane, the emission of another
Pending(k, m) ==
  IF k[1] \in Latching
    THEN cooldown' = [cooldown EXCEPT ![k] = m + Cooldown + 1] /\ UNCHANGED latched
    ELSE latched' = latched \cup {k} /\ UNCHANGED cooldown

\* _lane_confirm
Confirmed(k, m) ==
  /\ latched' = latched \cup {k}
  /\ cooldown' = IF k[1] \in Latching THEN [cooldown EXCEPT ![k] = m + Cooldown + 1]
                                      ELSE cooldown

\* _lane_release
Released(k) ==
  IF k[1] \in Latching
    THEN cooldown' = [cooldown EXCEPT ![k] = tick.minute + Cooldown] /\ UNCHANGED latched
    ELSE latched' = latched \cup {k} /\ UNCHANGED cooldown

Stale(m) == tick.minute > m + 1 + Ttl

\* signal_expired, signal_after_hours_skip: no release
FireDropped(k, m) ==
  /\ Fires(k, m)
  /\ Stale(m) \/ ~InSession
  /\ Pending(k, m)
  /\ UNCHANGED <<ledger, now, starts, pc, client, pday, held, tags, count, local>>

\* the positions of the same underlying and side; signals merge into the first
Same(k) == {i \in held : entries[i].exp = k[2]}
First(rows) == {i \in rows : \A j \in rows : i <= j}

\* the tick fails while the signal is handled and nothing was written, with
\* the lane perhaps already on the position it was to merge into
FireRaises(k, m) ==
  /\ Fires(k, m)
  /\ tags' \in {tags} \cup
       {tags \cup {<<i, k[1]>>} : i \in IF Stale(m) \/ ~InSession THEN {} ELSE First(Same(k))}
  /\ Pending(k, m)
  /\ EndTick
  /\ UNCHANGED <<ledger, now, starts, client, pday, held, count>>

\* blackout, or no room, no price, no chain, no pick: re-armed later
FireDies(k, m) ==
  /\ Fires(k, m) /\ ~Stale(m) /\ InSession
  /\ Released(k)
  /\ UNCHANGED <<ledger, now, starts, pc, client, pday, held, tags, count, local>>

\* the exposure is held: the lane joins the position, once
Merge(k, m) ==
  /\ Fires(k, m) /\ ~Stale(m) /\ InSession
  /\ \E i \in First(Same(k)) :
       /\ tags' = tags \cup {<<i, k[1]>>}
       /\ merges' = IF <<i, k[1]>> \in tags THEN merges
                      ELSE Append(merges, [id |-> IdOf(entries[i]), lane |-> k[1]])
  /\ \/ Confirmed(k, m) /\ UNCHANGED <<pc, local>>
     \/ "late" \in Faults /\ Pending(k, m) /\ EndTick
  /\ UNCHANGED <<entries, exits, flagged, now, starts, client, pday, held, count>>

EntryRow(k, expiry) ==
  [exp |-> k[2], lane |-> k[1], expiry |-> expiry, day |-> pday,
   minute |-> tick.minute, seq |-> count, proc |-> starts]

\* fault: one more than the cap
MayEnterOneMore(k, m) ==
  /\ Fires(k, m) /\ ~Stale(m) /\ InSession
  /\ Same(k) = {}
  /\ Cardinality(held) <= MaxConcurrent
  /\ Len(entries) < MaxRows

\* fault: only the lane's own positions are merged into
MayEnterOwn(k, m) ==
  /\ Fires(k, m) /\ ~Stale(m) /\ InSession
  /\ \A i \in Same(k) : entries[i].lane # k[1]
  /\ Cardinality(held) < MaxConcurrent
  /\ Len(entries) < MaxRows

MayEnter(k, m) ==
  /\ Fires(k, m) /\ ~Stale(m) /\ InSession
  /\ Same(k) = {}
  /\ Cardinality(held) < MaxConcurrent
  /\ Len(entries) < MaxRows

Enter(k, m) ==
  /\ MayEnter(k, m)
  /\ \E n \in Dtes : entries' = Append(entries, EntryRow(k, tick.day + n))
  /\ \/ /\ held' = held \cup {Len(entries) + 1}
        /\ tags' = tags \cup {<<Len(entries) + 1, k[1]>>}
        /\ count' = count + 1
        /\ Confirmed(k, m)
        /\ UNCHANGED <<pc, local>>
     \/ /\ "late" \in Faults
        /\ Pending(k, m) /\ EndTick
        /\ UNCHANGED <<held, tags, count>>
  /\ UNCHANGED <<merges, exits, flagged, now, starts, client, pday>>

-----------------------------------------------------------------------------
(* Tick: the sweep over open positions.                                    *)

\* no client: _reval_positions returns at once
BeginSweep ==
  /\ pc = "bars"
  /\ todo' = IF client THEN held ELSE {}
  /\ due' \in SUBSET todo'
  /\ pc' = "sweep"
  /\ UNCHANGED <<ledger, now, starts, process, tick>>

AfterHours == tick.minute >= CloseMinute

\* DTE >= 3, a named catalyst tomorrow, not a Friday
Grantable(i) ==
  entries[i].expiry >= tick.day + OvernightDte /\ tick.day \in GrantDays

\* post_close_forced_flat: a quote is looked for and not needed
ForcedFlat(i) ==
  AfterHours /\ entries[i].exp[1] \notin Index /\ ~Grantable(i)

\* late_close_flat, with a quote (decide_exit) or without one
LateFlat(i) == tick.minute >= FlatMinute /\ i \in due /\ ~Grantable(i)

\* write_exit, then the position is dropped; an append that raises after its
\* row is on disk leaves the position and ends the tick
WriteExit(i, rule) ==
  /\ exits' = Append(exits, [id |-> IdOf(entries[i]), rule |-> rule])
  /\ \/ /\ held' = held \ {i} /\ tags' = {p \in tags : p[1] # i}
        /\ todo' = todo \ {i}
        /\ UNCHANGED <<pc, tick, due>>
     \/ /\ "late" \in Faults
        /\ EndTick
        /\ UNCHANGED <<held, tags>>
  /\ UNCHANGED <<entries, merges, flagged, now, starts, client, pday, count, latched,
                 cooldown>>

ForceExit(i) ==
  /\ pc = "sweep" /\ i \in todo
  /\ ForcedFlat(i)
  /\ WriteExit(i, "post_close_forced_flat")

\* a grantable position too, when it has no usable quote
FlattenLate(i) ==
  /\ pc = "sweep" /\ i \in todo
  /\ ~ForcedFlat(i)
  /\ tick.minute >= FlatMinute /\ i \in due
  /\ WriteExit(i, "late_close_flat")

\* the engine sells
Sell(i) ==
  /\ pc = "sweep" /\ i \in todo
  /\ ~ForcedFlat(i) /\ ~LateFlat(i) /\ i \in due
  /\ WriteExit(i, "engine")

\* fault: the mark cadence is looked at before the clock
HoldBetweenMarks(i) ==
  /\ pc = "sweep" /\ i \in todo
  /\ i \in due => ~ForcedFlat(i) /\ ~LateFlat(i)
  /\ todo' = todo \ {i}
  /\ UNCHANGED <<ledger, now, starts, pc, process, tick, due>>

\* mark not due, no usable quote, exit_engine_error, or the engine holds
Hold(i) ==
  /\ pc = "sweep" /\ i \in todo
  /\ ~ForcedFlat(i) /\ ~LateFlat(i)
  /\ todo' = todo \ {i}
  /\ UNCHANGED <<ledger, now, starts, pc, process, tick, due>>

\* post-exit quotes and the heartbeat end the tick
SweepDone ==
  /\ pc = "sweep" /\ todo = {}
  /\ EndTick
  /\ UNCHANGED <<ledger, now, starts, process>>

-----------------------------------------------------------------------------

Roll   == RollAbort \/ RollLoad \/ RollDone \/ \E i \in todo : Track(i) \/ Flag(i)
Signal == \E k \in Key, m \in OpenMinute .. CloseMinute :
            \/ FireDropped(k, m) \/ FireRaises(k, m) \/ FireDies(k, m)
            \/ Merge(k, m) \/ Enter(k, m)
Sweep  == BeginSweep \/ SweepDone
            \/ \E i \in todo : ForceExit(i) \/ FlattenLate(i) \/ Sell(i) \/ Hold(i)

Step == BeginTick \/ Roll \/ Signal \/ Sweep \/ TickFails

Next == ClockTicks \/ Start \/ Die \/ Step

Spec == Init /\ [][Next]_vars

\* The process keeps running and is started when it is down, time passes,
\* and a roll that is tried again and again is once not aborted.
Fairness ==
  /\ WF_vars(ClockTicks) /\ WF_vars(Start)
  /\ WF_vars(BeginTick \/ Roll \/ Sweep)
  /\ SF_vars(RollLoad)

FairSpec == Spec /\ Fairness
=============================================================================
