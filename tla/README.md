# Verification of shadow-options-trading-lab

TLA+ models of the trading lab in `src/`, TLC configurations that check them on
small instances, and TLAPS proofs of what matters most about them for every
instance.  Source lines are given as `file:line`.  `run_strategy_lab.py`,
`run_options_shadow.py`, `alert_watch.py`, `news_tap.py`, `poll_symbol_state.py`,
the graders and the launchers (`*.ps1`) are in `src/scripts/`; `ledger.py`,
`hub.py`, `strategy.py`, `settlement.py`, `grading.py`, `verdicts.py` and
`strategies/` in `src/atlas/strategy_lab/`; `shadow.py`, `lanes.py`,
`exit_engine.py`, `session_calendar.py` in `src/atlas/options/`; `feed.py` in
`src/atlas/hunter/`; `symbol_state.py`, `catalyst_book.py`, `benzinga_news.py`,
`multi_news_source.py` in `src/atlas/collect/`.

## 1. Inventory

The program decides on live data which option positions it *would* open, marks
them and decides when it *would* close them.  It places no orders; its product
is a set of append-only JSONL ledgers that nightly graders read.  Everything it
claims about a strategy rests on those ledgers being right: every position
entered once, exited once, settled or closed when it should have been, and
counted once.

| Component | State it keeps | Operations | Talks to | What makes it correct |
| --- | --- | --- | --- | --- |
| Strategy lab runner (`run_strategy_lab.py`) | open combos, day, quarantine counts, sequence numbers, mark and scan clocks (all in memory) | day roll, expiry settlement, poll, manage, scan, enter, heartbeat | ledger (append, rebuild), hub (quotes, history), strategies (callbacks), symbol state (file) | memory agrees with the ledger; nothing due is missed; one strategy's errors stay its own |
| Lab ledger (`ledger.py`, `model.py`) | `entries`, `marks`, `exits`, `journal` files per strategy | append, strict read, rebuild | lab runner, lab grader | ids unique; rebuild = entered and not exited; fails closed |
| Market hub (`hub.py`) | deque of request stamps, chain and expiration caches, last quotes | `allow`, `poll_quotes`, `chain`, `expirations`, `daily_history` | Tradier client, lab runner, strategies | budget never passed; exits never shed; scans never stale |
| The twenty strategies (`strategies/*.py`) | an optional day stamp in memory | `scan`, `manage` | hub, calendar, week-ahead earnings file | one entry per published cycle, the published exit before the expiry rail |
| Main shadow runner (`run_options_shadow.py`) | positions, day, lanes, bars, IV series, post-exit list | roll, backfill, bar commit, signal, enter, reval, force exit | lanes, selector, exit engine, shadow ledger, feed | as the lab runner, with contained tick errors |
| Lanes and bars (`lanes.py`, `feed.py`) | day latches, cooldowns, opening ranges; bars in progress | `update`, `confirm_entry`, `release`; `on_tick`, `seed_bar` | runner | closed bars only; one entry per side and day; a refused signal does not burn the day |
| Exit engine (`exit_engine.py`) | breach clocks, thesis streak, peak, carried from mark to mark | `decide_exit` (the first rule that applies) | runner, stored marks | patience, no held edge loss, nothing carried without a grant |
| Shadow ledger (`shadow.py`) | four JSONL paths | append, tolerant and strict reads, rebuild | runner, grader | as the lab ledger |
| Graders (`grade_*.py`, `grading.py`, `verdicts.py`) | scorecards, daily returns | row checks, wealth, verdict | ledgers | every trade counted once, bad rows named, a verdict earned |
| Alerter (`alert_watch.py`) | latches in `alert_state.json` | `evaluate` every few seconds | heartbeats, ntfy, e-mail | one page per outage, the owner informed |
| Locks and launchers (`acquire_lock`, `*.ps1`) | pid files, stop flags, respawn count | acquire, release, respawn, stop | every process | one shadow at a time; bounded respawns |
| Halts (`symbol_state.py`, `poll_symbol_state.py`) | a file of halted names, a circuit breaker | poll, publish, read | both runners | a name is refused on fresh word only |
| News tap (`news_tap.py` and its sources) | cursor, ids seen, the stream file | poll, append | news and flag files | the cursor leaves no headline behind |
| Catalyst book and archive (`catalyst_book.py`, `build_catalyst_context.py`, `archive_catalyst_events.py`) | the book of events, the archive, the list of rescued ids | poll, prune, save; rescue | feeds, story store | every rescued event archived, once |
| Story store, overnight lab (`catalyst_memory.py`, `build_catalyst_memory.py`, `run_overnight_lab.py`) | `catalyst_stories.jsonl`, a pid lock, job outputs | build, heal, tag, append | harvests, tags, bar caches | a name-day stored once, complete returns kept |
| Calendar (`session_calendar.py`, `events.py`) | tables | closes, decisions, blackouts | everything | - |
| Selector, option math, indicators, crew, hunter, dashboard, replay, release tools | none that the above depend on | one-shot or pure | - | see section 7 |

What is hard here: a process may die between any two durable writes and come up
again with empty memory; the clock passes a minute or midnight while a tick is
running; reads fail (and must fail closed), appends fail after the row is on
disk, prices are missing, strategies raise; a rolling budget is shared by
callers of different rank; caches serve stale rows; history and live bars land
in any order; several programs replace and append to one file without a lock;
and the only memory across a restart is a file.  `PROJECT.json` lists each hazard
at its line, with the property that covers it or the reason why none does.

## 2. Plan

Most important first; what is done, and what is left.

1. Done.  `LabRunner` over the abstract ledger `PositionBook`; `LabProofs`.
   `MarketHub`; `HubProofs`.
2. Done.  `ShadowRunner` over the same `PositionBook`; `ShadowProofs`.
   `SessionBars`; `BarProofs`.
3. Done.  What the two runners call: the strategies (`StrategyDesk`,
   `PremiumRules`, `TrendRules`, `EventRules`, `StrategyRules`) with `RosterProofs`,
   the lanes (`SignalLanes`, on top of `SessionBars`) with theorems in `BarProofs`,
   the exit engine (`ExitLadder`) with `ExitProofs`.
4. Done.  What stands around them: `OptionsDay` and `AlertWatch` (launcher, lock,
   heartbeat, alerter), `HaltWatch`, `NewsTap`; `DeskProofs`.
5. Done.  What reads the ledgers and runs at night: `Evidence`, `LabGrader`,
   `ShadowGrader`, `CatalystMemory`, `OvernightLab`, `CatalystBook`; `NightProofs`.
6. Left: the replay against `ExitLadder`; liveness of two strategies over two days,
   one of them quarantined; the lab's launcher as an instance of `OptionsDay`.

## 3. Modules

| Module | What it is |
| --- | --- |
| `PositionBook` | Abstract specification of a ledger: ids entered and exited, each at most once, never exited first. |
| `LabRunner`, `LabProperties` | The lab process and its ledger, with the clock, deaths and starts; its properties and the refinement `Book!Spec`. |
| `LabProofs` | Types, memory against ledger, refinement; settlement, backstop, cap, completeness of the books. |
| `MarketHub`, `HubProofs` | The request budget and the caches; types, cap, reserve, freshness, the journal of a degraded stretch. |
| `StrategyDesk`, `PremiumRules`, `TrendRules`, `EventRules`, `StrategyRules` | One of the twenty strategies on one name over a calendar: the desk, the rules by family, the roster with the day around it. |
| `RosterProofs` | Published exits before the rails, one entry per cycle, no filed report held over, for all twenty. |
| `ShadowRunner`, `ShadowProperties` | The main runner, its ledger and its lanes' latches, with deaths, starts and disk faults. |
| `ShadowProofs` | Types and refinement of `PositionBook`; exposure, roll, sweep, cap, latch and merge rules. |
| `SessionBars`, `SignalLanes` | The bars of one symbol on one day, from history and live quotes; the signal lanes fed by them, and the runner's answers. |
| `BarProofs` | Only past minutes come out; what is said is said once, and a refused break is said again. |
| `ExitLadder`, `ExitProofs` | One open position under `decide_exit`, from mark to mark. |
| `OptionsDay`, `AlertWatch` | Launcher, lock, heartbeat and side processes; the alerter beside them. |
| `HaltWatch`, `NewsTap` | The halt poller with its readers; the news tap with its sources. |
| `DeskProofs` | Lock, alerter, halts, the tap with one source, the archive of events. |
| `Evidence`, `LabGrader`, `ShadowGrader` | The betting evidence and the two graders that use it. |
| `CatalystMemory`, `OvernightLab`, `CatalystBook` | The story store with its builder, the overnight lab, the event book with its archive. |
| `NightProofs` | The store against the overnight lab and the builder; the shadow grader's count and unlocks; the lab grader's bets, verdicts and series. |
| `MCLabRunner`, `MCShadowRunner`, `MCSignalLanes`, `MCExitLadder`, `MCNewsTap` | Values for the constants of one specification. |
| `MCLabDesk`, `MCAlertWatch`, `MCAfterClose` | Instances of several specifications that share no state.  The variable `part`, chosen at the start, says which of them a behaviour is about. |

### LabRunner and the code

State.  `entries` and `exits` are the rows of `entries.jsonl` and `exits.jsonl`
of all strategies in file order.  `held`, `errors`, `seq`, `pday`, `armed` are
`self.positions`, `self.quarantined`, `self._seq_today`, `self._day`,
`self.armed`; `quoted` is the set of option symbols in the hub's
`_last_quotes`.  A combo in memory is the index of its entry row, so that two
rows with one id stay two combos.  `tick`, `fresh`, `due`, `turn`, `cur`,
`todo`, `priced`, `batch` are the locals of `tick()` and the methods it calls.

Actions, in the order of `tick()` (`run_strategy_lab.py:484-557`):

* `BeginTick`, then `RollAbort` | `RollLoad`, `Settle`/`SettleDefer` per combo,
  `RollDone` (`:169-313`).  The rebuild is atomic, the settlement loop is a step
  per combo, since each writes a durable row.  The day is latched last.
* `HeartbeatOnly` (the gates at `:489-509`) or `Poll` (`:511-525`).
* per armed strategy `SkipQuarantined` | `BeginManage` | `SkipManage`, then
  `ManageHold`, `Backstop`, `ManageClose`, `ManageRaise` per combo, `ManageDone`
  (`:434-458`), then `ScanNothing` | `ScanRaise` | `ScanProposes`, and per
  proposal `EnterDecline`, `EnterRaise`, `EnterOrphans`, `Enter` (`:354-402`).
* `ClockTicks` at any point, `Start` and `Die`: any ledger write outside
  `_wrap` may raise, `main()` contains nothing, so the process may die between
  any two steps; memory is lost, files stay.

`EnterOrphans` is the append that fails after its row is on disk
(`shadow.py:266-268`): `_wrap` contains the exception and the combo is not
tracked.  The same failure on an exit row is not contained and is a `Die` after
the row.  A torn row is dropped by the reader and equals a row not written.

Abstracted: prices (only whether one is on file or retrievable matters), the
marks and journal files (nothing reads them back), record contents.
Strategies, quotes, history and vetoes are free choices.

### ShadowRunner and the code

State.  `entries`, `merges`, `exits`, `flagged` are the entry, merge, exit and
`expired_unexited_position` rows of the shadow ledger; merge rows share the
entries file.  `held`, `count`, `pday` are `self.positions`,
`self.entries_today`, `self._day`; `tags` is `pos.lanes`; `client` says whether a
Tradier client was built; `latched` and `cooldown` are the day latches and the
`no-fire-before` clocks of the lanes.  A position is the index of its entry row,
as in `LabRunner`.  The row's field `proc` (which process wrote it) is in no
file: it lets `OnceADay` speak of one process.

Actions, in the order of `tick()` (`run_options_shadow.py:1498-1526`):

* `BeginTick`, then `RollAbort` | `RollLoad`, `Track`/`Flag` per open row,
  `RollDone` (`:430-598`, `shadow.py:298-405`).  The day is latched last; an
  aborted roll goes on under the state of the previous day.
* per completed bar and lane `FireDropped`, `FireRaises`, `FireDies`, `Merge`,
  `Enter` (`:705-1019`): the pending guard is taken when the lane emits, `Enter`
  and `Merge` confirm it, a refused entry releases it, a stale or after-hours
  signal does neither.
* `BeginSweep`, then `ForceExit`, `FlattenLate`, `Sell`, `Hold` per position
  (`:1099-1418`), `SweepDone`.
* `TickFails`: `main()` contains what a tick raises (`:1530-1587`), and the next
  tick finds the memory this one left.  `ClockTicks`, `Start`, `Die` as in the
  lab.

Which bar completes, which contract is picked, which marks are due and what the
exit engine decides within the session are free; the clock rules that overrule
it are not.

`Faults` names the disk's ways to fail that the code does not notice: `late` (an
append raises after its row is on disk), `tolerant` (a locked entries file reads
as empty) and `roll` (an append raises while a later roll refills the
positions).  Passing runs have `Faults = {}`: reads either succeed or raise, and
an append that raises wrote nothing.  `shadow_tolerant` shows what the second
breaks.  The theorems assume less, each only what it needs:

| theorem of `ShadowProofs` | faults it excludes |
|---|---|
| `ShadowTypeCorrect`, `SweepLeavesFlat` | none |
| `OvernightSurvives` | `tolerant` |
| `ShadowLedgerImplementsBook`, `LanesJoinOnce` | `late`, `tolerant` |
| `LatchAtEntry` | `late`, `roll` |
| `ExposureIsSingle`, `NothingOpenEscapes`, `CapHolds` | all three |

Nothing in the right column can be dropped: given that fault alone, TLC finds
the property violated on the instance of `MCShadowRunner` or `MCShadowLive`.
With `late` an exit is written twice and an entry of which memory knows nothing
is on file; with `tolerant` the ids start over; with `roll` a position can be
missing from memory until the roll is repeated, and meanwhile its exposure, its
place under the cap and its latch are free.

### SessionBars and the code

`bars` and `forming` are `st.mins` and `st.cur_minute` of `LiveBarBuilder`
(`feed.py:101-193`), with the source of each bar kept beside its minute;
`filled` and `attempts` are `self._backfilled` and `self._backfill_attempts` of
the runner; `seen` is the bars that `_on_completed_bar` handed to the lanes, in
order, and `raises` counts the ticks that an error ended during a backfill.
Both observe; no guard on the code's side reads them.

A tick (`run_options_shadow.py:1498-1520`) is `BeginTick`, the history
(`BackfillSkip` | `BackfillFails` | `BackfillLoads`, `SeedBar` per bar,
`SeedDone`; `:669-692`), then a quote (`PollNothing` | `RollOver` | `FormBar`;
`feed.py:160-193`).  The tick's `now` is read first, the history is asked for
later and a quote is stamped after it came, so `ClockTicks` may fall between any
two of them.  `SeedBar` may end the tick: handling a lane's signal may raise,
and the symbol is then not marked.  The day starts at any minute, before the
open or late in the session.

Assumed of the outside service: it returns minutes that are complete when it is
asked, as the docstring of `HunterFeed.backfill` says ("today's completed 1-min
bars"), any of them.  Prices, volumes and what the session context computes from
them are left out, and so are symbols: nothing in the builder relates two.

### MarketHub and the code

`log` is everything the hub was ever granted and `head` how many of them the
deque has popped; the code keeps only the deque.  Keeping the rest lets the
properties compare what was granted with what the governor remembers.
`ChainCached`/`ChainRefused`/`ChainFails`/`ChainFetched` are the four returns of
`chain()`; `Account` is `allow()`, `Notes` is `_note_degraded`.  `noted` and
`served` observe; no action reads them.

### The strategies and the code

`StrategyDesk` is one strategy on one name.  A day is an integer, a minute one of
the strategy's ticks.  As in `tick()`, each open combo first gets the expiry
backstop or its strategy's manage turn (`run_strategy_lab.py:434-458`) and then
the strategy scans.  `book` is the open combos, `mem` the strategy's day stamp in
memory, which a new process has lost (`NewProcess`), while combos come back from
the ledger.  Each strategy has a record of its numbers (days to expiry, target,
exits, cap), a scan action with its gates, an operator for its choice of expiry,
and a manage action that walks its rules in the code's order.  Premium, delta,
percentile, profit and signals are read anew at every turn and are free over the
values that the rules tell apart.  `closed`, `last` and the field `dark` (a turn
was missed) observe.  `NextSession` is the day roll with its settlement.

### SignalLanes and the code

`SignalLanes` extends `SessionBars`: whatever a step hands over is heard by the
lanes in the runner's order (`_on_completed_bar`), and each signal is answered
(`_on_signal`, `_lane_confirm`, `_lane_release`) until an answer raises.  `latched`
and `rearm` are `_latched` and `_cooldown` of the lanes, `range` the opening range
with the volume that puts a name in play, `macro` what the macro lane measured.
`tape` is the day's true closes and volumes: live bars and history show the same
minute the same way.  `fires` lists what was said.  The lanes are made anew each
day, so a behaviour is one day of one process.

### ExitLadder and the code

`InSession` and `PastTheClose` are `decide_exit`'s two ladders, rule by rule, as a
sequence of conditions of which the first counts.  What the option math finds at a
mark is a record of verdicts, free at each mark.  `carried` is what the engine
keeps from mark to mark, `marks` what `_open_positions` would read back of it
after a death or at a day roll: the breach clocks, the count of theta breaches and
the peak return, the thesis streak starts over.  A sweep is `ForcedFlat`,
`NoQuote`, `NoPrice`, `EngineFails` or `Mark` (`run_options_shadow.py:1099-1418`);
a mark row or an exit row may fail to be written (`unsaved`).  `run`, `first`,
`badBars` and `unsaved` are history.  Rules (c) and (e) are inert in this program:
`stop_frac` is None and no straddle is ever held.

### OptionsDay, AlertWatch, HaltWatch and NewsTap

`OptionsDay` is `launch_options_day.ps1` with what it starts.  `Check` and `Take`
are the two halves of `acquire_lock`, a read with a probe of the pid and a write,
two steps because nothing is held in between; `raced` records that two starts
passed the check together.  `Abort`, `Boot`, `LoopEnds`, `Respawn`, `GiveUp` and
`Teardown` are the launcher's branches, `StopAll` is `stop_all.ps1`, `ByHand` a
shadow that the owner starts as the page asks.  The heartbeat file is its age, the
age of the last quote in it, and whether there is a client.

`AlertWatch` is `alert_watch.py --options-only`: a poll is `BeginPoll` and three
sections.  A section pages, sets its latch and saves, in the order of the code,
which for the end of a data outage is the other way round (`DiesClearing`); the
page may be refused, the file not written, and the process may die at each point.
`told` observes what the owner was last told.

`HaltWatch` is the poller as it is started, halt-only, behind its breaker; an
error of the feed leaves the old stamps, a restart reads them back, and
`state_reasons` refuses a name on a fresh stamp only.  `NewsTap` is `poll_once`:
the answers of the sources, the append, the ids seen and the cursor.

### The graders and the night

`Evidence` has the wealth of a bet on each trade in exact hundredths over small
whole returns.  `LabGrader` reads the ledgers at one point, grades each strategy
(`Gates`, `EvidenceCohort`, `Health`, `Verdict`), appends the day's nets a strategy
at a time and replaces the scorecard; it may die in between, run again, for an
earlier day or for one strategy.  `ShadowGrader` is a function of whatever ledger
the runner can have left: rows that cannot be read, second rows of a position,
stale fills, halted names.  `CatalystMemory` has the builder's read, merge and
rewrite as steps of their own, so that the overnight lab's appends (`OvernightLab`)
fall between them; the lab's lock is read and written in one step.  `CatalystBook`
has the writer's load, poll and save, and the archiver's read, append and save;
`lapses` counts the faults that may cost a second row.

## 4. Runs

| Run | Shows | Bounds |
| --- | --- | --- |
| `lab_runner` | the books and passes of the lab: `HeldRecoverable`, `BooksComplete`, `BookRefined`, `SettlementPass`, `ManageSweeps` | one strategy with a cap of two, two days of two minutes (the second is the backstop window), two entry rows, two starts, quarantine at the second error |
| `lab_live` | `DayLatches`, `BackstopFires` | the same clock, cap one, quarantine at the first error |
| `lab_desk` | the hub: `CapHeld`, `ScanNeverStale`; the strategies: `OwnExitFirst`, `FiledReportsAvoided`, `OncePerCycle` | a cap of five (80% line at four) in a window of one tick, six grants, one key; all twenty strategies over 62 days with holidays and half days, expirations daily or weekly, two starts |
| `shadow_runner` | `CapAcrossRestarts`, `Accounted`, `BookRefined`, `OpenSurvivesRoll`, `SweepFlattens` | an index and an equity, a latching and a once-a-day lane, cap one; a day of four minutes (close at 2, late close at 3) and two minutes of the next; two entry rows, two starts |
| `shadow_live` | `OneExposure`, `ExpiredIsNoted` | one index, cap two, the same clock |
| `shadow_tolerant` | violated: an overnight hold survives the roll, when the entries file is locked | the same as `shadow_live`, `Faults = {"tolerant"}` |
| `lanes` | `ClosedOnly`, `SaidOnce`, `NotBurned`, `BackfillSettles` | a session of four minutes, any minute of start, two attempts at the history, one answer that raises, two tapes |
| `lanes_in_play` | violated: a name is in play by the volume of its opening range | the same |
| `exits` | `Patience`, `EdgeOrSold`, `TwoBadBars`, `CarriesGranted` | two days of eight minutes at which rules differ, contracts of none, one and three days, one respawn |
| `desk_watch` | the desk: `OneShadow`, `OwnerKnows`, `PagedOnce`; halts: `HaltIsFresh`; the tap with Benzinga alone: `NoneBehindCursor` | a day of five minutes, one respawn, two shadows, two alerters, one loss; two names, a breaker of two failures; five headlines, a limit of two |
| `news_tap` | violated: nothing is left behind the cursor, with a wire beside Benzinga | the same headlines |
| `after_close` | `LabBetIsFair`, `SeriesIsTheBook`, `VerdictEarned`; `EveryTradeOnce`, `UnlockedByRealFills`; `StoredOnce`, `FinalStays`; `RescuedOnce` | two strategies, two exit rows, two configurations, two days; two positions and three exit rows; two runs of the overnight lab over two days, two name-days, two builds; two events, three days, two lapses |

Why these are enough to be interesting: two rows open together are what an id
clash, a passed-over settlement or a swept management pass needs; a day end and
a second start are what a resurrected or lost combo needs; leg shapes `{0}` and
`{0, 1}` give a combo that expires whole and one with a living back leg.  The
clock of two minutes has a minute out of the backstop window and one in it.
Six grants on a cap of five reach the 80% line, the cap, and the exit feed past
it; `MaxClock = 2` lets the window slide.  Sixty-two days hold two month starts,
two third Fridays, one of them a holiday, short weeks and half days, and every
strategy's tick table has two ticks in each of its windows.  For the main runner,
contracts of zero and one day give a row that expires unexited and one that may be
held overnight, a granted first night gives the overnight hold, and two lanes on
one exposure give merges.  Four minutes are what a range of two, a break, a
release and a second break after the cooldown need, and any order of live bars and
history.  Eight minutes of a day are one on each side of every clock of the
ladder.  Five minutes of a desk hold the open, an outage, a respawn, the giving up
and the close.  A second grading run, a second night and a second build are what
counts twice or loses a row.

The bounds: `MaxRows`, `LastMinute`, `EndMinute`, `LastDay`, `MaxStarts`, `Quota`,
`MaxClock`, `MaxGrants`, `MaxRaises`, `MaxAttempts`, `MaxDeaths`, `MaxRespawns`,
`MaxAlerters`, `MaxLosses`, `LastTick`, `LastMoment`, `MaxReturns`, `ShadowRows`,
`ShadowEntries`, `LastNight`, `MaxBuilds`, `Lab_Days`, `LastHour`, `MaxLapses`.
`MCExitLadder` has a constraint besides, `Saved`: once a mark row is lost a
behaviour is not followed further, since the properties except what comes of it;
the theorems have no such bound.  The proofs depend on the value of none.

`Die` is not offered when the bounds on starts and on the clock leave no way
back, so that a bound does not end a behaviour where the code would go on.
Deadlock is not checked where a day or a horizon ends the behaviour: `lab_desk`,
`lanes`, `lanes_in_play`, `exits`, `desk_watch`, `news_tap`, `after_close`.
`desk_watch` is reduced by the symmetry of the shadow's pids, which nothing tells
apart; it checks no liveness.

Every property of a passing run comes with a mutant of a mapped definition that
it rejects; the mutants stand beside the definitions they change, marked
`fault`.

### Fairness

For the lab, `FairSpec` assumes that the process keeps running (`WF` on `Step`:
`main()` is a loop with a sleep), that it is started when it is down (`WF` on
`Start`: the launcher's respawn and the daily task), that time passes, that the
ledger is readable again and again (`SF` on `RollLoad`: the docs call the failure a
transient lock), and that a strategy's mark interval elapses again and again
(`SF` on a poll with the strategy due: it is a fixed number of seconds).
Nothing is assumed of strategies, quotes or prices: `BackstopFires` allows for a
process that dies and for a quarantined strategy.

For the main runner `FairSpec` assumes the same of the clock, of starts and of
the steps of the loop, and that a roll tried again and again is once not aborted
(`SF` on `RollLoad`).  Lanes need never fire.  `ExpiredIsNoted` allows for a
process that is stopped.  For the bars and lanes `FairDay` assumes only that the
loop goes on and time passes (`WF` on `Step` and `ClockTicks`); nothing of the
history service.

## 5. What is proved

With TLAPS, for every value of the constants that satisfies the named
assumptions of the modules: `RosterAssumption`, `ClockAssumption`,
`BudgetAssumption`, `MarketAssumption`, `SessionAssumption`, `FaultAssumption`,
`BarsAssumption`, `LadderAssumption`, `DayAssumption`, `AlertAssumption`,
`HaltAssumption`, `TapAssumption`, `LanesAssumption`, `MemoryAssumption`,
`NightAssumption`, `GraderAssumption`, `CalendarAssumption`, `ReportAssumption`,
`TickAssumption`, `EvidenceAssumption`, `LabGraderAssumption`.  Leaves that open a
`CHOOSE` are left to Zenon.

`EvidenceAssumption` says that a bar lies above the wealth a bettor begins with
(`verdicts.py:70-77`).  Three others say more than the shape of a constant, and carry the theorems about
the strategies.  `CalendarAssumption`: the exchange is never closed for more than
four days on end, month firsts are 28 to 31 days apart, and the calendar of
expirations runs a quarter past the last day of a behaviour, as option chains are
listed.  `ReportAssumption`: a report falls on a session, and the calendar holds the three
sessions before it, which the pre-earnings strategy counts back.  `TickAssumption`: the lab ticks all session long
(`run_strategy_lab.py:484-557` is called in a loop with a sleep of seconds), so on
every session a strategy with a dated exit gets a turn in its exit hours before the
backstop's ten minutes, and one after; half days are excepted for the bear call,
whose evaluation begins at 15:45.  That one tick is not given to a turn (a price is
missing, the process is down) is not assumed away: it darkens the combo, and the
theorems speak of combos that are not dark.

* `LabProofs!TypeCorrect`: `Spec => []TypeOK`.
* `LabProofs!MemoryIsRecoverable`: `Spec => []HeldRecoverable`, and
  `LabProofs!LedgerImplementsBook`: `Spec => BookRefined`, both assuming
  `~SameMinuteRespawn`: a respawn in the minute of an entry can reuse its id
  (section 6).
* `LabProofs!SettlementIsComplete`, `!BackstopIsComplete`, `!CapHolds`,
  `!NothingEscapes`: `SettlementPass`, `ManageSweeps`, `CapRespected`,
  `[]BooksComplete`, with no assumption on restarts.
* `HubProofs!HubTypeCorrect`, `!CapIsHeld`, `!ReserveIsHeld`, `!ScansAreFresh`,
  `!DegradedIsNotedOnce`.
* `BarProofs!BarsTypeCorrect`, `!BarsAreClosed`: `[]TypeOK` and `[]ClosedOnly`,
  the latter because the history in hand is of minutes past (`RestPast`);
  `!LanesSpeakOnce`, `!BreaksAreNotBurned`: `SaidOnce`, `NotBurned`, for any tape,
  any times of signal and any answers of the runner.
* `RosterProofs!DatesComeFirst`, `!OneEntryPerCycle`, `!ReportsAreAvoided`:
  `[]OwnExitFirst`, `OncePerCycle`, `[]FiledReportsAvoided`, for each of the twenty
  strategies, any calendar, any reports and decisions, any number of restarts.
* `NightProofs!NamesAreStoredOnce`, `!ReturnsStay`: `NightSpec => []StoredOnce` and
  `FinalStays`, for any number of labs, builds and name-days; `!TradesCountOnce`:
  `SGSpec => []EveryTradeOnce`, for ledgers of any length.
* `NightProofs!MoneyIsUnlockedByWins`: `SGSpec => []UnlockedByRealFills`, and
  `!BetsAreFair`, `!VerdictsAreEarned`, `!SeriesHolds`: `LGSpec` implies
  `LabBetIsFair`, `VerdictEarned` and `SeriesIsTheBook`, for any integer returns,
  histories of any length, any number of strategies and of runs that died.
* `ShadowProofs!ShadowTypeCorrect`: `Spec => []TypeOK`, and
  `ShadowProofs!SweepLeavesFlat`: `Spec => SweepFlattens`, for any `Faults`.
* `ShadowProofs!ShadowLedgerImplementsBook`, `!LanesJoinOnce`: `Spec => BookRefined`
  and `MergedOnce`, with `late` and `tolerant` not in `Faults`;
  `!OvernightSurvives`: `OpenSurvivesRoll`, with `tolerant` not in `Faults`;
  `!LatchAtEntry`: `OnceADay`, with `late` and `roll` not in `Faults`;
  `!ExposureIsSingle`, `!NothingOpenEscapes`, `!CapHolds`: `OneExposure`,
  `Accounted`, `CapAcrossRestarts`, with `Faults = {}`.
* `ExitProofs!ThesisNeedsTwoBars`, `!ExitsArePatient`, `!EdgeIsNotHeld`,
  `!OnlyGrantedIsCarried`: `TwoBadBars`, `Patience`, `EdgeOrSold`,
  `CarriesGranted`, for any number of deaths and days and any lost row.
* `DeskProofs!LockAdmitsOne`, `!OutageIsPagedOnce`, `!OwnerStaysInformed`:
  `[]OneShadow`, `PagedOnce`, `OwnerKnows`, for any number of shadows, alerters
  and losses; `!RefusalIsFresh`: `HWSpec => []HaltIsFresh`;
  `!RescuedAreArchived`: `CBSpec => []RescuedOnce`, for any events and deaths;
  `!BenzingaLeavesNone`: `Wires = {} => (TapSpec => []NoneBehindCursor)`, for any
  headlines, limit and failures.

`CapRespected`, `ReserveHeld`, `NotedOnce`, `OnceADay`, `MergedOnce` and the type
invariants are proved and no longer part of a run.

The argument for the books of the lab.  `HeldRecoverable` is not inductive: a
new entry row must have a fresh id, which needs to know how ids, sequence numbers
and the clock relate.  `BooksInv` adds: no row is stamped later than the clock, nor
later than the tick in progress (`Clocked`); rows of the running process in the
current minute have sequence numbers below the counter (`Numbered`); ids of rows
are distinct (`UniqueIds`); an exit row names the row it exits (`ExitsEntered`);
what a loop still has to visit is held (`TodoHeld`).  A start requires a minute
later than every row, which is where `~SameMinuteRespawn` enters.  The refinement then follows: an entry
step appends a fresh id, an exit step the id of a held row, hence entered and
not exited.

The rules need `RulesInv`: a batch fits in the room left; a row visited by the
settlement loop was settled or lacks a price; a row visited by the management
loop is closed or not due.  `NothingEscapes` needs that a roll reloads exactly
the open rows, and that each row that escapes afterwards was counted.

The argument for the main runner's books.  Here ids stay apart across a restart
within a minute, because `entries_today` is counted from the file.  `BooksInv`
says how: the counter is the number of rows the day has on file (`Counted`), and
every row's sequence number lies below the number of its day's rows
(`SeqBelow`), so the next id is new; what is in memory or waits in a loop is open
(`HeldOpen`, `TodoOpen`).  The refinement follows as above.  `Tracked` adds that
every open row is in memory, still to be rebuilt, or flagged as expired before
the day of the process; `OneExposure` is inductive with it, since an entry finds
no held row of its exposure.  The cap needs `CapInv`, the bound for every day no
earlier than the last row's, because a roll moves the day; and `Clocked`, which
orders the days of rows, process, tick and clock.  `OnceADay` needs that what this
process opened today is latched (`Latched`), and that a roll to a new day finds no
row of its own for it (`Authored`, `Clocked`).  `OpenSurvivesRoll` rests
on none of the books: `Refilled` says that while a roll refills, every unexpired
open row is in memory or still to be visited, which no append can disturb.  `MergedOnce` needs that a position
in memory has every lane its rows name (`Tagged`).

The argument for the hub.  The deque's stamps are ordered and behind `head`
there are only stamps older than the window, so the length of the deque is the
number of grants in the window of the next grant; since a grant below rank 0 is
only given under the cap, the bound on its window follows.  The length is
compared with the set of grants in the window by cardinality, not by induction
over the log.

The argument for the exits.  A ladder's result is the entry of the least index
whose condition holds (`FirstRuleIs`, from the well-foundedness of `<` on `Nat`),
so a decision says what its rule's condition was.  `ThesisInv`: a
streak is backed by as many bad bars of today, with one more where the last bad bar
is still to be judged.  `ClockInv`: while no row is lost,
the clocks in memory and in the stored marks are those of `run`, the first mark
since which every mark saw the breach; that is what a rebuild restores, and
`Patience` and the converse, with `HeldInv`, follow from it.  `FlatInv`: a sweep
at the hard flat that left the position open had a grant or an excuse.

The argument for the desk.  `Sole`: one process at most is between the check and
the write of the lock, none ticks meanwhile, and whoever ticks is named by the
lock; a death leaves the lock to a dead pid, which the next check takes for free.
`OneShadow` follows unless `raced`.  For the alerter the invariant relates three
views of a watch, what the owner was told, the latch in memory and the latch on
disk: they agree unless the owner is `"unsure"` (`Agrees`), and the sections of
the running poll that are done have judged the trouble as it stands (`Judged`).
For the halts, no stamp the poller or the file holds is newer than the name's last
halt (`NoNewer`).  For the archive, every row of an event that is not on the list
the archiver will write was paid for by a lapse (`Paid`).  For the tap, the cursor
is where the process began or the stamp of a published headline (`CursorAt`), no
unpublished one is further behind than the overlap (`Published`), and a poll that
was cut takes nothing newer than what it leaves: the headlines before one are
among those before a later one, so their number is not larger (`CutAtNewest`).

The argument for the lanes (`LaneInv`).  `SaidOnce` is inductive only with what
makes a lane refuse: every signal of a side left it latched or rearmed past the
cooldown (`Held`), no answer is stamped later than the tick in progress (`Heard`),
and a reaction said leaves nothing pending (`Reacted`).  A bar that is heard may
carry signals of several sides, said in any order and cut at the first answer that
raises; `HearSays` reduces that to an injective numbering of the signals that got
out.  `NotBurned` needs the converse, that nothing but an answer holds a side
(`HeldByAnswers`).

The argument for the strategies (`DeskInv`).  The twenty scans are shown to be
entries of one kind (`Entered`, or `Stamped` for a name passed over), the twenty
manages turns of one kind (`Turned`: a blind turn, a hold, or a close by a rule of
the strategy's own), a lemma per family (`PremiumEnters`, `TrendTurns`, ...).
What an entry makes true of its combo for good is `Lasting`; what holds while no turn was
missed is `Railed` (a combo on its last day still has its exit hours ahead),
`Rolled` (the monthly roll is not past) and `Screened` (a report on file at the entry
is still ahead, and the exit lies before it).  The calendar enters where a day passes
(`SessionKeeps`): the next session is near enough that no exit date is jumped over.
`Occupied` says that on the day a cycle was entered its combo is still open or
its stamp still in memory, so a second entry finds it.

The argument for the store (`NightInv`).  A run of the overnight lab past the lock
is the lock's (`LockHeld`), so one at a time asks and appends; what it asked about
is not in the store when it appends (`AskedNew`), which a rewrite in between can
only make truer, since the builder brings back no row of the lab that the store
lost (`NoneBroughtBack`).  `FinalStays` holds because a heal gives up no complete
returns and what is to be written has the returns the store has (`KeepsFinal`); a row
appended meanwhile is not complete yet.  The last row of a name is found by
`LastPlace`, a maximum of a finite set of places, not by recursion over the file.
For the grader, ids are places in the ledger (`LedgerInv`) and the pooled row of a
position is its first readable one, which is unique (`OneFirst`).

The argument for the graders.  What is kept of a file is a set of places in it, and
a wealth is a sum of three products over them.  `Product` and `Total` are recursive
functions; what they compute is proved by induction over a set of places
(`AllPlaces`, from the well-foundedness of `<` on `Nat`), since the library's
induction theorems take an operator.  A next trade multiplies a product by what it
makes of 100, which at a loss of `a` and a gain of `b`, weighted by the other, is at
most `(a + b) * 100` (`StakeIsFair`; the cap only lowers the gain, and no return
within the gates reaches the floor): so no lambda's wealth, nor their sum, rises in
the mean (`GrowsFairly`, `BetIsFair`).
Trades none of which won make of 100 at most 100 each, so their wealth stays below
every bar (`LosersReachNothing`), and an unlock needs a win among the rows that
count.  A verdict is read from the ledger as it stood when the run began, and the
ledgers stand still while it runs (`Grading`); no empty gate means every row is the
first of its combo and fine, so places count combos (`VerdictRests`,
`CombosAtLeast`).  `SeriesIsTheBook` needs that a strategy the run is done with has
its net as the last row of the day (`Appended`, `LastNetAppend`), and that the sum
over the day's rows is the sum over the combos they close (`Regrouped`).

Only model-checked: `DayLatches`, `BackstopFires`, `ExpiredIsNoted` and
`BackfillSettles` (liveness, and the fairness they rest on), and the violated
statements.  Not checked: that every strategy of the roster gets its turn when
another is quarantined; `BackstopFires` with two strategies over two days is beyond
the time of a run, and `ManageSweeps`, proved for every roster, speaks of a pass
that has begun.  TLAPS proves no liveness under fairness and nothing about ENABLED,
its provers cannot instantiate the induction theorems of the library that take an
operator, and RECURSIVE operators shut out its SMT backend; none of the modules
here uses one.

## 6. Disagreements with the documentation

Shown by a run:

1. The rebuild reads the entries file tolerantly (`shadow.py:367`): locked, it
   reads as no open positions and the roll latches its day, against
   `run_options_shadow.py:544-545`.  Run `shadow_tolerant`.
2. A live bucket that history has covered while it formed is committed and handed
   to the lanes all the same (`feed.py:168`), and the opening-range lane adds its
   volume twice, against `lanes.py:397` and OPTIONS_SYSTEM_FLOW.md:243-244; it
   happens at 09:31 in every process that was up before the open.  Run
   `lanes_in_play`.
3. The tap's one cursor is moved by the newest headline of any source
   (`benzinga_news.py:296`), so a wire's headline leaves behind what a failed or
   cut fetch of Benzinga has not delivered, against `benzinga_news.py:256-258`.
   Run `news_tap`; with Benzinga alone the property holds (`desk_watch`).

Met while modelling, the models having the code's behaviour.  The lab:

* Quarantine skips marks and the backstop too (`run_strategy_lab.py:527`), against
  the runner's docstring (`:13-15`) and README.md:159.
* A respawn within a minute of an entry can reuse its id
  (`run_strategy_lab.py:378`), against `model.py:147`; the theorems about the
  books assume it away.
* A degraded stretch that a granted request enters is not journaled (`hub.py:206`
  against `:15-16`), and the runner builds its hub without a journal.
* All strategies' backstop minute is that of the first name of their universe
  (`run_strategy_lab.py:534`), 16:15 for an index ETF, so a combo on a single name
  is due at 16:05 when its options have closed.
* `short_put_45d30d_managed.py:20-24` screens reports up to the 21-day exit, the
  file it reads covers seven days; likewise `rsi2_overbought_bear_call.py:28`.
  `FiledReportsAvoided` says what does hold.
* `gap_fade_bull_put.py:24-25`: one spread per underlying per day; the block reads
  open positions only, and a spread closed the same day does not block.
* Before a Monday expiry that ends at 13:00 the bear call's own last-day exit never
  runs (excepted in `OwnExitFirst`).

The main runner:

* An exit append that raises after its row is out is written again by the next
  sweep (`run_options_shadow.py:1136`), against `grade_options_shadow.py:350`; the
  grader names such pairs.
* Signals of backfilled bars younger than their time to live are entered, against
  README.md:80; the lanes' latches are lost at a restart, against "one signal per
  side per day".
* The opening range is called frozen (`lanes.py:488`); history that lands late
  widens it, and the decision on its volume is not taken again.
* `exit_engine.py:331` keeps breach clocks as minutes of the day; over a day roll
  they are compared with another day's.  `Patience` and `EdgeOrSold` except them.

The desk:

* The page for a silent heartbeat asks for a shadow to be started by hand
  (`alert_watch.py:691-693`).  While one runs the launcher's respawns are refused
  by the lock and end in "DOWN for the day ... The shadow crashed 4x"
  (`launch_options_day.ps1:222-223`).
* `stop_all.ps1` kills the launcher, whose `finally` block then does not run:
  `news_flag_tap`, the mention tap and the symbol-state poller, which no match of
  the script names, go on.  Where it is denied the launcher, the flag it wrote is
  the only stop, and one written while the launcher still boots is deleted by it
  (`launch_options_day.ps1:204`), against OPTIONS_SYSTEM_FLOW.md:107-112.
* A death between the page of a recovery and the save of its latch swallows the
  page of the next outage (`told` is then `"unsure"`).
* A stream row flushed without its newline parses, is returned, and is read again
  with the next chunk, against `news_flag_tap.py:182-187`.
* GDELT and Finnhub move their own cursor on a fetch
  (`multi_news_source.py:332-333`); if the append then fails, a new fetch does not
  bring the headlines back.

The night:

* Without evidence of the live configuration a verdict rests on that of the last
  one (`grade_strategy_lab.py:201`), and nets are of all configurations, against
  the verdicts' "per cohort" (`verdicts.py:6`).
* `pid_collisions` joins the gates after the verdict is made
  (`grade_strategy_lab.py:341-342`), against the docstring, which lists it as one.
* `archive_catalyst_events.py:11` calls the archiver idempotent; a death between
  append and list, or an unreadable list, costs second rows (`lapses`).  Events
  shorter than the pause between two of its runs can vanish, against `:6`.
* `merge_heal` rebuilds a row that gains its returns from the backfill, and loses
  the tag the overnight lab gave it, against "Converge the store toward
  best-known"; the rewrite is in place, and what is appended between read and write
  is lost.

## 7. Not modelled

`PROJECT.json` gives a reason per component.  In short:

* Arithmetic without state: pricing, greeks, the selector's ranking, indicators,
  the noise-width and percentile code, Monte Carlo and exposure reports
  (`carisk.py`, `exposure.py`).  Where a decision hangs on it, its outcome is a
  free input.
* Input and output without a state a property could be about: parsers of the feeds,
  the classifier and mention taps, the transports of a page, rendering, the
  dashboard, release tooling, language-model calls.
* Rows no decision reads: quote rows and the post-exit capture of the main runner,
  marks and journal of the lab.  The IV archive is an appended file read as
  nullable context.
* Code no program runs or that is switched off: `RateGate` is constructed by none,
  the stalker driven by none; the lanes parked in the runner, SEC suspensions and
  the short-sale rule; the live session's sections of the alerter and
  `launch_live_day.ps1`.
* The replay reruns the exit engine over stored marks for a report, and is next in
  the plan.
