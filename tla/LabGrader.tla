----------------------------- MODULE LabGrader -----------------------------
(***************************************************************************)
(* The strategy lab's nightly grader: scripts/grade_strategy_lab.py with   *)
(* grading.py and verdicts.py of atlas/strategy_lab.  It reads the ledgers *)
(* of all strategies, grades each, appends the day's nets to               *)
(* daily_returns.jsonl, reads that file back for the correlation block and *)
(* replaces the scorecard.  It can be run at any time and as often as one  *)
(* likes, and it can die on the way.                                       *)
(*                                                                         *)
(* Abstractions.  A strategy's rows stand in its files in the order of     *)
(* their time stamps.  What makes an exit row good or bad is its form; its *)
(* net is its return, as if every combo put up one denominator.  A row's   *)
(* attribution is one component and whether its coverage is sufficient.    *)
(* Exposure and correlation are outside; the series they read is here.  A  *)
(* run reads the ledgers once, at its start: what the lab writes while it  *)
(* runs is as if it wrote it after.                                        *)
(***************************************************************************)
EXTENDS Evidence, SequencesExt

CONSTANTS
  Sid,          \* the strategies, numbers in the order of their names
  Basis,        \* strategy -> "car" or "debit"
  Kind,         \* bound: the exit rows [form, r, comp, sure] the lab writes
  Hashes,       \* strategy -> its config hashes, numbers in sorted order
  Expected,     \* strategy -> META.expected_fires_per_20_sessions
  Sessions,     \* the 20 sessions of the funnel
  VerdictMin,   \* N_VERDICT_MIN
  Flag,         \* AGAINST_FLAG, in tenths
  LastDay,      \* bound on the days
  MaxRows,      \* bound on the entry and on the exit rows of all strategies
  MaxReturns    \* bound on daily_returns: no run starts once it has that many

Forms == {"fine", "malformed", "identity", "denominator", "foreign", "unusable"}

ASSUME LabGraderAssumption ==
  /\ Sid \subseteq Nat /\ Hashes \in [Sid -> (SUBSET (Nat \ {0})) \ {{}}]
  /\ Basis \in [Sid -> {"car", "debit"}] /\ Expected \in [Sid -> Nat]
  /\ \A k \in Kind : k.form \in Forms /\ k.r \in Int
  /\ VerdictMin \in Nat \ {0} /\ Sessions \in Nat \ {0}

VARIABLES
  entries,    \* strategy -> its entry rows [pid, day]
  exits,      \* strategy -> its exit rows
  cohort,     \* strategy -> the hash it is registered under
  day,        \* today
  returns,    \* daily_returns.jsonl: rows [day, sid, net]
  card,       \* scorecard.json: the strategies graded -> verdict
  job         \* the grader's run, or None

lgVars == <<entries, exits, cohort, day, returns, card, job>>

NoJob == [pc |-> "none"]

LGInit ==
  /\ entries = [s \in Sid |-> <<>>] /\ exits = [s \in Sid |-> <<>>]
  /\ cohort = [s \in Sid |-> Min(Hashes[s])]
  /\ day = 1 /\ returns = <<>>
  /\ card = [s \in {} |-> 0] /\ job = NoJob

Rows(files) == FoldFunction(LAMBDA rows, n : n + Len(rows), 0, files)

-----------------------------------------------------------------------------
(* The lab, as the grader sees it.                                         *)

Enter(s) ==
  /\ job = NoJob
  /\ Rows(entries) < MaxRows
  /\ entries' = [entries EXCEPT ![s] = Append(@, [pid |-> Len(@) + 1, day |-> day])]
  /\ UNCHANGED <<exits, cohort, day, returns, card, job>>

\* an exit row of a combo: its first, or the row of one that was closed again
Close(s) ==
  /\ job = NoJob
  /\ Rows(exits) < MaxRows
  /\ \E e \in ToSet(entries[s]), k \in Kind :
       exits' = [exits EXCEPT ![s] = Append(@,
                   [pid |-> e.pid, day |-> day, cohort |-> cohort[s], form |-> k.form,
                    r |-> k.r, comp |-> k.comp, sure |-> k.sure])]
  /\ UNCHANGED <<entries, cohort, day, returns, card, job>>

Fork(s) ==
  /\ job = NoJob
  /\ \E c \in Hashes[s] : c > cohort[s] /\ cohort' = [cohort EXCEPT ![s] = c]
  /\ UNCHANGED <<entries, exits, day, returns, card, job>>

NextDay ==
  /\ job = NoJob
  /\ day < LastDay /\ day' = day + 1
  /\ UNCHANGED <<entries, exits, cohort, returns, card, job>>

-----------------------------------------------------------------------------
(* Grading one strategy from its rows.                                     *)

FirstOf(rows, i) == \A j \in 1 .. i - 1 : rows[j].pid # rows[i].pid

\* _dedupe_exits: the first row of a combo.  What is kept of a file, and what
\* is graded of it, is a set of places in it.
Kept(rows) == {i \in 1 .. Len(rows) : FirstOf(rows, i)}

Repeated(rows) == Kept(rows) # 1 .. Len(rows)

Readable(row) == row.form \notin {"foreign", "malformed"}
Graded(rows)  == {i \in Kept(rows) : Readable(rows[i])}

\* fault: evidence runs on through a change of the configuration
CohortRowsPooled(rows, c) == {i \in Graded(rows) : rows[i].cohort <= c}

CohortRows(rows, c) == {i \in Graded(rows) : rows[i].cohort = c}

\* r_return of each row; a row without a denominator has none
Returns(rows)        == [i \in 1 .. Len(rows) |-> rows[i].r]
Usable(rows, places) == {i \in places : rows[i].form # "unusable"}

CohortsOf(rows) == {rows[i].cohort : i \in Graded(rows)}

Net(rows, places) == Total([i \in 1 .. Len(rows) |-> IF i \in places THEN rows[i].r ELSE 0])

\* the falsification gates that are not empty, over the whole history
Gates(s, rows) ==
  ({rows[i].form : i \in Kept(rows)} \ {"fine"})
    \cup (IF Repeated(rows) THEN {"duplicate"} ELSE {})
    \cup {"floor" : i \in {j \in Usable(rows, Graded(rows)) : Breach(Basis[s], rows[j].r)}}

\* the live cohort's evidence, or else that of the last cohort
EvidenceCohort(rows, live) ==
  IF live \in CohortsOf(rows) THEN live
  ELSE IF CohortsOf(rows) = {} THEN 0 ELSE Max(CohortsOf(rows))

\* entries over the trailing sessions that have any, against the share of the
\* expectation that the lab's sessions so far allow
Health(s, entered, elapsed, registered) ==
  LET days     == {e.day : e \in ToSet(entered)}
      recent   == {d \in days : Cardinality({x \in days : x > d}) < Sessions}
      fires    == Cardinality({i \in 1 .. Len(entered) : entered[i].day \in recent})
      expected == (IF registered THEN Expected[s] ELSE 4) * Lower(elapsed, Sessions)
      warming  == elapsed < Sessions /\ expected < Sessions
      starved  == 10 * fires * Sessions < 3 * expected
  IN  CASE entered = <<>> /\ ~registered -> "NO-DATA"
        [] (entered = <<>> \/ starved) /\ warming -> "WARMUP"
        [] entered = <<>> /\ ~warming /\ registered -> "DEAD"
        [] entered # <<>> /\ starved /\ ~warming -> "STARVED"
        [] OTHER -> "OK"

\* loss_shares: the losing rows' components, with the spread tax of every row
Shares == <<"direction", "vol", "theta", "spread_tax", "residual">>
ShareOf(rows, c) ==
  Cardinality({i \in Graded(rows) :
                 rows[i].comp = c /\ (rows[i].r < 0 \/ c = "spread_tax")})
Driver(rows) ==
  CHOOSE c \in ToSet(Shares) : \A d \in ToSet(Shares) :
    \/ ShareOf(rows, d) < ShareOf(rows, c)
    \/ ShareOf(rows, d) = ShareOf(rows, c)
         /\ \E i, j \in 1 .. 5 : i <= j /\ Shares[i] = c /\ Shares[j] = d

\* attribution coverage of at least 0.6
Sure(rows) ==
  /\ Graded(rows) # {}
  /\ 10 * Cardinality({i \in Graded(rows) : rows[i].sure}) >= 6 * Cardinality(Graded(rows))

\* verdict_for: the first that matches
Verdict(s, rows, live, health) ==
  LET r       == Returns(rows)
      trades  == Usable(rows, CohortRows(rows, EvidenceCohort(rows, live)))
      Won(bar) == Reaches(WealthFor(Basis[s], r, trades), bar, Basis[s], r, trades)
      against == Reaches(WealthAgainst(Basis[s], r, trades), Flag, Basis[s], r, trades)
      enough  == Cardinality(trades) >= VerdictMin
      winning == enough /\ Won(Pilot)
      losing  == enough /\ (against \/ Net(rows, Graded(rows)) < 0)
  IN  CASE Gates(s, rows) # {}   -> <<"BROKEN", "FIX-GATES">>
        [] Gates(s, rows) = {} /\ winning ->
             <<"WINNING", IF Won(SizedLive)
                          THEN "SIZED-LIVE-DISCUSSION" ELSE "PILOT-ELIGIBLE">>
        [] Gates(s, rows) = {} /\ ~winning /\ losing ->
             <<"LOSING", IF ~Sure(rows) THEN "INVESTIGATE"
                         ELSE IF Driver(rows) \in {"spread_tax", "residual"}
                         THEN "TWEAK-QUEUE" ELSE "PRUNE-TRACK">>
        [] OTHER ->
             <<"UNPROVEN", IF health \in {"STARVED", "DEAD"} THEN "INVESTIGATE-FUNNEL"
                           ELSE "NONE">>

DayRows(rows, d) == {i \in Graded(rows) : rows[i].day = d}

\* grade_strategy
Block(s, entered, rows, live, elapsed, d) ==
  [verdict |-> Verdict(s, rows, live, Health(s, entered, elapsed, live # 0)),
   today   |-> Cardinality(DayRows(rows, d)),
   net     |-> Net(rows, DayRows(rows, d))]

-----------------------------------------------------------------------------
(* A run of the grader.                                                    *)

\* reads the ledgers; the registry may fail to load, and one strategy may be
\* asked for
BeginGrading ==
  /\ job = NoJob /\ Len(returns) < MaxReturns
  /\ \E sids \in {Sid} \cup {{s} : s \in Sid}, d \in 1 .. day, registry \in BOOLEAN :
       LET elapsed == Cardinality(UNION {{e.day : e \in ToSet(entries[s])} : s \in sids})
           Live(s) == IF registry THEN cohort[s] ELSE 0
       IN  job' = [pc |-> "append", day |-> d, todo |-> sids,
                   blocks |-> [s \in sids |->
                                 Block(s, entries[s], exits[s], Live(s), elapsed, d)]]
  /\ UNCHANGED <<entries, exits, cohort, day, returns, card>>

\* the day's net of the next strategy that closed anything on it
AppendReturn ==
  /\ job.pc = "append" /\ job.todo # {}
  /\ LET s == Min(job.todo)
         b == job.blocks[s]
     IN  /\ job' = [job EXCEPT !.todo = @ \ {s}]
         /\ returns' = IF b.today = 0 THEN returns
                       ELSE Append(returns, [day |-> job.day, sid |-> s, net |-> b.net])
  /\ UNCHANGED <<entries, exits, cohort, day, card>>

\* the scorecard is replaced whole
WriteCard ==
  /\ job.pc = "append" /\ job.todo = {}
  /\ card' = [s \in DOMAIN job.blocks |-> job.blocks[s].verdict[1]] /\ job' = NoJob
  /\ UNCHANGED <<entries, exits, cohort, day, returns>>

GraderDies ==
  /\ job # NoJob /\ job' = NoJob
  /\ UNCHANGED <<entries, exits, cohort, day, returns, card>>

\* fault: the rows of one day add up
SeriesSummed(s, d) ==
  Total([i \in 1 .. Len(returns) |->
           IF returns[i].sid = s /\ returns[i].day = d THEN returns[i].net ELSE 0])

\* the correlation's daily series: the last row of a day counts
Series(s, d) ==
  LET places == {i \in 1 .. Len(returns) : returns[i].sid = s /\ returns[i].day = d}
  IN  IF places = {} THEN 0 ELSE returns[Max(places)].net

LGNext ==
  \/ \E s \in Sid : Enter(s) \/ Close(s) \/ Fork(s)
  \/ NextDay \/ BeginGrading \/ AppendReturn \/ WriteCard \/ GraderDies

LGSpec == LGInit /\ [][LGNext]_lgVars

-----------------------------------------------------------------------------
(* Properties.                                                             *)

\* the combos closed in rows that the first row of each can be read of
Closed(rows) == {rows[i].pid : i \in {j \in 1 .. Len(rows) : FirstOf(rows, j) /\ Readable(rows[j])}}
FirstRow(rows, p) == rows[CHOOSE i \in 1 .. Len(rows) : rows[i].pid = p /\ FirstOf(rows, i)]

(* However often a day is graded, whatever was added to it in between and  *)
(* wherever an earlier run died: when a run writes its scorecard, the      *)
(* series the correlation reads holds, for every strategy that closed a    *)
(* combo that day, the net of each such combo exactly once.                *)
SeriesIsTheBook ==
  [][job.pc = "append" /\ job.todo = {} /\ card' # card =>
       \A s \in DOMAIN job.blocks :
         LET P == {p \in Closed(exits[s]) : FirstRow(exits[s], p).day = job.day}
         IN  P # {} => Series(s, job.day) =
               Total([p \in 1 .. Len(entries[s]) |->
                        IF p \in P THEN FirstRow(exits[s], p).r ELSE 0])]_lgVars

\* the combos of a configuration that no gate would refuse
Sound(rows, c) ==
  {p \in Closed(rows) : FirstRow(rows, p).cohort = c /\ FirstRow(rows, p).form = "fine"}

(* A verdict is earned: it rests on the returns of enough different combos *)
(* of one configuration, in a ledger that closed none of them twice.       *)
VerdictEarned ==
  [][job.pc = "append" /\ job.todo = {} /\ card' # card =>
       \A s \in DOMAIN job.blocks :
         card'[s] \in {"WINNING", "LOSING"} =>
           /\ Cardinality({row.pid : row \in ToSet(exits[s])}) = Len(exits[s])
           /\ \E c \in Hashes[s] : Cardinality(Sound(exits[s], c)) >= VerdictMin]_lgVars

(* The wealth a strategy is judged by is a fair bet against it having no   *)
(* edge, at every point of its history: whatever exit row comes, the next  *)
(* trade does not raise it in the mean.                                    *)
LabBetIsFair ==
  [][\A s \in Sid : \A c \in Hashes[s] :
       exits'[s] # exits[s] =>
         NoEdgeNoRise(Basis[s], Returns(exits'[s]), Usable(exits'[s], CohortRows(exits'[s], c)),
                      {1, 5, 10}, {1, 2, 5})]_lgVars
=============================================================================
