------------------------------ MODULE HaltWatch ------------------------------
(***************************************************************************)
(* The trading-halt poller, scripts/poll_symbol_state.py, and the readers  *)
(* of its file.  A poll fetches the halt feed behind a circuit breaker and *)
(* replaces the file; both runners refuse a name the file calls halted, as *)
(* long as that word is fresh.  The poller can die and be started again,   *)
(* the feed can fail, the write can be lost: a name must never stay        *)
(* refused on old data.                                                    *)
(*                                                                         *)
(* Abstractions.  The feed lists a name while the latest of its rows has   *)
(* no resumption; rows are not told apart.  A tick is the poll's period.   *)
(* The clock does not go back.  The poller is started halt-only: SEC       *)
(* suspensions and the short-sale rule are off.                            *)
(***************************************************************************)
EXTENDS Naturals

CONSTANTS
  Name,       \* tickers
  MaxAge,     \* max_age_s of state_reasons, in ticks
  Failures,   \* failures that open the breaker
  Cooldown,   \* how long it stays open
  LastTick    \* bound on the clock

ASSUME HaltAssumption ==
  /\ {MaxAge, Cooldown, LastTick} \subseteq Nat /\ Failures \in Nat \ {0}

VARIABLES
  tick,
  halted,     \* names halted on the exchange
  since,      \* name -> tick it was last halted at, or Never
  poller,     \* [pc, halts, fails, until]
  state       \* symbol_state.json: name -> ts_epoch of its halt, or Never

hwVars == <<tick, halted, since, poller, state>>

Never == LastTick + 1

NoHalts == [n \in Name |-> Never]

Stopped == [pc |-> "down", halts |-> NoHalts, fails |-> 0, until |-> 0]

HWInit ==
  /\ tick = 0 /\ halted = {} /\ since = NoHalts /\ poller = Stopped /\ state = NoHalts

\* the exchange halts and resumes as it likes; an up poller has polled
TickPasses ==
  /\ tick < LastTick /\ poller.pc # "poll"
  /\ tick' = tick + 1
  /\ \E names \in SUBSET Name :
       /\ halted' = names
       /\ since' = [n \in Name |-> IF n \in names THEN tick' ELSE since[n]]
  /\ poller' = [poller EXCEPT !.pc = IF @ = "down" THEN @ ELSE "poll"]
  /\ UNCHANGED state

\* load: what the file has, with its old stamps; an unreadable file is none
PollerUp ==
  /\ poller.pc = "down"
  /\ \E read \in {state, NoHalts} :
       poller' = [Stopped EXCEPT !.pc = "poll", !.halts = read]
  /\ UNCHANGED <<tick, halted, since, state>>

PollerDies ==
  /\ poller.pc # "down" /\ poller' = Stopped
  /\ UNCHANGED <<tick, halted, since, state>>

\* parse_halt_rss: the active halts, stamped with the time of the fetch
Fetched == [n \in Name |-> IF n \in halted THEN tick ELSE Never]

\* fault: what a failed fetch leaves is stamped as current
FailedRestamps(p) ==
  [p EXCEPT !.halts = [n \in Name |-> IF @[n] = Never THEN Never ELSE tick]]

\* _Breaker.failure: opens at the limit and counts afresh
Failed(p) ==
  IF p.fails + 1 >= Failures
  THEN [p EXCEPT !.fails = 0, !.until = tick + Cooldown]
  ELSE [p EXCEPT !.fails = @ + 1]

Attempted ==
  IF tick < poller.until THEN {poller}
  ELSE {[poller EXCEPT !.halts = Fetched, !.fails = 0], Failed(poller)}

\* poll: fetched, failed or held by the breaker, the snapshot is published; an
\* error of the write is shrugged off
Poll ==
  /\ poller.pc = "poll"
  /\ \E next \in Attempted :
       /\ poller' = [next EXCEPT !.pc = "wait"]
       /\ state' \in {state, next.halts}
  /\ UNCHANGED <<tick, halted, since>>

\* state_reasons: affirmatively fresh, or nothing
Refused(n) == state[n] # Never /\ tick - state[n] <= MaxAge

HWNext == TickPasses \/ PollerUp \/ PollerDies \/ Poll

HWSpec == HWInit /\ [][HWNext]_hwVars

-----------------------------------------------------------------------------
(* A name is refused as halted only if the exchange had it halted within   *)
(* the last max_age_s, whatever the feed, the breaker, the restarts and    *)
(* the lost writes did meanwhile: no name is blocked for good by a poller  *)
(* that stopped learning.                                                  *)
HaltIsFresh == \A n \in Name : Refused(n) => since[n] # Never /\ tick - since[n] <= MaxAge
=============================================================================
