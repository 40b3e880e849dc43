------------------------------ MODULE MarketHub ------------------------------
(***************************************************************************)
(* atlas/strategy_lab/hub.py: the rolling-minute request budget            *)
(* (BudgetGovernor) and the cached chain and expiration reads made through *)
(* it.  Callers are sequential, so each call is one step; the clock moves  *)
(* between calls.  The deque of request stamps is kept as the part of      *)
(* `log`, the grants made in the life of the hub, that lies behind `head`, *)
(* so that what the governor forgets can be compared with what it granted. *)
(* The book of last quotes is the lab runner's (LabRunner, `quoted`).      *)
(***************************************************************************)
EXTENDS Integers, Sequences, FiniteSets

CONSTANTS
  Cap,           \* cap_per_min
  Window,        \* 60 s
  ChainTTL,      \* CHAIN_TTL_S
  ExpirationTTL, \* EXPIRATIONS_TTL_S
  Key,           \* (underlying, expiration) keys of the chain cache
  Underlying,    \* keys of the expirations cache
  Never,         \* a key that was never fetched
  MaxClock,      \* bound on the clock
  MaxGrants      \* bound on requests granted

ASSUME BudgetAssumption ==
  /\ Cap \in Nat \ {0} /\ Window \in Nat
  /\ ChainTTL \in Nat \ {0} /\ ExpirationTTL \in Nat
  /\ MaxClock \in Nat /\ MaxGrants \in Nat
  /\ Never \notin Nat

ExitQuotes  == 0   \* P0, never shed
ManageChain == 2   \* P2
ScanChain   == 3   \* P3, shed first
Priority == 0 .. 3

VARIABLES
  clock,
  log,       \* requests this hub was granted, oldest first: [at, pri]
  head,      \* how many of them the governor has popped from its deque
  degraded,  \* governor.degraded, as of the last allow()
  chains,    \* chain cache: when each key was fetched
  expirations, \* expirations cache: when each underlying was fetched
  \* observations
  noted,     \* lab_data_degraded records in the current degraded stretch
  served     \* the last non-empty chain answer: [pri, age]

hubVars == <<clock, log, head, degraded, chains, expirations, noted, served>>

Grant == [at : Nat, pri : Priority]
Served == [pri : Priority, age : Nat]

Init ==
  /\ clock = 0 /\ log = <<>> /\ head = 0 /\ degraded = FALSE
  /\ chains = [k \in Key |-> Never]
  /\ expirations = [u \in Underlying |-> Never]
  /\ noted = 0
  /\ served = [pri |-> ExitQuotes, age |-> 0]

-----------------------------------------------------------------------------
(* The governor.                                                           *)

\* fault: stamps as old as the window are popped too
PrunedEager ==
  CHOOSE n \in head .. Len(log) :
    /\ \A i \in head + 1 .. n : log[i].at <= clock - Window
    /\ n < Len(log) => log[n + 1].at > clock - Window

\* _prune: pop the front while it is older than the window
Pruned ==
  CHOOSE n \in head .. Len(log) :
    /\ \A i \in head + 1 .. n : log[i].at < clock - Window
    /\ n < Len(log) => log[n + 1].at >= clock - Window

Used == Len(log) - Pruned

\* used >= DEGRADE_FRAC * cap
Degrades == 10 * Used >= 8 * Cap

\* the verdict of allow(priority)
Allows(p) ==
  \/ p = ExitQuotes
  \/ Used < Cap /\ ~(Degrades /\ p >= ScanChain)

\* what allow(priority) does to the governor
Account(p) ==
  /\ head' = Pruned
  /\ degraded' = Degrades
  /\ log' = IF Allows(p) THEN Append(log, [at |-> clock, pri |-> p]) ELSE log

\* _note_degraded, called when allow(p) refuses: journals only if that very
\* call found the budget newly degraded
Notes(p) ==
  noted' = IF ~Degrades THEN 0
           ELSE IF degraded THEN noted
           ELSE IF Allows(p) THEN 0 ELSE 1

\* a caller that journals nothing on refusal
NotesNothing == noted' = IF Degrades /\ degraded THEN noted ELSE 0

TTL == ChainTTL * (IF degraded THEN 2 ELSE 1)

Younger(at, ttl) == at # Never /\ clock - at < ttl

-----------------------------------------------------------------------------
(* The calls.                                                              *)

Roomy == Len(log) < MaxGrants

ClockTicks ==
  /\ clock < MaxClock
  /\ clock' = clock + 1
  /\ UNCHANGED <<log, head, degraded, chains, expirations, noted, served>>

\* poll_quotes: granted whatever the budget says
PollQuotes ==
  /\ Roomy
  /\ Account(ExitQuotes) /\ NotesNothing
  /\ UNCHANGED <<clock, chains, expirations, served>>

\* daily_history: no cache; refused or failed reads return no bars
DailyHistory ==
  /\ Roomy
  /\ Account(ManageChain) /\ NotesNothing
  /\ UNCHANGED <<clock, chains, expirations, served>>

\* expirations(): fresh enough, or refused, or fetched, or failed; a refused
\* or failed read falls back on the old list whatever the priority
Expirations(u, p) ==
  /\ Roomy
  /\ ~Younger(expirations[u], ExpirationTTL)
  /\ Account(p) /\ Notes(p)
  /\ IF Allows(p)
       THEN expirations' \in {expirations, [expirations EXCEPT ![u] = clock]}
       ELSE UNCHANGED expirations
  /\ UNCHANGED <<clock, chains, served>>

Answer(k, p) == served' = [pri |-> p, age |-> clock - chains[k]]

\* chain(): a copy younger than the TTL is served without asking the governor
ChainCached(k, p) ==
  /\ Younger(chains[k], TTL)
  /\ Answer(k, p)
  /\ UNCHANGED <<clock, log, head, degraded, chains, expirations, noted>>

\* fault: a scan falls back on the stale copy like the manage path
FallbackAnyone(k, p) ==
  IF chains[k] # Never THEN Answer(k, p) ELSE UNCHANGED served

\* refused or failed: the manage path may use the stale copy, a scan gets []
Fallback(k, p) ==
  IF p < ScanChain /\ chains[k] # Never THEN Answer(k, p) ELSE UNCHANGED served

ChainRefused(k, p) ==
  /\ ~Younger(chains[k], TTL) /\ ~Allows(p)
  /\ Account(p) /\ Notes(p)
  /\ Fallback(k, p)
  /\ UNCHANGED <<clock, chains, expirations>>

ChainFails(k, p) ==
  /\ Roomy
  /\ ~Younger(chains[k], TTL) /\ Allows(p)
  /\ Account(p) /\ Notes(p)
  /\ Fallback(k, p)
  /\ UNCHANGED <<clock, chains, expirations>>

ChainFetched(k, p) ==
  /\ Roomy
  /\ ~Younger(chains[k], TTL) /\ Allows(p)
  /\ Account(p) /\ Notes(p)
  /\ chains' = [chains EXCEPT ![k] = clock]
  /\ served' = [pri |-> p, age |-> 0]
  /\ UNCHANGED <<clock, expirations>>

\* The hub lives and dies with the lab process: a new one starts with an
\* empty deque and empty caches, whatever its predecessor was granted.
Restart ==
  /\ log' = <<>> /\ head' = 0 /\ degraded' = FALSE
  /\ chains' = [k \in Key |-> Never]
  /\ expirations' = [u \in Underlying |-> Never]
  /\ noted' = 0
  /\ served' = [pri |-> ExitQuotes, age |-> 0]
  /\ UNCHANGED clock

Caller == {ManageChain, ScanChain}

Next ==
  \/ ClockTicks
  \/ Restart
  \/ PollQuotes
  \/ DailyHistory
  \/ \E u \in Underlying, p \in Caller : Expirations(u, p)
  \/ \E k \in Key, p \in Caller :
       \/ ChainCached(k, p) \/ ChainRefused(k, p)
       \/ ChainFails(k, p) \/ ChainFetched(k, p)

Spec == Init /\ [][Next]_hubVars

-----------------------------------------------------------------------------

(* Every variable keeps its shape. *)
TypeOK ==
  /\ clock \in Nat
  /\ log \in Seq(Grant)
  /\ head \in 0 .. Len(log)
  /\ degraded \in BOOLEAN
  /\ chains \in [Key -> Nat \cup {Never}]
  /\ expirations \in [Underlying -> Nat \cup {Never}]
  /\ noted \in Nat
  /\ served \in Served

\* the grants of the minute that ends with grant i, itself included
MinuteOf(i) == {j \in 1 .. i : log[j].at >= log[i].at - Window}

(* The slice of the shared token: no grant other than the exit feed's is   *)
(* made when its minute, counted over everything ever granted and not over *)
(* what the deque still holds, would come to more than the cap.            *)
CapHeld ==
  \A i \in 1 .. Len(log) :
    log[i].pri # ExitQuotes => Cardinality(MinuteOf(i)) <= Cap

(* The last fifth of the slice is kept from entry scans, for the exits and *)
(* the manage path.                                                        *)
ReserveHeld ==
  \A i \in 1 .. Len(log) :
    log[i].pri = ScanChain => 10 * (Cardinality(MinuteOf(i)) - 1) < 8 * Cap

(* A scan never gets a chain older than the longest life the cache grants, *)
(* whatever was refused or failed.                                         *)
ScanNeverStale == served.pri = ScanChain => served.age < 2 * ChainTTL

(* A degraded stretch is journaled at most once.                           *)
NotedOnce == noted <= 1
=============================================================================
