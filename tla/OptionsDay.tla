----------------------------- MODULE OptionsDay -----------------------------
(***************************************************************************)
(* The options day: scripts/launch_options_day.ps1 starts the shadow       *)
(* process, the taps and the alerter, respawns a shadow that exited and    *)
(* tears the day down; the shadow takes a pid lock and beats a heartbeat   *)
(* file; scripts/stop_all.ps1 ends everything; the owner may start a       *)
(* shadow by hand, as the alerter's page asks.                             *)
(*                                                                         *)
(* Time is a minute of the day.  An age past its threshold is not told     *)
(* from a missing file.                                                    *)
(***************************************************************************)
EXTENDS Integers, FiniteSets

CONSTANTS
  None,
  Pids,         \* processes that can be started as a shadow in one day
  Taps,         \* side processes started with the day
  MaxRespawns,  \* 3
  Open, Close,  \* the session
  Until,        \* UntilTime of the launcher
  LastMinute,   \* horizon
  Stale,        \* stale_threshold_sec, in minutes
  TickStale     \* tick_stale_threshold_sec, in minutes

Pages == [of : {"day", "shadow", "data", "flags"},
          news : {"aborted", "down for the day", "down", "up"}]

ASSUME DayAssumption ==
  /\ {MaxRespawns, Open, Close, Until, LastMinute, Stale, TickStale} \subseteq Nat
  /\ Open <= Close /\ Close <= Until /\ Until <= LastMinute
  /\ None \notin Pids \cup Pages

VARIABLES
  minute,
  launcher,  \* [pc, child, respawns]
  proc,      \* state of each shadow process
  lock,      \* pid in options_shadow.lock, or None
  flag,      \* runtime/STOP_DAY.flag exists
  taps,      \* taps that run
  fed,       \* age of each process's last quote
  beat,      \* the heartbeat file: [age, tick, client, flags]
  page,      \* the page this step sent, or None
  raced      \* two shadows were between their check and their write at once

dayVars == <<minute, launcher, proc, lock, flag, taps, fed, beat, page, raced>>

AtState(s) == {p \in Pids : proc[p] = s}

Alive(p) == proc[p] \in {"checking", "taking", "running", "degraded"}

Ticking == AtState("running") \cup AtState("degraded")

Page(of, news) == [of |-> of, news |-> news]

Missing == Stale + 1

NeverFed == TickStale + 1

Older(age, cap) == IF age < cap THEN age + 1 ELSE age

FlagsAge == IF "news_flag_tap" \in taps THEN 0 ELSE Older(beat.flags, Missing)
-----------------------------------------------------------------------------
\* a process is started: by the launcher or by hand
Spawned(p) == p \in AtState("unborn") /\ proc' = [proc EXCEPT ![p] = "checking"]

\* fault: a lock file left by another process is taken over unseen
CheckBlind(p) ==
  /\ proc[p] = "checking"
  /\ proc' = [proc EXCEPT ![p] = "taking"]
  /\ raced' = (raced \/ AtState("taking") # {})
  /\ page' = None
  /\ UNCHANGED <<minute, launcher, lock, flag, taps, fed, beat>>

\* acquire_lock: read the file and probe its pid ...
Check(p) ==
  /\ proc[p] = "checking"
  /\ IF lock # None /\ lock # p /\ Alive(lock)
     THEN proc' = [proc EXCEPT ![p] = "exited"] /\ UNCHANGED raced
     ELSE /\ proc' = [proc EXCEPT ![p] = "taking"]
          /\ raced' = (raced \/ AtState("taking") # {})
  /\ page' = None
  /\ UNCHANGED <<minute, launcher, lock, flag, taps, fed, beat>>

\* ... and write one's own, with nothing held in between.  Without a token the
\* process runs degraded: it beats and never polls.
Take(p) ==
  /\ proc[p] = "taking"
  /\ \E mode \in {"running", "degraded"} : proc' = [proc EXCEPT ![p] = mode]
  /\ lock' = p
  /\ fed' = [fed EXCEPT ![p] = NeverFed]
  /\ page' = None
  /\ UNCHANGED <<minute, launcher, flag, taps, beat, raced>>

\* one tick: quotes are polled before the close only, the file is replaced
Beats(p, quotes) ==
  /\ p \in Ticking
  /\ quotes => proc[p] = "running" /\ minute < Close
  /\ fed' = [q \in Pids |-> IF q = p /\ quotes THEN 0 ELSE Older(fed[q], NeverFed)]
  /\ beat' = [age |-> 0, tick |-> fed'[p], client |-> proc[p] = "running",
              flags |-> FlagsAge]

\* a wedged shadow, or none
NoBeat ==
  /\ fed' = [q \in Pids |-> Older(fed[q], NeverFed)]
  /\ beat' = [beat EXCEPT !.age = Older(@, Missing), !.tick = Older(@, NeverFed),
                          !.flags = FlagsAge]

\* a clean exit unlinks the lock if it is the process's own; a death leaves it
Exit(p) ==
  /\ Alive(p)
  /\ proc' = [proc EXCEPT ![p] = "exited"]
  /\ \/ p \in Ticking /\ lock = p /\ lock' = None
     \/ UNCHANGED lock
  /\ fed' = [fed EXCEPT ![p] = NeverFed]
  /\ page' = None
  /\ UNCHANGED <<minute, launcher, flag, taps, beat, raced>>
-----------------------------------------------------------------------------
\* guards 0: a start after UntilTime or on a day that is no session ends here
Launch ==
  /\ launcher.pc = "off"
  /\ minute <= Until
  /\ \E p \in Pids :
       /\ Spawned(p)
       /\ launcher' = [pc |-> "booting", child |-> p, respawns |-> 0]
  /\ page' = None
  /\ UNCHANGED <<minute, lock, flag, taps, fed, beat, raced>>

\* what the finally block stops: the children the launcher still knows
Teardown(kids) ==
  /\ launcher' = [launcher EXCEPT !.pc = "done"]
  /\ proc' = [p \in Pids |-> IF p \in kids /\ Alive(p) THEN "exited" ELSE proc[p]]

Children == {launcher.child} \cap Pids

\* three seconds later: the child has exited and the day is aborted ...
Abort ==
  /\ launcher.pc = "booting"
  /\ proc[launcher.child] = "exited"
  /\ Teardown({})
  /\ page' = Page("day", "aborted")
  /\ UNCHANGED <<minute, lock, flag, taps, fed, beat, raced>>

\* ... or the taps are started and a leftover flag is removed
Boot ==
  /\ launcher.pc = "booting"
  /\ proc[launcher.child] # "exited"
  /\ taps' = Taps
  /\ flag' = FALSE
  /\ launcher' = [launcher EXCEPT !.pc = "loop"]
  /\ page' = None
  /\ UNCHANGED <<minute, proc, lock, fed, beat, raced>>

LoopEnds ==
  /\ launcher.pc = "loop"
  /\ flag \/ minute >= Until
  /\ Teardown(Children)
  /\ taps' = {}
  /\ page' = None
  /\ UNCHANGED <<minute, lock, flag, fed, beat, raced>>

ChildGone ==
  /\ launcher.pc = "loop"
  /\ ~flag /\ minute < Until
  /\ launcher.child # None
  /\ proc[launcher.child] = "exited"

Respawn ==
  /\ ChildGone
  /\ launcher.respawns < MaxRespawns
  /\ \E p \in Pids :
       /\ Spawned(p)
       /\ launcher' = [launcher EXCEPT !.child = p, !.respawns = @ + 1]
  /\ page' = None
  /\ UNCHANGED <<minute, lock, flag, taps, fed, beat, raced>>

GiveUp ==
  /\ ChildGone
  /\ launcher.respawns = MaxRespawns
  /\ launcher' = [launcher EXCEPT !.child = None]
  /\ page' = Page("day", "down for the day")
  /\ UNCHANGED <<minute, proc, lock, flag, taps, fed, beat, raced>>
-----------------------------------------------------------------------------
\* a tap that is up beats; one that is wedged is no better than dead
TapDies ==
  /\ \E t \in taps : taps' = taps \ {t}
  /\ page' = None
  /\ UNCHANGED <<minute, launcher, proc, lock, flag, fed, beat, raced>>

\* stop_all.ps1: the flag first, then every process whose name it lists; from
\* a shell without the rights everything but the flag is denied
StopAll(denied) ==
  /\ flag' = TRUE
  /\ IF denied
     THEN UNCHANGED <<launcher, proc, taps>>
     ELSE /\ launcher' = [launcher EXCEPT !.pc = "done"]
          /\ proc' = [p \in Pids |-> IF Alive(p) THEN "exited" ELSE proc[p]]
          /\ taps' = taps \ {"news_tap"}
  /\ UNCHANGED <<minute, lock, fed, beat, raced>>

\* the owner starts a shadow by hand
ByHand ==
  /\ \E p \in Pids : Spawned(p)
  /\ page' = None
  /\ UNCHANGED <<minute, launcher, lock, flag, taps, fed, beat, raced>>
=============================================================================
