---------------------------- MODULE OvernightLab ----------------------------
(***************************************************************************)
(* The nightly compute lab, scripts/run_overnight_lab.py, beside the story *)
(* store it appends to.  A run refuses the trading window, takes a lock,   *)
(* goes through its stages, each contained, and replaces its report.  It   *)
(* can be started at any time, twice, and killed anywhere.                 *)
(*                                                                         *)
(* Abstractions.  The pure stages (exit grid, engine A/B, efficiency,      *)
(* questions) and the exit reviews write files nobody here reads back, and *)
(* are contained: what they compute is left out.  The lock is read and     *)
(* written in one step: two starts within that instant are left out.       *)
(***************************************************************************)
EXTENDS CatalystMemory

CONSTANTS
  Pid,         \* processes of the lab
  Named,       \* day -> keys of the names with a headline that are wanted
  Lab_Days     \* bound on the days

ASSUME NightAssumption ==
  /\ 0 \notin Pid /\ Lab_Days \in Nat \ {0}
  /\ Named \in [1 .. Lab_Days -> SUBSET Key]

VARIABLES
  when,       \* [day, phase]: "session" is 09:15 to 16:15
  lab,        \* pid -> where its run is
  lock        \* pid in overnight_lab.lock, or 0

olVars == <<when, lab, lock>>

Down == [pc |-> "down"]

OLInit ==
  /\ when = [day |-> 1, phase |-> "session"]
  /\ lab = [p \in Pid |-> Down] /\ lock = 0

\* the session ends, and another day's begins
ClockMoves ==
  /\ \/ when.phase = "session" /\ when' = [when EXCEPT !.phase = "night"]
     \/ /\ when.phase = "night" /\ when.day < Lab_Days
        /\ when' = [day |-> when.day + 1, phase |-> "session"]
  /\ UNCHANGED <<lab, lock, cmVars>>

rth_blocked == when.phase = "session"

To(p, pc) == lab' = [lab EXCEPT ![p] = [@ EXCEPT !.pc = pc]]

\* main: refused in the window; the day is today or the one asked for
Start(p) ==
  /\ lab[p] = Down /\ ~rth_blocked
  /\ \E d \in 1 .. when.day : lab' = [lab EXCEPT ![p] = [pc |-> "lock", day |-> d, keys |-> {}]]
  /\ UNCHANGED <<when, lock, cmVars>>

\* the lock names another process, and that one runs
HeldByOther(p) == lock \notin {0, p} /\ lab[lock] # Down

\* acquire_lock: the holder is alive, exit 6
Refused(p) ==
  /\ lab[p].pc = "lock" /\ HeldByOther(p)
  /\ lab' = [lab EXCEPT ![p] = Down]
  /\ UNCHANGED <<when, lock, cmVars>>

\* acquire_lock: free, or of a dead process
Acquire(p) ==
  /\ lab[p].pc = "lock" /\ ~HeldByOther(p)
  /\ lock' = p /\ To(p, "stages")
  /\ UNCHANGED <<when, cmVars>>

\* run_lab: the pure stages; then the gate of the model stage, the health of
\* the server and its smoke call, any of which ends the stage
ModelStageSkipped(p) ==
  lab[p].pc = "stages" /\ To(p, "report") /\ UNCHANGED <<when, lock, cmVars>>

\* the gate lets it in, and the first job, the exit reviews, is done or raised
ModelStage(p) ==
  /\ lab[p].pc = "stages" /\ ~rth_blocked
  /\ To(p, "names")
  /\ UNCHANGED <<when, lock, cmVars>>

\* fault: what the store has is asked again
UnstoredAll(day) == Named[day]

\* the day's names that the store does not have yet
Unstored(day) == Named[day] \ KeysOf(stories)

\* _job_catmem_append: reads the names and the store, and asks the model
ReadNames(p) ==
  /\ lab[p].pc = "names"
  /\ LET keys == Unstored(lab[p].day)
     IN  lab' = [lab EXCEPT ![p] = [@ EXCEPT !.keys = keys,
                                   !.pc = IF keys = {} THEN "report" ELSE "append"]]
  /\ UNCHANGED <<when, lock, cmVars>>

\* the model's answer tags some of them, which are appended and then listed in
\* the job's file
AppendStories(p) ==
  /\ lab[p].pc = "append"
  /\ \E tagged \in SUBSET lab[p].keys : \E order \in Listings(<<>>, tagged) :
       stories' = stories \o [i \in DOMAIN order |->
                    [key |-> order[i], tagged |-> TRUE, final |-> FALSE, by |-> "daily"]]
  /\ lab' = [lab EXCEPT ![p] = [@ EXCEPT !.keys = {}, !.pc = "report"]]
  /\ UNCHANGED <<when, lock, llm, harvest, builder, builds>>

\* the model's call or its answer raises, contained
JobRaises(p) ==
  /\ lab[p].pc = "append"
  /\ lab' = [lab EXCEPT ![p] = [@ EXCEPT !.keys = {}, !.pc = "report"]]
  /\ UNCHANGED <<when, lock, cmVars>>

\* the report is replaced, or its write fails; the lock goes if it is its own
Report(p) ==
  /\ lab[p].pc = "report"
  /\ lab' = [lab EXCEPT ![p] = Down]
  /\ lock' = IF lock = p THEN 0 ELSE lock
  /\ UNCHANGED <<when, cmVars>>

LabDies(p) ==
  /\ lab[p] # Down /\ lab' = [lab EXCEPT ![p] = Down]
  /\ UNCHANGED <<when, lock, cmVars>>

OLStep(p) ==
  \/ Start(p) \/ Refused(p) \/ Acquire(p) \/ ModelStageSkipped(p) \/ ModelStage(p)
  \/ ReadNames(p) \/ AppendStories(p) \/ JobRaises(p) \/ Report(p) \/ LabDies(p)

NightInit == CMInit /\ OLInit
NightNext == \/ ClockMoves \/ \E p \in Pid : OLStep(p)
             \/ CMNext /\ UNCHANGED olVars

NightSpec == NightInit /\ [][NightNext]_<<cmVars, olVars>>

-----------------------------------------------------------------------------
(* Properties.                                                             *)

(* A night that is run again, after a death, beside a second start or for  *)
(* an earlier day, does not store a name it has stored: the lab's row of a *)
(* name-day stands in the store at most once, whatever the builder does to *)
(* the store meanwhile.                                                    *)
StoredOnce ==
  \A k \in Key :
    Cardinality({i \in 1 .. Len(stories) : stories[i].key = k /\ stories[i].by = "daily"}) <= 1
=============================================================================
