----------------------------- MODULE AlertWatch -----------------------------
(***************************************************************************)
(* scripts/alert_watch.py --options-only beside the options day: it polls  *)
(* the heartbeat files and pages the owner once per outage.  A poll runs   *)
(* its sections in order; a section pages, updates its latch and saves the *)
(* latches, and the process can die between any two of these.              *)
(***************************************************************************)
EXTENDS OptionsDay

CONSTANTS
  Grace,       \* startup_grace_sec, in minutes
  HoursEnd,    \* market_close_local
  SettleEnd,   \* quotes are not missed before 9:32
  MaxAlerters, \* starts of the alerter
  MaxLosses    \* pages lost and files not written

Watches == {"shadow", "data", "flags"}

\* load_state, save_state: the day, and the watches with an outage announced
Latches == [date : {"none", "yesterday", "today"}, down : SUBSET Watches]

ASSUME AlertAssumption ==
  /\ {Grace, HoursEnd, SettleEnd, MaxLosses} \subseteq Nat /\ MaxAlerters \in Nat \ {0}
  /\ None \notin Latches

VARIABLES
  alerter,   \* [pc, grace, starts, losses]
  st,        \* the latches in memory: [date, down]
  saved,     \* the latches on disk, or None when unreadable
  told       \* what the owner was last told of each watch: "up" or "down", or
             \* "unsure" once a page was lost or a latch not written after it

vars == <<dayVars, alerter, st, saved, told>>

After(w) == CASE w = "shadow" -> "data" [] w = "data" -> "flags" [] OTHER -> "polled"

Fresh(date) == [date |-> date, down |-> {}]

Gated == Open <= minute /\ minute <= HoursEnd /\ alerter.grace = 0

DayStays == UNCHANGED <<minute, launcher, proc, lock, flag, taps, fed, beat, raced>>
-----------------------------------------------------------------------------
\* options_shadow_data_reason: the process branch owns an old heartbeat
DataDead ==
  /\ beat.age <= Stale
  /\ \/ ~beat.client
     \/ SettleEnd <= minute /\ minute < Close /\ beat.tick > TickStale

\* options_shadow_tick_fresh
TickFresh == beat.tick <= TickStale

Trouble(w) ==
  CASE w = "shadow" -> beat.age > Stale
    [] w = "data" -> DataDead
    [] w = "flags" -> beat.flags > Stale
-----------------------------------------------------------------------------
\* run_daemon: load_state, then a grace period; the launcher starts it once,
\* the owner again by hand
AlerterUp ==
  /\ alerter.pc = "down"
  /\ alerter.starts < MaxAlerters
  /\ launcher.pc = "loop"
  /\ alerter' = [alerter EXCEPT !.pc = "idle", !.grace = Grace, !.starts = @ + 1]
  /\ st' = IF saved = None THEN Fresh("none") ELSE saved
  /\ page' = None
  /\ UNCHANGED <<saved, told>>
  /\ DayStays

\* fault: latches are kept whatever their day
BeginPollKeeps ==
  /\ alerter.pc = "idle"
  /\ alerter' = [alerter EXCEPT !.pc = "shadow"]
  /\ page' = None
  /\ UNCHANGED <<st, saved, told>>
  /\ DayStays

\* the first lines of evaluate: another day's latches are dropped
BeginPoll ==
  /\ alerter.pc = "idle"
  /\ alerter' = [alerter EXCEPT !.pc = "shadow"]
  /\ IF st.date = "today"
     THEN UNCHANGED <<st, saved>>
     ELSE st' = Fresh("today") /\ saved' \in {saved, Fresh("today")}
  /\ page' = None
  /\ UNCHANGED told
  /\ DayStays

Dead ==
  /\ alerter' = [alerter EXCEPT !.pc = "down", !.grace = 0]
  /\ st' = Fresh("none")

Latched(w) == [st EXCEPT !.down = @ \cup {w}]

Cleared(w) == [st EXCEPT !.down = @ \ {w}]

Moves(w, loss) ==
  /\ loss => alerter.losses < MaxLosses
  /\ alerter' = [alerter EXCEPT !.pc = After(w),
                                !.losses = IF loss THEN @ + 1 ELSE @]

\* a channel that refuses the page and a file that cannot be written are both
\* shrugged off
Announces(w, news, new) ==
  /\ page' = Page(w, news)
  /\ st' = new
  /\ \E heard, written \in BOOLEAN :
       /\ saved' = IF written THEN new ELSE saved
       /\ told' = [told EXCEPT ![w] = IF heard /\ written THEN news ELSE "unsure"]
       /\ Moves(w, ~(heard /\ written))

\* the process dies between the page and the file, or writing it in place
DiesAnnouncing(w, news) ==
  /\ page' = Page(w, news)
  /\ \E torn \in BOOLEAN :
       /\ saved' = IF torn THEN None ELSE saved
       /\ told' = [v \in Watches |-> IF torn \/ v = w THEN "unsure" ELSE told[v]]
  /\ Dead

\* the end of a data outage is written first and paged after
DiesClearing(w) ==
  /\ page' = None
  /\ \E left \in {None, saved, Cleared(w)} :
       /\ saved' = left
       /\ told' = [v \in Watches |-> IF left = None \/ v = w THEN "unsure" ELSE told[v]]
  /\ Dead

\* fault: the latch of an outage is kept in memory only
OutageUnsaved(w) ==
  /\ alerter.pc = w /\ Gated
  /\ Trouble(w) /\ w \notin st.down
  /\ page' = Page(w, "down")
  /\ st' = Latched(w)
  /\ told' = [told EXCEPT ![w] = "down"]
  /\ Moves(w, FALSE)
  /\ UNCHANGED saved
  /\ DayStays

Outage(w) ==
  /\ alerter.pc = w /\ Gated
  /\ Trouble(w) /\ w \notin st.down
  /\ Announces(w, "down", Latched(w)) \/ DiesAnnouncing(w, "down")
  /\ DayStays

\* the end of a data outage is announced only with a fresh tick to show for it
Silent(w) == w = "data" /\ ~TickFresh

Recovery(w) ==
  /\ alerter.pc = w /\ Gated
  /\ ~Trouble(w) /\ w \in st.down /\ ~Silent(w)
  /\ \/ Announces(w, "up", Cleared(w))
     \/ IF w = "data" THEN DiesClearing(w) ELSE DiesAnnouncing(w, "up")
  /\ DayStays

\* otherwise the latch is dropped and the owner told nothing
ClearsSilently(w) ==
  /\ alerter.pc = w /\ Gated
  /\ ~Trouble(w) /\ w \in st.down /\ Silent(w)
  /\ \/ DiesClearing(w)
     \/ /\ st' = Cleared(w)
        /\ \E written \in BOOLEAN :
             /\ saved' = IF written THEN st' ELSE saved
             /\ told' = [told EXCEPT ![w] = IF written THEN "up" ELSE "unsure"]
             /\ Moves(w, ~written)
        /\ page' = None
  /\ DayStays

Passes(w) ==
  /\ alerter.pc = w
  /\ Gated => (Trouble(w) <=> w \in st.down)
  /\ Moves(w, FALSE)
  /\ page' = None
  /\ UNCHANGED <<st, saved, told>>
  /\ DayStays

Section(w) == Outage(w) \/ Recovery(w) \/ ClearsSilently(w) \/ Passes(w)

Polls == BeginPoll \/ \E w \in Watches : Section(w)

AlerterDies ==
  /\ alerter.pc # "down"
  /\ Dead
  /\ page' = None
  /\ UNCHANGED <<saved, told>>
  /\ DayStays
-----------------------------------------------------------------------------
\* a poll reads each file once and takes no time against the minute
Between == alerter.pc \in {"down", "idle"}

\* the end of the day and stop_all stop the alerter with the rest
DayStep ==
  /\ Between
  /\ \/ Launch \/ Abort \/ Boot \/ LoopEnds \/ Respawn \/ GiveUp
     \/ TapDies \/ ByHand
     \/ \E p \in Pids : Check(p) \/ Take(p) \/ Exit(p)
     \/ \E denied \in BOOLEAN : StopAll(denied) /\ page' = None
  /\ IF launcher.pc = "loop" /\ launcher'.pc = "done"
     THEN Dead ELSE UNCHANGED <<alerter, st>>
  /\ UNCHANGED <<saved, told>>

\* a start is over, and the launcher's loop has turned, within the minute
Settled ==
  /\ AtState("checking") \cup AtState("taking") = {}
  /\ launcher.pc # "booting"
  /\ launcher.pc = "loop" => ~flag /\ minute < Until /\ ~ChildGone

\* an alerter that is up polls every minute
MinutePasses ==
  /\ minute < LastMinute
  /\ Settled
  /\ alerter.pc \in {"down", "polled"}
  /\ minute' = minute + 1
  /\ alerter' = [alerter EXCEPT !.pc = IF @ = "polled" THEN "idle" ELSE @,
                                !.grace = IF @ > 0 THEN @ - 1 ELSE 0]
  /\ NoBeat \/ \E p \in Pids, quotes \in BOOLEAN : Beats(p, quotes)
  /\ page' = None
  /\ UNCHANGED <<launcher, proc, lock, flag, taps, raced, st, saved, told>>

\* yesterday's latches and a leftover flag or lock may be on disk
Init ==
  /\ minute = 0
  /\ launcher = [pc |-> "off", child |-> None, respawns |-> 0]
  /\ proc = [p \in Pids |-> "unborn"]
  /\ lock = None
  /\ flag \in BOOLEAN
  /\ taps = {}
  /\ fed = [p \in Pids |-> NeverFed]
  /\ beat = [age |-> Missing, tick |-> NeverFed, client |-> TRUE, flags |-> Missing]
  /\ page = None
  /\ raced = FALSE
  /\ alerter = [pc |-> "down", grace |-> 0, starts |-> 0, losses |-> 0]
  /\ st = Fresh("none")
  /\ \/ saved = None
     \/ \E down \in {{}, Watches} : saved = [date |-> "yesterday", down |-> down]
  /\ told = [w \in Watches |-> "up"]

Next == DayStep \/ AlerterUp \/ Polls \/ AlerterDies \/ MinutePasses

Spec == Init /\ [][Next]_vars
-----------------------------------------------------------------------------
\* After every poll the owner stands informed of each watch: told of the
\* trouble there is and of no other, across restarts of the alerter, a day
\* change and an outage's end that is not announced. Excepted is what the
\* alerter accepts: a page that did not arrive, a latch not written after it.
OwnerKnows ==
  [][alerter.pc = "flags" /\ alerter'.pc = "polled" /\ Gated
     => \A w \in Watches :
          told'[w] # "unsure" => (Trouble(w) <=> told'[w] = "down")]_vars

\* An outage is paged once (config/alerts.json: one alert per outage), however
\* often the alerter is restarted during it.
PagedOnce ==
  [][\A w \in Watches :
       page' = Page(w, "down") => told[w] # "down"]_vars

\* The pid lock admits one shadow at a time: respawned, started by hand, after
\* a death or a stop. Only two starts that pass the check together break it.
OneShadow == raced \/ Cardinality(Ticking) <= 1

=============================================================================
