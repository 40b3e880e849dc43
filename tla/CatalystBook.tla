---------------------------- MODULE CatalystBook ----------------------------
(***************************************************************************)
(* The event book and its archive.  scripts/build_catalyst_context.py      *)
(* loads the book, polls the feeds once, drops what is too old and         *)
(* replaces the file; scripts/archive_catalyst_events.py reads that file   *)
(* three times a day and rescues what it has not rescued yet: rows are     *)
(* appended to the archive, then the list of rescued ids is replaced.      *)
(* Both are scheduled processes that can die between any two steps.        *)
(*                                                                         *)
(* Abstractions.  An event is its id; ids are numbered in the order a poll *)
(* takes them (magnitude, then symbol).  What a feed finds is an input.    *)
(* The breaker of a feed lives in the process, which polls once: it never  *)
(* opens here.  Hours are counted in twelves.                              *)
(***************************************************************************)
EXTENDS Naturals, FiniteSets

CONSTANTS
  Event,          \* event ids
  Ttl,            \* id -> ttl_seconds, in units of twelve hours
  SeenTtl,        \* the ttl taken for an id that has left the book: a day
  PerCycle,       \* max_events_per_cycle
  MaxActive,      \* max_active_events
  LastHour,       \* bound on the clock
  MaxLapses       \* bound on the lapses

VARIABLES
  hour,
  book,       \* catalyst_state.json: [events, seen]
  writer,     \* the writer's book, or Idle
  archive,    \* id -> its rows in catalyst_events_archive.jsonl
  rescued,    \* catalyst_events_seen.json
  archiver,   \* the archiver's [pc, fresh, known]
  lapses      \* faults that may cost a second row

cbVars == <<hour, book, writer, archive, rescued, archiver, lapses>>

NoBook == [events |-> {}, seen |-> <<>>]

Idle == [pc |-> "idle"]

CBInit ==
  /\ hour = 0 /\ book = NoBook /\ writer = Idle
  /\ archive = [e \in Event |-> 0] /\ rescued = {} /\ archiver = Idle /\ lapses = 0

HourPasses ==
  /\ hour < LastHour /\ hour' = hour + 1
  /\ UNCHANGED <<book, writer, archive, rescued, archiver, lapses>>

Lapse == lapses < MaxLapses /\ lapses' = lapses + 1
-----------------------------------------------------------------------------
\* poll: ids not seen before, in order, up to the storm cap and a full book
Accepted(b, offered) ==
  LET new  == offered \ DOMAIN b.seen
      free == IF MaxActive > Cardinality(b.events) THEN MaxActive - Cardinality(b.events) ELSE 0
      room == IF free < PerCycle THEN free ELSE PerCycle
  IN  {e \in new : Cardinality({f \in new : f < e}) < room}

\* _prune: an event lives for its ttl, its id for twice that; an id whose event
\* is gone is given a day's
Pruned(b) ==
  LET live == {e \in b.events : hour - b.seen[e] <= Ttl[e]}
      kept == {e \in DOMAIN b.seen :
                 hour - b.seen[e] <= 2 * (IF e \in live THEN Ttl[e] ELSE SeenTtl)}
  IN  [events |-> live, seen |-> [e \in kept |-> b.seen[e]]]

Booked(b, ids) ==
  [events |-> b.events \cup ids,
   seen   |-> [e \in DOMAIN b.seen \cup ids |-> IF e \in ids THEN hour ELSE b.seen[e]]]

\* main: an unreadable book is an empty one
WriterPolls ==
  /\ writer = Idle
  /\ \E offered \in SUBSET Event, read \in {book, NoBook} :
       writer' = [pc |-> "save", book |-> Pruned(Booked(read, Accepted(read, offered)))]
  /\ UNCHANGED <<hour, book, archive, rescued, archiver, lapses>>

WriterSaves ==
  /\ writer # Idle
  /\ book' = writer.book /\ writer' = Idle
  /\ UNCHANGED <<hour, archive, rescued, archiver, lapses>>

WriterDies ==
  /\ writer # Idle /\ writer' = Idle
  /\ UNCHANGED <<hour, book, archive, rescued, archiver, lapses>>
-----------------------------------------------------------------------------
\* fault: an id the book still holds is taken again
FreshAgain(known) == book.events

\* the book's events that are not on the list
FreshOf(known) == book.events \ known

\* main: reads the book, then the list; a list that cannot be read is empty
ArchiverReads ==
  /\ archiver = Idle
  /\ \E known \in {rescued, {}} :
       /\ archiver' = [pc |-> "append", fresh |-> FreshOf(known), known |-> known]
       /\ IF known = rescued THEN UNCHANGED lapses ELSE Lapse
  /\ UNCHANGED <<hour, book, writer, archive, rescued>>

Appended(ids) == [e \in Event |-> IF e \in ids THEN archive[e] + 1 ELSE archive[e]]

ArchiverAppends ==
  /\ archiver.pc = "append"
  /\ archive' = Appended(archiver.fresh)
  /\ archiver' = [archiver EXCEPT !.pc = "save", !.known = @ \cup archiver.fresh]
  /\ UNCHANGED <<hour, book, writer, rescued, lapses>>

\* the append raises or the process dies in it: some rows have landed
AppendBreaks ==
  /\ archiver.pc = "append"
  /\ \E landed \in SUBSET archiver.fresh :
       archive' = Appended(landed) /\ IF landed = {} THEN UNCHANGED lapses ELSE Lapse
  /\ archiver' = Idle
  /\ UNCHANGED <<hour, book, writer, rescued>>

ArchiverSaves ==
  /\ archiver.pc = "save"
  /\ rescued' = archiver.known /\ archiver' = Idle
  /\ UNCHANGED <<hour, book, writer, archive, lapses>>

\* dead, or the list not replaced, after the rows are out
SaveFails ==
  /\ archiver.pc = "save"
  /\ IF archiver.fresh = {} THEN UNCHANGED lapses ELSE Lapse
  /\ archiver' = Idle
  /\ UNCHANGED <<hour, book, writer, archive, rescued>>

CBNext ==
  \/ HourPasses \/ WriterPolls \/ WriterSaves \/ WriterDies
  \/ ArchiverReads \/ ArchiverAppends \/ AppendBreaks \/ ArchiverSaves \/ SaveFails

CBSpec == CBInit /\ [][CBNext]_cbVars
-----------------------------------------------------------------------------
(* An event on the list of the rescued is in the archive, whatever died    *)
(* when: an event listed and not appended would be lost with the book's.   *)
(* And however often the book drops an event and takes it again, it has    *)
(* one row there, but for the lapses that can cost another: rows that      *)
(* landed before a list that did not, and a list that could not be read.   *)
RescuedOnce ==
  \A e \in Event : /\ e \in rescued => archive[e] > 0
                   /\ archive[e] <= 1 + lapses
=============================================================================
