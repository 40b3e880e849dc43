--------------------------- MODULE CatalystMemory ---------------------------
(***************************************************************************)
(* The story store behind recall(): catalyst_stories.jsonl and its SQLite  *)
(* index (atlas/memory/catalyst_memory.py), the builder that heals the     *)
(* store (scripts/build_catalyst_memory.py) and the job that tags          *)
(* headlines for it (scripts/tag_catalyst_headlines.py).  The overnight    *)
(* lab appends to the same store (module OvernightLab).  Each is a process *)
(* of its own, started by hand or by the clock; no lock is shared.         *)
(*                                                                         *)
(* Abstractions.  A story is its key (name and day), whether it has a      *)
(* catalyst kind, whether its forward returns are complete, and who put it *)
(* there; a tag is one that validate_tag admits.  The bars that complete a *)
(* story come with time, and their cache may be unreadable to any build,   *)
(* so a build finds them or does not.  The index is the store's last row   *)
(* of each key whenever it is rebuilt, and is not a variable.              *)
(***************************************************************************)
EXTENDS Integers, Sequences, FiniteSets, FiniteSetsExt, Functions

CONSTANTS
  Key,         \* name-days, numbers in sorted order
  MaxBuilds    \* bound on the runs of the builder

ASSUME MemoryAssumption == Key \subseteq Nat /\ IsFiniteSet(Key) /\ MaxBuilds \in Nat

VARIABLES
  stories,    \* catalyst_stories.jsonl: rows [key, tagged, final, by]
  llm,        \* keys of catalyst_tags_llm.jsonl
  harvest,    \* keys of the in-play screen
  builder,    \* the builder's run, or NoBuild
  builds      \* its runs so far

cmVars == <<stories, llm, harvest, builder, builds>>

NoBuild == [pc |-> "none"]
KeysOf(rows) == {rows[i].key : i \in 1 .. Len(rows)}

\* a reader that keeps a dictionary: the last row of a key
LastRow(rows, k) == rows[Max({i \in 1 .. Len(rows) : rows[i].key = k})]

\* where a dictionary filled from rows has a key; those not among them come
\* after, sorted
Place(rows, k) ==
  IF k \in KeysOf(rows) THEN Min({i \in 1 .. Len(rows) : rows[i].key = k}) ELSE Len(rows) + k

\* these keys as such a dictionary lists them
Listings(rows, keys) ==
  {order \in Bijection(1 .. Cardinality(keys), keys) :
     \A i, j \in DOMAIN order : i < j => Place(rows, order[i]) < Place(rows, order[j])}

CMInit ==
  /\ stories = <<>> /\ llm = {} /\ harvest = {}
  /\ builder = NoBuild /\ builds = 0

-----------------------------------------------------------------------------
(* The world and the tagging job.                                          *)

Harvested == /\ \E k \in Key \ harvest : harvest' = harvest \cup {k}
             /\ UNCHANGED <<stories, llm, builder, builds>>

\* tag_catalyst_headlines: of the harvested headlines without a tag the model
\* tags some, in batches each of which may fail; the rest are asked again
TagHeadlines ==
  /\ \E tagged \in SUBSET (harvest \ llm) : tagged # {} /\ llm' = llm \cup tagged
  /\ UNCHANGED <<stories, harvest, builder, builds>>

-----------------------------------------------------------------------------
(* The builder.                                                            *)

\* build_rows: the harvest with tags and returns, as far as the caches of the
\* bars can be read
BuildRows ==
  /\ builder = NoBuild /\ builds < MaxBuilds /\ harvest # {}
  /\ builds' = builds + 1
  /\ \E cached \in SUBSET harvest, rebuild \in BOOLEAN :
       builder' = [pc |-> IF rebuild \/ stories = <<>> THEN "fresh" ELSE "merge",
                   rows |-> [k \in harvest |-> [key |-> k, tagged |-> k \in llm,
                                                final |-> k \in cached, by |-> "backfill"]]]
  /\ UNCHANGED <<stories, llm, harvest>>

\* fault: what is healed takes the row as it was built
HealedRaw(old, row) ==
  IF (~old.final /\ row.final) \/ (~old.tagged /\ row.tagged)
  THEN [row EXCEPT !.by = old.by] ELSE old

\* merge_heal of one key: a row gains its returns or a tag it did not have
Healed(old, row) ==
  LET heals == ~old.final /\ row.final
      gains == ~old.tagged /\ row.tagged
  IN  IF ~heals /\ ~gains THEN old
      ELSE [row EXCEPT !.by = old.by, !.final = @ \/ (~heals /\ old.final)]

\* reads the store and merges
Merge ==
  /\ builder.pc = "merge"
  /\ LET rows == builder.rows
         Row(k) == IF k \notin KeysOf(stories) THEN rows[k]
                   ELSE IF k \in DOMAIN rows THEN Healed(LastRow(stories, k), rows[k])
                   ELSE LastRow(stories, k)
     IN  \E order \in Listings(stories, KeysOf(stories) \cup DOMAIN rows) :
           builder' = [pc |-> "write", out |-> [i \in DOMAIN order |-> Row(order[i])]]
  /\ UNCHANGED <<stories, llm, harvest, builds>>

\* a first build, or one told to --rebuild: the harvest and nothing else
Fresh ==
  /\ builder.pc = "fresh"
  /\ \E order \in Listings(<<>>, DOMAIN builder.rows) :
       builder' = [pc |-> "rewrite", out |-> [i \in DOMAIN order |-> builder.rows[order[i]]]]
  /\ UNCHANGED <<stories, llm, harvest, builds>>

\* the store is opened for writing and written row by row
WriteStore ==
  /\ builder.pc \in {"write", "rewrite"}
  /\ stories' = builder.out
  /\ builder' = [pc |-> "index"]
  /\ UNCHANGED <<llm, harvest, builds>>

\* rebuild_index, from the store as it stands by then
RebuildIndex ==
  /\ builder.pc = "index"
  /\ builder' = NoBuild
  /\ UNCHANGED <<stories, llm, harvest, builds>>

\* a death while it writes leaves what was written so far
BuilderDies ==
  /\ builder # NoBuild /\ builder' = NoBuild
  /\ \/ UNCHANGED stories
     \/ /\ builder.pc \in {"write", "rewrite"}
        /\ \E n \in 0 .. Len(builder.out) - 1 : stories' = SubSeq(builder.out, 1, n)
  /\ UNCHANGED <<llm, harvest, builds>>

CMNext ==
  \/ Harvested \/ TagHeadlines
  \/ BuildRows \/ Merge \/ Fresh \/ WriteStore \/ RebuildIndex \/ BuilderDies

-----------------------------------------------------------------------------
(* Properties.                                                             *)

Final(rows, k) == k \in KeysOf(rows) /\ LastRow(rows, k).final

(* Returns that were complete once stay complete when the store is healed, *)
(* whatever the tags, the harvest and the caches of the bars have become   *)
(* since, and whatever was appended while the builder was at work.         *)
FinalStays ==
  [][builder.pc = "write" /\ builder'.pc = "index" =>
       \A k \in Key : Final(stories, k) => Final(stories', k)]_cmVars

=============================================================================
