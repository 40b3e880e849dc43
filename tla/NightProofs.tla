----------------------------- MODULE NightProofs -----------------------------
(***************************************************************************)
(* Proofs about the jobs after the close: the story store under its two    *)
(* writers (CatalystMemory, OvernightLab), the main shadow's grader and    *)
(* the lab's (Evidence, ShadowGrader, LabGrader).                          *)
(***************************************************************************)
EXTENDS OvernightLab, ShadowGrader, LabGrader, FiniteSetTheorems, WellFoundedInduction, TLAPS

USE MemoryAssumption, NightAssumption DEF MemoryAssumption, NightAssumption

-----------------------------------------------------------------------------
(* The story store.                                                        *)

Row == [key : Key, tagged : BOOLEAN, final : BOOLEAN, by : {"daily", "backfill"}]

\* the rows the builder holds, before it has read the store or after
Building ==
  \/ builder = NoBuild
  \/ /\ builder.pc \in {"fresh", "merge"}
     /\ DOMAIN builder.rows \in SUBSET Key
     /\ \A k \in DOMAIN builder.rows : /\ builder.rows[k] \in Row
                                       /\ builder.rows[k].key = k /\ builder.rows[k].by = "backfill"
  \/ builder.pc \in {"write", "rewrite"} /\ builder.out \in Seq(Row)
  \/ builder = [pc |-> "index"]

Running == [pc : {"lock", "stages", "names", "append", "report"}, day : Nat, keys : SUBSET Key]

NightType ==
  /\ stories \in Seq(Row) /\ llm \in SUBSET Key /\ harvest \in SUBSET Key /\ builds \in Nat
  /\ Building
  /\ when \in [day : 1 .. Lab_Days, phase : {"session", "night"}]
  /\ DOMAIN lab = Pid
  /\ \A p \in Pid : lab[p] = Down \/ (lab[p] \in Running /\ lab[p].day \in 1 .. when.day)

\* a run past the lock is the lock's
Working(p) == lab[p].pc \in {"stages", "names", "append", "report"}
LockHeld   == \A p \in Pid : Working(p) => lock = p

Daily(rows, i) == i \in 1 .. Len(rows) /\ rows[i].by = "daily"
DailyKeys(rows) == {rows[i].key : i \in {j \in 1 .. Len(rows) : Daily(rows, j)}}

\* one row of the lab for a key
Single(rows) ==
  \A i, j \in 1 .. Len(rows) :
    Daily(rows, i) /\ Daily(rows, j) /\ rows[i].key = rows[j].key => i = j

OneEach == Single(stories) /\ (builder.pc \in {"write", "rewrite"} => Single(builder.out))

\* the builder brings back no row of the lab that the store has lost
NoneBroughtBack ==
  builder.pc \in {"write", "rewrite"} => DailyKeys(builder.out) \subseteq DailyKeys(stories)

\* what the model is asked about the store does not have from the lab
AskedNew == \A p \in Pid : lab[p].pc = "append" => lab[p].keys \cap DailyKeys(stories) = {}

\* what is about to be written has the returns the store has
KeepsFinal == builder.pc = "write" => \A k \in Key : Final(stories, k) => Final(builder.out, k)

NightInv == NightType /\ LockHeld /\ OneEach /\ NoneBroughtBack /\ AskedNew /\ KeepsFinal

\* A set of places in a file has a last one.
LEMMA LastPlace ==
  ASSUME NEW n \in Nat, NEW S \in SUBSET (1 .. n), S # {}
  PROVE  Max(S) \in S /\ \A i \in S : i <= Max(S)
<1> DEFINE R == {ss \in Nat \X Nat : ss[1] < ss[2]}
           T == {n - i : i \in S}
<1>1. IsWellFoundedOn(R, Nat)
  BY NatLessThanWellFounded DEF OpToRel
<1>2. T \subseteq Nat /\ T # {}
  <2>1. \A i \in S : n - i \in Nat
    OBVIOUS
  <2> QED
    BY <2>1
<1> HIDE DEF R, T
<1>3. PICK m \in T : \A d \in T : ~(<<d, m>> \in R)
  BY <1>1, <1>2, WFMin
<1>4. \A d \in T : m <= d
  <2>1. \A d \in T : ~(d < m)
    BY <1>2, <1>3 DEF R
  <2> QED
    BY <1>2, <1>3, <2>1
<1>5. PICK l \in S : m = n - l
  BY <1>3 DEF T
<1>6. \A i \in S : l >= i
  <2> TAKE i \in S
  <2>1. n - i \in T
    BY DEF T
  <2> QED
    BY <1>4, <1>5, <2>1
<1>7. Max(S) \in S /\ \A i \in S : Max(S) >= i
  BY <1>6, Zenon DEF Max
<1> QED
  BY <1>7

LEMMA LastRowIs ==
  ASSUME NEW rows \in Seq(Row), NEW k \in KeysOf(rows)
  PROVE  \E n \in 1 .. Len(rows) :
           /\ rows[n].key = k /\ LastRow(rows, k) = rows[n]
           /\ \A i \in 1 .. Len(rows) : rows[i].key = k => i <= n
<1> DEFINE S == {i \in 1 .. Len(rows) : rows[i].key = k}
<1>1. S \in SUBSET (1 .. Len(rows)) /\ S # {} /\ Len(rows) \in Nat
  BY DEF KeysOf
<1>2. LastRow(rows, k) = rows[Max(S)]
  BY DEF LastRow
<1> HIDE DEF S
<1>3. Max(S) \in S /\ \A i \in S : i <= Max(S)
  BY <1>1, LastPlace
<1> QED
  BY <1>2, <1>3 DEF S

\* A listing has each of its keys once.
Lists(order, n, keys) ==
  /\ order \in [1 .. n -> keys]
  /\ \A k \in keys : \E i \in 1 .. n : order[i] = k
  /\ \A i, j \in 1 .. n : order[i] = order[j] => i = j

LEMMA ListingIs ==
  ASSUME NEW rows, NEW keys \in SUBSET Key, NEW order \in Listings(rows, keys)
  PROVE  \E n \in Nat : Lists(order, n, keys)
<1>1. Cardinality(keys) \in Nat
  BY FS_Subset, FS_CardinalityType
<1> DEFINE n == Cardinality(keys)
<1>2. /\ order \in [1 .. n -> keys]
      /\ \A k \in keys : \E i \in 1 .. n : order[i] = k
      /\ \A i, j \in 1 .. n : order[i] = order[j] => i = j
  BY DEF Listings, Bijection, Injection, Surjection, IsInjective
<1> QED
  BY <1>1, <1>2 DEF Lists

\* What is healed keeps its key and who put it there, and loses no returns.
LEMMA HealedIs ==
  ASSUME NEW old \in Row, NEW row \in Row, old.key = row.key
  PROVE  /\ Healed(old, row) \in Row
         /\ Healed(old, row).key = old.key /\ Healed(old, row).by = old.by
         /\ old.final => Healed(old, row).final
<1> DEFINE heals == ~old.final /\ row.final
           gains == ~old.tagged /\ row.tagged
<1>1. CASE ~heals /\ ~gains
  <2>1. Healed(old, row) = old
    BY <1>1 DEF Healed
  <2> QED
    BY <2>1
<1>2. CASE heals \/ gains
  <2> DEFINE f == row.final \/ (~heals /\ old.final)
  <2>1. f \in BOOLEAN
    OBVIOUS
  <2>2. Healed(old, row) = [row EXCEPT !.by = old.by, !.final = f]
    BY <1>2, Zenon DEF Healed
  <2>3. old.final => f
    BY DEF Row
  <2> HIDE DEF f
  <2> QED
    BY <2>1, <2>2, <2>3 DEF Row
<1> QED
  BY <1>1, <1>2

LEMMA NightInitial == NightInit => NightInv
<1> SUFFICES ASSUME NightInit PROVE NightInv
  OBVIOUS
<1> USE DEF NightInit, CMInit, OLInit
<1>1. NightType
  BY DEF NightType, Building
<1>2. LockHeld /\ AskedNew
  BY DEF LockHeld, Working, AskedNew, Down
<1>3. OneEach /\ NoneBroughtBack /\ KeepsFinal
  BY DEF OneEach, Single, NoneBroughtBack, KeepsFinal, NoBuild
<1> QED
  BY <1>1, <1>2, <1>3 DEF NightInv

\* What the lab appends.
LEMMA AppendedIs ==
  ASSUME NightType, NEW p \in Pid, AppendStories(p)
  PROVE  \E n \in Nat : \E order \in [1 .. n -> lab[p].keys] :
           /\ \A i, j \in 1 .. n : order[i] = order[j] => i = j
           /\ stories' \in Seq(Row) /\ Len(stories') = Len(stories) + n
           /\ \A i \in 1 .. Len(stories) : stories'[i] = stories[i]
           /\ \A k \in 1 .. n :
                stories'[Len(stories) + k]
                  = [key |-> order[k], tagged |-> TRUE, final |-> FALSE, by |-> "daily"]
<1>1. PICK tagged \in SUBSET lab[p].keys : \E order \in Listings(<<>>, tagged) :
        stories' = stories \o [i \in DOMAIN order |->
                     [key |-> order[i], tagged |-> TRUE, final |-> FALSE, by |-> "daily"]]
  BY DEF AppendStories
<1>2. PICK order \in Listings(<<>>, tagged) :
        stories' = stories \o [i \in DOMAIN order |->
                     [key |-> order[i], tagged |-> TRUE, final |-> FALSE, by |-> "daily"]]
  BY <1>1
<1>3. lab[p].keys \in SUBSET Key
  BY DEF NightType, Running, AppendStories, Down
<1>4. tagged \in SUBSET Key
  BY <1>3
<1>5. PICK n \in Nat : Lists(order, n, tagged)
  BY <1>4, ListingIs
<1>6. /\ order \in [1 .. n -> tagged]
      /\ \A i, j \in 1 .. n : order[i] = order[j] => i = j
  BY <1>5 DEF Lists
<1>7. order \in [1 .. n -> lab[p].keys] /\ DOMAIN order = 1 .. n
  BY <1>6
<1> DEFINE new == [i \in 1 .. n |->
                     [key |-> order[i], tagged |-> TRUE, final |-> FALSE, by |-> "daily"]]
<1>8. stories' = stories \o new
  BY <1>2, <1>7
<1>9. new \in Seq(Row) /\ Len(new) = n
  <2>1. \A i \in 1 .. n : [key |-> order[i], tagged |-> TRUE, final |-> FALSE, by |-> "daily"] \in Row
    BY <1>3, <1>7 DEF Row
  <2> QED
    BY <2>1
<1>10. stories \in Seq(Row)
  BY DEF NightType
<1>11. \A k \in 1 .. n : new[k] = [key |-> order[k], tagged |-> TRUE, final |-> FALSE, by |-> "daily"]
  OBVIOUS
<1> HIDE DEF new
<1>12. /\ stories' \in Seq(Row) /\ Len(stories') = Len(stories) + n
      /\ \A i \in 1 .. Len(stories) : stories'[i] = stories[i]
  <2>1. \A i \in 1 .. Len(stories) : (stories \o new)[i] = stories[i]
    BY <1>9, <1>10
  <2>2. stories \o new \in Seq(Row) /\ Len(stories \o new) = Len(stories) + n
    BY <1>9, <1>10
  <2> QED
    BY <1>8, <2>1, <2>2
<1>13. \A k \in 1 .. n : stories'[Len(stories) + k] = new[k]
  BY <1>8, <1>9, <1>10
<1>14. \A k \in 1 .. n :
         stories'[Len(stories) + k]
           = [key |-> order[k], tagged |-> TRUE, final |-> FALSE, by |-> "daily"]
  BY <1>11, <1>13
<1> QED
  BY <1>6, <1>7, <1>12, <1>14

\* What a merge is about to write: each key once, under the key it had.
LEMMA MergedIs ==
  ASSUME NightType, Merge
  PROVE  \E n \in Nat : \E order \in [1 .. n -> Key] :
           /\ \A i, j \in 1 .. n : order[i] = order[j] => i = j
           /\ \A k \in KeysOf(stories) : \E i \in 1 .. n : order[i] = k
           /\ builder'.pc = "write" /\ builder'.out \in Seq(Row) /\ Len(builder'.out) = n
           /\ \A i \in 1 .. n :
                /\ builder'.out[i].key = order[i]
                /\ builder'.out[i].by = "daily" => order[i] \in DailyKeys(stories)
                /\ Final(stories, order[i]) => builder'.out[i].final
<1> DEFINE rows == builder.rows
           Written(k) == IF k \notin KeysOf(stories) THEN rows[k]
                         ELSE IF k \in DOMAIN rows THEN Healed(LastRow(stories, k), rows[k])
                         ELSE LastRow(stories, k)
           keys == KeysOf(stories) \cup DOMAIN rows
<1>1. PICK order \in Listings(stories, keys) :
        builder' = [pc |-> "write", out |-> [i \in DOMAIN order |-> Written(order[i])]]
  BY DEF Merge
<1>2. stories \in Seq(Row)
  BY DEF NightType
<1>3. /\ DOMAIN rows \in SUBSET Key
      /\ \A k \in DOMAIN rows : rows[k] \in Row /\ rows[k].key = k /\ rows[k].by = "backfill"
  BY DEF NightType, Building, Merge, NoBuild
<1>4. \A k \in KeysOf(stories) :
        /\ k \in Key /\ LastRow(stories, k) \in Row /\ LastRow(stories, k).key = k
        /\ LastRow(stories, k).by = "daily" => k \in DailyKeys(stories)
  <2> TAKE k \in KeysOf(stories)
  <2>1. PICK n \in 1 .. Len(stories) : stories[n].key = k /\ LastRow(stories, k) = stories[n]
    BY <1>2, LastRowIs
  <2>2. stories[n] \in Row
    BY <1>2
  <2> QED
    BY <2>1, <2>2 DEF Row, DailyKeys, Daily
<1>5. ASSUME NEW k \in keys
      PROVE  /\ Written(k) \in Row /\ Written(k).key = k
             /\ Written(k).by = "daily" => k \in DailyKeys(stories)
             /\ Final(stories, k) => Written(k).final
  <2>1. CASE k \notin KeysOf(stories)
    BY <1>3, <1>5, <2>1 DEF Final
  <2>2. CASE k \in KeysOf(stories) /\ k \in DOMAIN rows
    <3>1. Written(k) = Healed(LastRow(stories, k), rows[k])
      BY <2>2
    <3> QED
      BY <1>3, <1>4, <2>2, <3>1, HealedIs DEF Final
  <2>3. CASE k \in KeysOf(stories) /\ k \notin DOMAIN rows
    <3>1. Written(k) = LastRow(stories, k)
      BY <2>3
    <3> QED
      BY <1>4, <2>3, <3>1 DEF Final
  <2> QED
    BY <2>1, <2>2, <2>3
<1>6. keys \in SUBSET Key
  BY <1>3, <1>4
<1>7. PICK n \in Nat : Lists(order, n, keys)
  <2> HIDE DEF keys
  <2> QED
    BY <1>6, ListingIs
<1>8. /\ order \in [1 .. n -> keys]
      /\ \A k \in keys : \E i \in 1 .. n : order[i] = k
      /\ \A i, j \in 1 .. n : order[i] = order[j] => i = j
  BY <1>7 DEF Lists
<1> HIDE DEF rows, Written
<1>9. /\ builder'.pc = "write" /\ builder'.out = [i \in 1 .. n |-> Written(order[i])]
  BY <1>1, <1>8
<1>10. \A i \in 1 .. n : order[i] \in keys
  BY <1>8
<1>11. /\ builder'.out \in Seq(Row) /\ Len(builder'.out) = n
       /\ \A i \in 1 .. n : builder'.out[i] = Written(order[i])
  <2>1. \A i \in 1 .. n : Written(order[i]) \in Row
    BY <1>5, <1>10
  <2> QED
    BY <1>9, <2>1
<1>12. \A i \in 1 .. n :
         /\ builder'.out[i].key = order[i]
         /\ builder'.out[i].by = "daily" => order[i] \in DailyKeys(stories)
         /\ Final(stories, order[i]) => builder'.out[i].final
  BY <1>5, <1>10, <1>11
<1>13. order \in [1 .. n -> Key] /\ \A k \in KeysOf(stories) : \E i \in 1 .. n : order[i] = k
  BY <1>6, <1>8
<1>14. /\ builder'.out \in Seq(Row) /\ Len(builder'.out) = n
       /\ \A i \in 1 .. Len(builder'.out) :
            /\ builder'.out[i].key = order[i]
            /\ builder'.out[i].by = "daily" => order[i] \in DailyKeys(stories)
            /\ Final(stories, order[i]) => builder'.out[i].final
  BY <1>11, <1>12, Zenon
<1> QED
  BY <1>8, <1>9, <1>13, <1>14

\* What a first build or a rebuild is about to write.
LEMMA FreshIs ==
  ASSUME NightType, Fresh
  PROVE  /\ builder'.pc = "rewrite" /\ builder'.out \in Seq(Row)
         /\ \A i \in 1 .. Len(builder'.out) : builder'.out[i].by = "backfill"
<1>1. PICK order \in Listings(<<>>, DOMAIN builder.rows) :
        builder' = [pc |-> "rewrite", out |-> [i \in DOMAIN order |-> builder.rows[order[i]]]]
  BY DEF Fresh
<1>2. /\ DOMAIN builder.rows \in SUBSET Key
      /\ \A k \in DOMAIN builder.rows : builder.rows[k] \in Row /\ builder.rows[k].by = "backfill"
  BY DEF NightType, Building, Fresh, NoBuild
<1>3. PICK n \in Nat : Lists(order, n, DOMAIN builder.rows)
  BY <1>2, ListingIs
<1>4. order \in [1 .. n -> DOMAIN builder.rows]
  BY <1>3 DEF Lists
<1>5. \A i \in 1 .. n : builder.rows[order[i]] \in Row /\ builder.rows[order[i]].by = "backfill"
  BY <1>2, <1>4
<1>6. builder'.pc = "rewrite" /\ builder'.out = [i \in 1 .. n |-> builder.rows[order[i]]]
  BY <1>1, <1>4
<1> QED
  BY <1>5, <1>6

\* What is left of what the builder writes, whole or cut short by a death.
LEMMA WrittenIs ==
  ASSUME NightType, WriteStore \/ BuilderDies, stories' # stories
  PROVE  /\ builder.pc \in {"write", "rewrite"} /\ builder.out \in Seq(Row)
         /\ stories' \in Seq(Row) /\ Len(stories') <= Len(builder.out)
         /\ \A i \in 1 .. Len(stories') : stories'[i] = builder.out[i]
<1>1. builder.pc \in {"write", "rewrite"}
  BY DEF WriteStore, BuilderDies
<1>2. builder.out \in Seq(Row)
  BY <1>1 DEF NightType, Building, NoBuild
<1>3. CASE WriteStore
  <2>1. stories' = builder.out
    BY <1>3 DEF WriteStore
  <2> QED
    BY <1>1, <1>2, <2>1
<1>4. CASE BuilderDies
  <2>1. PICK n \in 0 .. Len(builder.out) - 1 : stories' = SubSeq(builder.out, 1, n)
    BY <1>4 DEF BuilderDies
  <2>2. /\ SubSeq(builder.out, 1, n) \in Seq(Row) /\ Len(SubSeq(builder.out, 1, n)) = n
        /\ \A i \in 1 .. n : SubSeq(builder.out, 1, n)[i] = builder.out[i]
    BY <1>2
  <2>3. n <= Len(builder.out)
    BY <1>2
  <2> QED
    BY <1>1, <1>2, <2>1, <2>2, <2>3
<1> QED
  BY <1>3, <1>4

\* The runs of the lab, when one of them moves.
LabType == DOMAIN lab = Pid
             /\ \A p \in Pid : lab[p] = Down \/ (lab[p] \in Running /\ lab[p].day \in 1 .. when.day)

LEMMA OneRunMoves ==
  ASSUME NightType, NEW p \in Pid, NEW run, lab' = [lab EXCEPT ![p] = run], when' = when,
         run = Down \/ (run \in Running /\ run.day \in 1 .. when.day)
  PROVE  LabType'
  BY DEF NightType, LabType

LEMMA GoesTo ==
  ASSUME NightType, NEW p \in Pid, NEW pc \in {"lock", "stages", "names", "append", "report"},
         lab[p] # Down, To(p, pc), when' = when
  PROVE  LabType' /\ lab'[p].pc = pc /\ lab'[p].keys = lab[p].keys
         /\ \A q \in Pid \ {p} : lab'[q] = lab[q]
<1>1. lab[p] \in Running /\ lab[p].day \in 1 .. when.day
  BY DEF NightType
<1> DEFINE run == [lab[p] EXCEPT !.pc = pc]
<1>2. run \in Running /\ run.day = lab[p].day /\ run.pc = pc /\ run.keys = lab[p].keys
  BY <1>1 DEF Running
<1>3. lab' = [lab EXCEPT ![p] = run]
  BY DEF To
<1> HIDE DEF run
<1>4. LabType'
  BY <1>1, <1>2, <1>3, OneRunMoves
<1> QED
  BY <1>2, <1>3, <1>4 DEF NightType

\* What a step of a run does to the lab and to the lock.
LEMMA RunMoves ==
  ASSUME NightInv, NEW p \in Pid, OLStep(p)
  PROVE  /\ LabType' /\ when' = when
         /\ \A q \in Pid \ {p} : lab'[q] = lab[q]
         /\ lab'[p].pc = "append" => /\ UNCHANGED stories
                                     /\ lab'[p].keys \cap KeysOf(stories) = {}
         /\ lab'[p].pc \in {"stages", "names", "append", "report"} => lock' = p
         /\ lock' # lock => (lock' = p /\ ~HeldByOther(p)) \/ lock = p
<1> USE DEF NightInv
<1>1. CASE Start(p)
  <2>1. PICK d \in 1 .. when.day : lab' = [lab EXCEPT ![p] = [pc |-> "lock", day |-> d, keys |-> {}]]
    BY <1>1 DEF Start
  <2> DEFINE run == [pc |-> "lock", day |-> d, keys |-> {}]
  <2>2. run \in Running /\ run.day \in 1 .. when.day /\ run.pc = "lock"
    BY DEF Running, NightType
  <2> HIDE DEF run
  <2>3. lab' = [lab EXCEPT ![p] = run] /\ when' = when /\ lock' = lock
    BY <1>1, <2>1 DEF Start, run
  <2>4. LabType'
    BY <2>2, <2>3, OneRunMoves
  <2>5. lab'[p] = run /\ \A q \in Pid \ {p} : lab'[q] = lab[q]
    BY <2>3 DEF NightType
  <2> QED
    BY <2>2, <2>3, <2>4, <2>5
<1>2. CASE Refused(p) \/ Report(p) \/ LabDies(p)
  <2>1. lab' = [lab EXCEPT ![p] = Down] /\ when' = when
    BY <1>2 DEF Refused, Report, LabDies
  <2>2. LabType'
    BY <2>1, OneRunMoves
  <2>3. lab'[p] = Down /\ \A q \in Pid \ {p} : lab'[q] = lab[q]
    BY <2>1 DEF NightType
  <2>4. lock' # lock => lock = p
    BY <1>2 DEF Refused, Report, LabDies
  <2> QED
    BY <2>1, <2>2, <2>3, <2>4 DEF Down
<1>3. CASE Acquire(p)
  <2>1. lab[p] # Down /\ To(p, "stages") /\ when' = when /\ lock' = p /\ ~HeldByOther(p)
    BY <1>3 DEF Acquire, Down
  <2> QED
    BY <2>1, GoesTo
<1>4. CASE ModelStageSkipped(p)
  <2>1. lab[p] # Down /\ To(p, "report") /\ when' = when /\ lock' = lock /\ Working(p)
    BY <1>4 DEF ModelStageSkipped, Down, Working
  <2> QED
    BY <2>1, GoesTo DEF LockHeld
<1>5. CASE ModelStage(p)
  <2>1. lab[p] # Down /\ To(p, "names") /\ when' = when /\ lock' = lock /\ Working(p)
    BY <1>5 DEF ModelStage, Down, Working
  <2> QED
    BY <2>1, GoesTo DEF LockHeld
<1>6. CASE ReadNames(p)
  <2> DEFINE asked == Unstored(lab[p].day)
             next  == IF asked = {} THEN "report" ELSE "append"
             run   == [lab[p] EXCEPT !.keys = asked, !.pc = next]
  <2>1. /\ lab[p] \in Running /\ lab[p].day \in 1 .. when.day /\ when.day \in 1 .. Lab_Days
        /\ Working(p)
    BY <1>6 DEF ReadNames, NightType, Down, Working
  <2>2. asked \in SUBSET Key /\ asked \cap KeysOf(stories) = {}
    <3>1. lab[p].day \in 1 .. Lab_Days
      BY <2>1
    <3> QED
      BY <3>1 DEF Unstored
  <2>3. lab' = [lab EXCEPT ![p] = run] /\ when' = when /\ lock' = lock /\ UNCHANGED stories
    BY <1>6 DEF ReadNames, cmVars
  <2> HIDE DEF asked
  <2>4. next \in {"report", "append"}
    OBVIOUS
  <2> HIDE DEF next
  <2>5. run \in Running /\ run.day = lab[p].day /\ run.keys = asked /\ run.pc = next
    BY <2>1, <2>2, <2>4 DEF Running
  <2> HIDE DEF run
  <2>6. LabType'
    BY <2>1, <2>3, <2>5, OneRunMoves
  <2>7. lab'[p] = run /\ \A q \in Pid \ {p} : lab'[q] = lab[q]
    BY <2>3 DEF NightType
  <2> QED
    BY <2>1, <2>2, <2>3, <2>5, <2>6, <2>7 DEF LockHeld
<1>7. CASE AppendStories(p) \/ JobRaises(p)
  <2> DEFINE run == [lab[p] EXCEPT !.keys = {}, !.pc = "report"]
  <2>1. lab[p] \in Running /\ lab[p].day \in 1 .. when.day /\ Working(p)
    BY <1>7 DEF AppendStories, JobRaises, NightType, Down, Working
  <2>2. lab' = [lab EXCEPT ![p] = run] /\ when' = when /\ lock' = lock
    BY <1>7 DEF AppendStories, JobRaises
  <2>3. run \in Running /\ run.day = lab[p].day /\ run.pc = "report"
    BY <2>1 DEF Running
  <2> HIDE DEF run
  <2>4. LabType'
    BY <2>1, <2>2, <2>3, OneRunMoves
  <2>5. lab'[p] = run /\ \A q \in Pid \ {p} : lab'[q] = lab[q]
    BY <2>2 DEF NightType
  <2> QED
    BY <2>1, <2>2, <2>3, <2>4, <2>5 DEF LockHeld
<1> QED
  BY <1>1, <1>2, <1>3, <1>4, <1>5, <1>6, <1>7 DEF OLStep

\* A run of the lab keeps the lock exclusive.
LEMMA RunKeepsLock == ASSUME NightInv, NEW p \in Pid, OLStep(p) PROVE LockHeld'
<1> SUFFICES ASSUME NEW q \in Pid, Working(q)' PROVE lock' = q
  BY DEF LockHeld
<1>1. CASE q = p
  BY <1>1, RunMoves DEF Working
<1>2. CASE q # p
  <2>1. lab'[q] = lab[q]
    BY <1>2, RunMoves
  <2>2. Working(q) /\ lab[q] # Down
    BY <2>1 DEF Working, Down
  <2>3. lock = q /\ lock # 0
    BY <2>2 DEF NightInv, LockHeld
  <2>4. HeldByOther(p)
    BY <1>2, <2>2, <2>3 DEF HeldByOther
  <2> QED
    BY <1>2, <2>3, <2>4, RunMoves
<1> QED
  BY <1>1, <1>2

LEMMA DailyIs ==
  ASSUME NEW rows, NEW k
  PROVE  /\ k \in DailyKeys(rows) <=> \E i \in 1 .. Len(rows) : rows[i].by = "daily" /\ rows[i].key = k
         /\ k \in DailyKeys(rows) => k \in KeysOf(rows)
  BY DEF DailyKeys, Daily, KeysOf

\* What the lab appends is new to the store, and is nobody's last word on returns.
LEMMA LabAppends ==
  ASSUME NightInv, NEW p \in Pid, AppendStories(p)
  PROVE  /\ stories' \in Seq(Row) /\ Single(stories')
         /\ DailyKeys(stories) \subseteq DailyKeys(stories')
         /\ \A k \in Key : Final(stories', k) => Final(stories, k)
<1> DEFINE old == Len(stories)
<1>1. PICK n \in Nat : \E order \in [1 .. n -> lab[p].keys] :
           /\ \A i, j \in 1 .. n : order[i] = order[j] => i = j
           /\ stories' \in Seq(Row) /\ Len(stories') = Len(stories) + n
           /\ \A i \in 1 .. Len(stories) : stories'[i] = stories[i]
           /\ \A k \in 1 .. n :
                stories'[Len(stories) + k]
                  = [key |-> order[k], tagged |-> TRUE, final |-> FALSE, by |-> "daily"]
  BY AppendedIs DEF NightInv
<1>2. PICK order \in [1 .. n -> lab[p].keys] :
        /\ \A i, j \in 1 .. n : order[i] = order[j] => i = j
        /\ stories' \in Seq(Row) /\ Len(stories') = Len(stories) + n
        /\ \A i \in 1 .. Len(stories) : stories'[i] = stories[i]
        /\ \A k \in 1 .. n :
             stories'[Len(stories) + k]
               = [key |-> order[k], tagged |-> TRUE, final |-> FALSE, by |-> "daily"]
  BY <1>1
<1>3. stories \in Seq(Row) /\ old \in Nat
  BY DEF NightInv, NightType
<1>4. \A k \in 1 .. n : /\ stories'[old + k].key = order[k] /\ stories'[old + k].by = "daily"
                        /\ ~stories'[old + k].final
  <2> TAKE k \in 1 .. n
  <2>1. stories'[old + k] = [key |-> order[k], tagged |-> TRUE, final |-> FALSE, by |-> "daily"]
    BY <1>2
  <2> QED
    BY <2>1
<1>5. \A k \in 1 .. n : order[k] \notin DailyKeys(stories)
  <2>1. lab[p].pc = "append"
    BY DEF AppendStories
  <2> QED
    BY <1>2, <2>1 DEF NightInv, AskedNew
<1>6. \A i \in 1 .. Len(stories') : i \in 1 .. old \/ \E k \in 1 .. n : i = old + k
  <2> SUFFICES ASSUME NEW i \in 1 .. Len(stories'), i \notin 1 .. old
               PROVE  \E k \in 1 .. n : i = old + k
    OBVIOUS
  <2>1. i - old \in 1 .. n /\ i = old + (i - old)
    BY <1>2, <1>3
  <2> QED
    BY <2>1
<1> HIDE DEF old
<1>7. Single(stories')
  <2> SUFFICES ASSUME NEW i \in 1 .. Len(stories'), NEW j \in 1 .. Len(stories'),
                      stories'[i].by = "daily", stories'[j].by = "daily",
                      stories'[i].key = stories'[j].key
               PROVE  i = j
    BY DEF Single, Daily
  <2>1. CASE i \in 1 .. old /\ j \in 1 .. old
    BY <1>2, <2>1 DEF NightInv, OneEach, Single, Daily, old
  <2>2. ASSUME NEW a \in 1 .. old, NEW k \in 1 .. n, stories'[a].by = "daily",
               stories'[a].key = stories'[old + k].key
        PROVE  FALSE
    <3>1. stories[a].by = "daily" /\ stories[a].key = order[k]
      BY <1>2, <1>4, <2>2 DEF old
    <3> QED
      BY <1>5, <3>1, DailyIs DEF old
  <2>3. CASE i \notin 1 .. old /\ j \notin 1 .. old
    <3>1. PICK k \in 1 .. n : i = old + k
      BY <1>6, <2>3
    <3>2. PICK l \in 1 .. n : j = old + l
      BY <1>6, <2>3
    <3>3. order[k] = order[l]
      BY <1>4, <3>1, <3>2
    <3>4. k = l
      BY <1>2, <3>3
    <3> QED
      BY <3>1, <3>2, <3>4
  <2> QED
    BY <1>6, <2>1, <2>2, <2>3
<1>8. DailyKeys(stories) \subseteq DailyKeys(stories')
  <2> SUFFICES ASSUME NEW k \in DailyKeys(stories) PROVE k \in DailyKeys(stories')
    OBVIOUS
  <2>1. PICK i \in 1 .. old : stories[i].by = "daily" /\ stories[i].key = k
    BY DailyIs DEF old
  <2>2. i \in 1 .. Len(stories') /\ stories'[i] = stories[i]
    BY <1>2, <1>3, <2>1 DEF old
  <2> QED
    BY <2>1, <2>2, DailyIs
<1>9. ASSUME NEW k \in Key, Final(stories', k) PROVE Final(stories, k)
  <2>1. PICK m \in 1 .. Len(stories') :
          /\ stories'[m].key = k /\ LastRow(stories', k) = stories'[m]
          /\ \A i \in 1 .. Len(stories') : stories'[i].key = k => i <= m
    BY <1>2, <1>9, LastRowIs, ZenonT(60) DEF Final
  <2>2. stories'[m].final
    BY <1>9, <2>1 DEF Final
  <2>3. m \in 1 .. old
    BY <1>4, <1>6, <2>2
  <2>4. stories[m].key = k /\ stories[m].final /\ k \in KeysOf(stories)
    BY <1>2, <2>1, <2>2, <2>3 DEF KeysOf, old
  <2>5. PICK l \in 1 .. old :
          /\ stories[l].key = k /\ LastRow(stories, k) = stories[l]
          /\ \A i \in 1 .. old : stories[i].key = k => i <= l
    BY <1>3, <2>4, LastRowIs DEF old
  <2>6. l = m
    <3>1. l \in 1 .. Len(stories') /\ stories'[l].key = k
      BY <1>2, <1>3, <2>5 DEF old
    <3>2. l <= m /\ m <= l
      BY <2>1, <2>3, <2>4, <2>5, <3>1
    <3> QED
      BY <3>2
  <2> QED
    BY <2>4, <2>5, <2>6 DEF Final
<1> QED
  BY <1>2, <1>7, <1>8, <1>9

\* What stays of what was to be written.
LEMMA PartOfWritten ==
  ASSUME NightInv, WriteStore \/ BuilderDies, stories' # stories
  PROVE  stories' \in Seq(Row) /\ Single(stories') /\ DailyKeys(stories') \subseteq DailyKeys(stories)
<1>1. /\ builder.pc \in {"write", "rewrite"} /\ builder.out \in Seq(Row)
      /\ stories' \in Seq(Row) /\ Len(stories') <= Len(builder.out)
      /\ \A i \in 1 .. Len(stories') : stories'[i] = builder.out[i]
  BY WrittenIs DEF NightInv
<1>2. \A i \in 1 .. Len(stories') : i \in 1 .. Len(builder.out)
  BY <1>1
<1>3. Single(builder.out) /\ DailyKeys(builder.out) \subseteq DailyKeys(stories)
  BY <1>1 DEF NightInv, OneEach, NoneBroughtBack
<1>4. Single(stories')
  BY <1>1, <1>2, <1>3 DEF Single, Daily
<1>5. DailyKeys(stories') \subseteq DailyKeys(builder.out)
  <2> SUFFICES ASSUME NEW k \in DailyKeys(stories') PROVE k \in DailyKeys(builder.out)
    OBVIOUS
  <2>1. PICK i \in 1 .. Len(stories') : stories'[i].by = "daily" /\ stories'[i].key = k
    BY DailyIs
  <2> QED
    BY <1>1, <1>2, <2>1, DailyIs, SMTT(30)
<1> QED
  BY <1>1, <1>3, <1>4, <1>5

\* A merge and a fresh build hold each row of the lab once, and the merge
\* every return.
LEMMA MergeKeeps ==
  ASSUME NightInv, Merge
  PROVE  /\ builder'.pc = "write" /\ builder'.out \in Seq(Row) /\ Single(builder'.out)
         /\ DailyKeys(builder'.out) \subseteq DailyKeys(stories)
         /\ \A k \in Key : Final(stories, k) => Final(builder'.out, k)
<1>1. PICK n \in Nat : \E order \in [1 .. n -> Key] :
           /\ \A i, j \in 1 .. n : order[i] = order[j] => i = j
           /\ \A k \in KeysOf(stories) : \E i \in 1 .. n : order[i] = k
           /\ builder'.pc = "write" /\ builder'.out \in Seq(Row) /\ Len(builder'.out) = n
           /\ \A i \in 1 .. n :
                /\ builder'.out[i].key = order[i]
                /\ builder'.out[i].by = "daily" => order[i] \in DailyKeys(stories)
                /\ Final(stories, order[i]) => builder'.out[i].final
  BY MergedIs DEF NightInv
<1>2. PICK order \in [1 .. n -> Key] :
        /\ \A i, j \in 1 .. n : order[i] = order[j] => i = j
        /\ \A k \in KeysOf(stories) : \E i \in 1 .. n : order[i] = k
        /\ builder'.pc = "write" /\ builder'.out \in Seq(Row) /\ Len(builder'.out) = n
        /\ \A i \in 1 .. n :
             /\ builder'.out[i].key = order[i]
             /\ builder'.out[i].by = "daily" => order[i] \in DailyKeys(stories)
             /\ Final(stories, order[i]) => builder'.out[i].final
  BY <1>1
<1>3. Single(builder'.out)
  BY <1>2 DEF Single
<1>4. DailyKeys(builder'.out) \subseteq DailyKeys(stories)
  <2> SUFFICES ASSUME NEW k \in DailyKeys(builder'.out) PROVE k \in DailyKeys(stories)
    OBVIOUS
  <2>1. PICK i \in 1 .. n : builder'.out[i].by = "daily" /\ builder'.out[i].key = k
    BY <1>2, DailyIs
  <2> QED
    BY <1>2, <2>1
<1>5. ASSUME NEW k \in Key, Final(stories, k) PROVE Final(builder'.out, k)
  <2>1. PICK i \in 1 .. n : order[i] = k
    BY <1>2, <1>5 DEF Final
  <2>2. builder'.out[i].final /\ builder'.out[i].key = k /\ k \in KeysOf(builder'.out)
    BY <1>2, <1>5, <2>1 DEF KeysOf
  <2>3. PICK m \in 1 .. n : builder'.out[m].key = k /\ LastRow(builder'.out, k) = builder'.out[m]
    <3>1. PICK out \in Seq(Row) : out = builder'.out
      BY <1>2
    <3>2. k \in KeysOf(out)
      BY <2>2, <3>1
    <3>3. \E m \in 1 .. Len(out) :
            /\ out[m].key = k /\ LastRow(out, k) = out[m]
            /\ \A j \in 1 .. Len(out) : out[j].key = k => j <= m
      BY <3>2, LastRowIs
    <3> QED
      BY <1>2, <3>1, <3>3
  <2>4. m = i
    BY <1>2, <2>1, <2>3
  <2> QED
    BY <2>2, <2>3, <2>4 DEF Final
<1> QED
  BY <1>2, <1>3, <1>4, <1>5

LEMMA FreshKeeps ==
  ASSUME NightInv, Fresh
  PROVE  /\ builder'.pc = "rewrite" /\ builder'.out \in Seq(Row)
         /\ Single(builder'.out) /\ DailyKeys(builder'.out) = {}
  BY FreshIs DEF NightInv, Single, Daily, DailyKeys

\* What the store and the builder promise, in terms of the two of them.
StoreType == stories \in Seq(Row) /\ llm \in SUBSET Key /\ harvest \in SUBSET Key /\ builds \in Nat
               /\ Building
StoreInv  == StoreType /\ OneEach /\ NoneBroughtBack /\ KeepsFinal

\* The builder, the harvest and the tags keep it, and lose rows of the lab at most.
LEMMA BuilderKeeps ==
  ASSUME NightInv, CMNext
  PROVE  StoreInv' /\ DailyKeys(stories') \subseteq DailyKeys(stories)
<1> USE DEF NightInv, NightType
<1>1. CASE Harvested \/ TagHeadlines
  BY <1>1 DEF Harvested, TagHeadlines, StoreInv, StoreType, Building, OneEach, NoneBroughtBack, KeepsFinal
<1>2. CASE BuildRows
  <2>1. PICK cached \in SUBSET harvest, rebuild \in BOOLEAN :
       builder' = [pc |-> IF rebuild \/ stories = <<>> THEN "fresh" ELSE "merge",
                   rows |-> [k \in harvest |-> [key |-> k, tagged |-> k \in llm,
                                                final |-> k \in cached, by |-> "backfill"]]]
    BY <1>2 DEF BuildRows
  <2>2. /\ builder'.pc \in {"fresh", "merge"}
        /\ builder'.rows = [k \in harvest |-> [key |-> k, tagged |-> k \in llm,
                                               final |-> k \in cached, by |-> "backfill"]]
    BY <2>1
  <2>3. ASSUME NEW k \in harvest
        PROVE  /\ builder'.rows[k] \in Row
               /\ builder'.rows[k].key = k /\ builder'.rows[k].by = "backfill"
    <3>1. (k \in llm) \in BOOLEAN /\ (k \in cached) \in BOOLEAN
      OBVIOUS
    <3>2. builder'.rows[k] = [key |-> k, tagged |-> k \in llm, final |-> k \in cached, by |-> "backfill"]
      BY <2>2, Zenon
    <3>3. PICK t \in BOOLEAN, f \in BOOLEAN :
            builder'.rows[k] = [key |-> k, tagged |-> t, final |-> f, by |-> "backfill"]
      BY <3>1, <3>2, Zenon
    <3>4. k \in Key
      OBVIOUS
    <3> QED
      BY <3>3, <3>4 DEF Row
  <2>4. DOMAIN builder'.rows = harvest
    BY <2>2
  <2>5. Building'
    BY <2>2, <2>3, <2>4 DEF Building
  <2>6. UNCHANGED <<stories, llm, harvest>> /\ builds' \in Nat
    BY <1>2 DEF BuildRows
  <2>7. OneEach' /\ NoneBroughtBack' /\ KeepsFinal'
    BY <2>2, <2>6 DEF OneEach, NoneBroughtBack, KeepsFinal
  <2> QED
    BY <2>5, <2>6, <2>7 DEF StoreInv, StoreType
<1>3. CASE Merge
  <2>1. UNCHANGED <<stories, llm, harvest, builds>>
    BY <1>3 DEF Merge
  <2> QED
    BY <1>3, <2>1, MergeKeeps DEF StoreInv, StoreType, Building, OneEach, NoneBroughtBack, KeepsFinal
<1>4. CASE Fresh
  <2>1. UNCHANGED <<stories, llm, harvest, builds>>
    BY <1>4 DEF Fresh
  <2> QED
    BY <1>4, <2>1, FreshKeeps DEF StoreInv, StoreType, Building, OneEach, NoneBroughtBack, KeepsFinal
<1>5. CASE RebuildIndex
  BY <1>5 DEF RebuildIndex, StoreInv, StoreType, Building, OneEach, NoneBroughtBack, KeepsFinal, NoBuild
<1>6. CASE WriteStore \/ BuilderDies
  <2>1. /\ UNCHANGED <<llm, harvest, builds>>
        /\ builder' = NoBuild \/ builder' = [pc |-> "index"]
    BY <1>6 DEF WriteStore, BuilderDies
  <2>2. stories' \in Seq(Row) /\ Single(stories') /\ DailyKeys(stories') \subseteq DailyKeys(stories)
    BY <1>6, PartOfWritten DEF OneEach
  <2> QED
    BY <2>1, <2>2 DEF StoreInv, StoreType, Building, OneEach, NoneBroughtBack, KeepsFinal, NoBuild
<1> QED
  BY <1>1, <1>2, <1>3, <1>4, <1>5, <1>6 DEF CMNext

\* So does the lab.
LEMMA RunKeepsStore ==
  ASSUME NightInv, NEW p \in Pid, OLStep(p)
  PROVE  StoreInv'
<1> USE DEF NightInv, NightType
<1>1. CASE AppendStories(p)
  <2>1. UNCHANGED <<llm, harvest, builder, builds>>
    BY <1>1 DEF AppendStories
  <2>2. /\ stories' \in Seq(Row) /\ Single(stories')
        /\ DailyKeys(stories) \subseteq DailyKeys(stories')
        /\ \A k \in Key : Final(stories', k) => Final(stories, k)
    BY <1>1, LabAppends
  <2> QED
    BY <2>1, <2>2 DEF StoreInv, StoreType, Building, OneEach, NoneBroughtBack, KeepsFinal
<1>2. CASE UNCHANGED cmVars
  BY <1>2 DEF cmVars, StoreInv, StoreType, Building, OneEach, NoneBroughtBack, KeepsFinal
<1> QED
  BY <1>1, <1>2 DEF OLStep, Start, Refused, Acquire, ModelStageSkipped, ModelStage, ReadNames,
                    JobRaises, Report, LabDies

LEMMA RunKeepsAsked ==
  ASSUME NightInv, NEW p \in Pid, OLStep(p)
  PROVE  AskedNew'
<1> SUFFICES ASSUME NEW q \in Pid, lab'[q].pc = "append"
             PROVE  lab'[q].keys \cap DailyKeys(stories') = {}
  BY DEF AskedNew
<1>1. CASE q = p
  BY <1>1, RunMoves, DailyIs
<1>2. CASE q # p
  <2>1. lab'[q] = lab[q]
    BY <1>2, RunMoves
  <2>2. lab[q].keys \cap DailyKeys(stories) = {} /\ lock = q
    BY <2>1 DEF NightInv, AskedNew, LockHeld, Working
  <2>3. ~AppendStories(p)
    BY <1>2, <2>2 DEF NightInv, LockHeld, Working, AppendStories
  <2>4. stories' = stories
    BY <2>3 DEF OLStep, Start, Refused, Acquire, ModelStageSkipped, ModelStage, ReadNames,
                JobRaises, Report, LabDies, cmVars
  <2> QED
    BY <2>1, <2>2, <2>4
<1> QED
  BY <1>1, <1>2

LEMMA NightStep == NightInv /\ [NightNext]_<<cmVars, olVars>> => NightInv'
<1> SUFFICES ASSUME NightInv, [NightNext]_<<cmVars, olVars>> PROVE NightInv'
  OBVIOUS
<1>1. ASSUME NEW p \in Pid, OLStep(p) PROVE NightInv'
  <2>1. LabType' /\ when' = when
    BY <1>1, RunMoves
  <2>2. StoreInv' /\ LockHeld' /\ AskedNew'
    BY <1>1, RunKeepsStore, RunKeepsLock, RunKeepsAsked
  <2> QED
    BY <2>1, <2>2 DEF NightInv, NightType, LabType, StoreInv, StoreType
<1>2. CASE CMNext /\ UNCHANGED olVars
  <2>1. StoreInv' /\ DailyKeys(stories') \subseteq DailyKeys(stories)
    BY <1>2, BuilderKeeps
  <2> QED
    BY <1>2, <2>1 DEF NightInv, NightType, StoreInv, StoreType, LockHeld, Working, AskedNew, olVars
<1>3. CASE ClockMoves
  <2>1. UNCHANGED <<lab, lock>> /\ UNCHANGED cmVars
    BY <1>3 DEF ClockMoves
  <2>2. /\ when' \in [day : 1 .. Lab_Days, phase : {"session", "night"}]
        /\ when'.day \in Nat /\ when.day <= when'.day /\ when.day \in Nat
    <3>1. when \in [day : 1 .. Lab_Days, phase : {"session", "night"}]
      BY DEF NightInv, NightType
    <3>2. CASE when' = [when EXCEPT !.phase = "night"]
      BY <3>1, <3>2
    <3>3. CASE when.day < Lab_Days /\ when' = [day |-> when.day + 1, phase |-> "session"]
      BY <3>1, <3>3
    <3> QED
      BY <1>3, <3>2, <3>3 DEF ClockMoves
  <2>3. \A p \in Pid : lab[p] = Down \/ (lab[p] \in Running /\ lab[p].day \in 1 .. when'.day)
    BY <2>2 DEF NightInv, NightType
  <2> QED
    BY <2>1, <2>2, <2>3 DEF NightInv, NightType, Building, LockHeld, Working, OneEach,
                            NoneBroughtBack, AskedNew, KeepsFinal, cmVars
<1>4. CASE UNCHANGED <<cmVars, olVars>>
  BY <1>4 DEF NightInv, NightType, Building, LockHeld, Working, OneEach,
              NoneBroughtBack, AskedNew, KeepsFinal, cmVars, olVars
<1> QED
  BY <1>1, <1>2, <1>3, <1>4 DEF NightNext

LEMMA NightHolds == NightSpec => []NightInv
  BY NightInitial, NightStep, PTL DEF NightSpec

LEMMA AtMostOne ==
  ASSUME NEW S, \A i, j \in S : i = j
  PROVE  Cardinality(S) <= 1
<1>1. CASE S = {}
  <2>1. Cardinality(S) = 0
    BY <1>1, FS_EmptySet
  <2> QED
    BY <2>1
<1>2. CASE S # {}
  <2>1. PICK i \in S : TRUE
    BY <1>2
  <2>2. S = {i}
    BY <2>1
  <2>3. Cardinality({i}) = 1
    BY FS_Singleton
  <2> QED
    BY <2>2, <2>3
<1> QED
  BY <1>1, <1>2

\* the rows of the lab for a key
RowsOf(rows, k) == {i \in 1 .. Len(rows) : rows[i].key = k /\ rows[i].by = "daily"}

(* A name-day has at most one row of the lab in the story store, for any   *)
(* number of processes of the lab, of nights and of runs of the builder,   *)
(* killed anywhere.                                                        *)
THEOREM NamesAreStoredOnce == NightSpec => []StoredOnce
<1>1. NightInv => StoredOnce
  <2> SUFFICES ASSUME NightInv, NEW k \in Key
               PROVE  Cardinality(RowsOf(stories, k)) <= 1
    BY DEF StoredOnce, RowsOf
  <2>1. \A i, j \in RowsOf(stories, k) : i = j
    BY DEF NightInv, OneEach, Single, Daily, RowsOf
  <2> QED
    BY <2>1, AtMostOne
<1> QED
  BY <1>1, NightHolds, PTL

(* What heals the store loses no return, whatever the lab appended and the *)
(* caches, the tags and the harvest became since it was read.              *)
THEOREM ReturnsStay == NightSpec => FinalStays
<1> DEFINE Stays == builder.pc = "write" /\ builder'.pc = "index" =>
                      \A k \in Key : Final(stories, k) => Final(stories', k)
<1>1. NightInv /\ [NightNext]_<<cmVars, olVars>> => [Stays]_cmVars
  <2> SUFFICES ASSUME NightInv, NightNext, builder.pc = "write", builder'.pc = "index"
               PROVE  stories' = builder.out
    BY DEF NightInv, KeepsFinal, olVars
  <2>1. WriteStore
    <3>1. CASE \E p \in Pid : OLStep(p)
      BY <3>1 DEF OLStep, Start, Refused, Acquire, ModelStageSkipped, ModelStage, ReadNames,
                  AppendStories, JobRaises, Report, LabDies, cmVars
    <3>2. CASE ClockMoves
      BY <3>2 DEF ClockMoves, cmVars
    <3>3. CASE CMNext
      BY <3>3 DEF CMNext, Harvested, TagHeadlines, BuildRows, Merge, Fresh, RebuildIndex,
                  BuilderDies, NoBuild
    <3> QED
      BY <3>1, <3>2, <3>3 DEF NightNext
  <2> QED
    BY <2>1 DEF WriteStore
<1> QED
  BY <1>1, NightHolds, PTL DEF NightSpec, FinalStays

-----------------------------------------------------------------------------
(* The main shadow's grader.                                               *)

BookedRow == [pid : Nat, cohort : {k.cohort : k \in EntryKind},
              halted : {k.halted : k \in EntryKind}, expiry : Nat]
LeftRow == [pid : Nat, form : {k.form : k \in ShadowKind}, stale : {k.stale : k \in ShadowKind},
            r : {k.r : k \in ShadowKind}, lanes : {k.lanes : k \in ShadowKind}]

\* a position is the row that opened it, and an exit row is a position's
LedgerInv ==
  /\ night \in Nat /\ booked \in Seq(BookedRow) /\ left \in Seq(LeftRow)
  /\ \A i \in 1 .. Len(booked) : booked[i].pid = i
  /\ \A k \in 1 .. Len(left) : left[k].pid \in 1 .. Len(booked)

LEMMA LedgerStep == LedgerInv /\ [SGNext]_sgVars => LedgerInv'
<1> SUFFICES ASSUME LedgerInv, [SGNext]_sgVars PROVE LedgerInv'
  OBVIOUS
<1> USE GraderAssumption DEF GraderAssumption
<1>1. CASE Book
  <2>1. PICK k \in EntryKind, e \in night .. LastNight :
          booked' = Append(booked, [pid |-> Len(booked) + 1, cohort |-> k.cohort,
                                    halted |-> k.halted, expiry |-> e])
    BY <1>1 DEF Book
  <2> DEFINE row == [pid |-> Len(booked) + 1, cohort |-> k.cohort, halted |-> k.halted, expiry |-> e]
  <2>2. row \in BookedRow /\ row.pid = Len(booked) + 1
    BY DEF LedgerInv, BookedRow
  <2> HIDE DEF row
  <2>3. booked' = Append(booked, row)
    BY <2>1 DEF row
  <2> QED
    BY <1>1, <2>2, <2>3 DEF Book, LedgerInv
<1>2. CASE Leave
  <2>1. PICK i \in 1 .. Len(booked), k \in ShadowKind :
          left' = Append(left, [pid |-> booked[i].pid, form |-> k.form, stale |-> k.stale,
                                r |-> k.r, lanes |-> k.lanes])
    BY <1>2 DEF Leave
  <2> DEFINE row == [pid |-> booked[i].pid, form |-> k.form, stale |-> k.stale, r |-> k.r, lanes |-> k.lanes]
  <2>2. row \in LeftRow /\ row.pid = i
    BY DEF LedgerInv, LeftRow
  <2> HIDE DEF row
  <2>3. left' = Append(left, row)
    BY <2>1 DEF row
  <2> QED
    BY <1>2, <2>2, <2>3, SMTT(30) DEF Leave, LedgerInv
<1>3. CASE Later
  BY <1>3 DEF Later, LedgerInv
<1>4. CASE UNCHANGED sgVars
  BY <1>4 DEF sgVars, LedgerInv
<1> QED
  BY <1>1, <1>2, <1>3, <1>4 DEF SGNext

\* Of the rows of a position that can be read exactly one is its first.
LEMMA OneFirst ==
  ASSUME LedgerInv, NEW p, NEW f \in 1 .. Len(left), left[f].pid = p, ~Malformed(left[f])
  PROVE  \E g \in 1 .. Len(left) :
           /\ left[g].pid = p /\ FirstRead(g)
           /\ \A j \in 1 .. Len(left) : left[j].pid = p /\ FirstRead(j) => j = g
<1> DEFINE S == {k \in 1 .. Len(left) : left[k].pid = p /\ ~Malformed(left[k])}
           R == {ss \in Nat \X Nat : ss[1] < ss[2]}
<1>1. IsWellFoundedOn(R, Nat)
  BY NatLessThanWellFounded DEF OpToRel
<1>2. S \in SUBSET Nat /\ f \in S
  BY DEF LedgerInv
<1>3. \A j \in S, k \in S : j < k => <<j, k>> \in R
  BY <1>2
<1> HIDE DEF R, S
<1>4. PICK g \in S : \A n \in S : ~(<<n, g>> \in R)
  BY <1>1, <1>2, WFMin
<1>5. \A n \in S : ~(n < g)
  BY <1>3, <1>4
<1>6. FirstRead(g)
  BY <1>2, <1>5 DEF S, FirstRead, LedgerInv
<1>7. ASSUME NEW j \in 1 .. Len(left), left[j].pid = p, FirstRead(j) PROVE j = g
  <2>1. j \in S
    BY <1>7 DEF S, FirstRead
  <2>2. ~(j < g)
    BY <1>5, <2>1
  <2>3. ~(g < j)
    BY <1>2, <1>7 DEF S, FirstRead, LedgerInv
  <2> QED
    BY <1>2, <2>1, <2>2, <2>3
<1> QED
  BY <1>6, <1>7 DEF S

LEMMA EntryIs ==
  ASSUME LedgerInv, NEW p \in 1 .. Len(booked)
  PROVE  EntryOf(p) = booked[p]
<1> DEFINE c == CHOOSE i \in 1 .. Len(booked) : booked[i].pid = p
<1>1. booked[p].pid = p /\ \A i \in 1 .. Len(booked) : booked[i].pid = i
  BY DEF LedgerInv
<1>2. c \in 1 .. Len(booked) /\ booked[c].pid = p
  BY <1>1, Zenon
<1>3. EntryOf(p) = booked[c]
  BY Zenon DEF EntryOf
<1> HIDE DEF c
<1> QED
  BY <1>1, <1>2, <1>3, Zenon

\* a position's rows, and those of them that are pooled
RowsIn(p)   == {k \in 1 .. Len(left) : left[k].pid = p}
PooledOf(p) == RowsIn(p) \cap Pooled

LEMMA Accounted ==
  ASSUME LedgerInv, NEW p \in 1 .. Len(booked),
         NEW f \in 1 .. Len(left), left[f].pid = p, ~Malformed(left[f])
  PROVE  \/ Cardinality(PooledOf(p)) = 1 /\ p \notin HaltedExits \cup IdentityViolations
         \/ PooledOf(p) = {} /\ p \in HaltedExits \cup IdentityViolations
<1>1. PICK g \in 1 .. Len(left) :
           /\ left[g].pid = p /\ FirstRead(g)
           /\ \A j \in 1 .. Len(left) : left[j].pid = p /\ FirstRead(j) => j = g
  BY OneFirst
<1>2. EntryOf(left[g].pid) = booked[p]
  BY <1>1, EntryIs
<1>3. CASE booked[p].halted
  <2>1. EntryOf(left[g].pid).halted
    BY <1>2, <1>3
  <2>2. p \in HaltedExits
    BY <1>1, <2>1 DEF HaltedExits
  <2>3. PooledOf(p) = {}
    BY <1>1, <2>1 DEF RowsIn, PooledOf, Pooled
  <2> QED
    BY <2>2, <2>3
<1>4. CASE ~booked[p].halted /\ left[g].form = "identity"
  <2>1. ~EntryOf(left[g].pid).halted
    BY <1>2, <1>4
  <2>2. p \in IdentityViolations
    BY <1>1, <1>4, <2>1 DEF IdentityViolations
  <2>3. PooledOf(p) = {}
    BY <1>1, <1>4 DEF RowsIn, PooledOf, Pooled
  <2> QED
    BY <2>2, <2>3
<1>5. CASE ~booked[p].halted /\ left[g].form # "identity"
  <2>1. ~EntryOf(left[g].pid).halted
    BY <1>2, <1>5
  <2>2. PooledOf(p) = {g}
    BY <1>1, <1>5, <2>1 DEF RowsIn, PooledOf, Pooled
  <2>3. Cardinality({g}) = 1
    BY FS_Singleton
  <2>4. p \notin HaltedExits
    BY <1>1, <2>1 DEF HaltedExits
  <2>5. p \notin IdentityViolations
    BY <1>1, <1>5 DEF IdentityViolations
  <2> QED
    BY <2>2, <2>3, <2>4, <2>5
<1> QED
  BY <1>3, <1>4, <1>5

\* what EveryTradeOnce says of one position
CountsOnce(i) ==
  LET e      == booked[i]
      rows   == {k \in 1 .. Len(left) : left[k].pid = e.pid}
      pooled == rows \cap Pooled
  IN  \/ Open(e)
      \/ rows = {} /\ e.pid \in ExpiredUnexited
      \/ Cardinality(pooled) = 1 /\ e.pid \notin HaltedExits \cup IdentityViolations
      \/ pooled = {} /\ e.pid \in HaltedExits \cup IdentityViolations
      \/ rows # {} /\ pooled = {} /\ \A k \in rows : left[k].form = "malformed"

(* The grader drops no position in silence and counts none twice, whatever *)
(* rows the ledger holds and in whichever order they came.                 *)
THEOREM TradesCountOnce == SGSpec => []EveryTradeOnce
<1>1. SGInit => LedgerInv
  BY DEF SGInit, LedgerInv
<1>2. LedgerInv => EveryTradeOnce
  <2> SUFFICES ASSUME LedgerInv, NEW p \in 1 .. Len(booked) PROVE CountsOnce(p)
    BY Zenon DEF EveryTradeOnce, CountsOnce
  <2> SUFFICES \/ Open(booked[p])
               \/ RowsIn(p) = {} /\ p \in ExpiredUnexited
               \/ Cardinality(PooledOf(p)) = 1 /\ p \notin HaltedExits \cup IdentityViolations
               \/ PooledOf(p) = {} /\ p \in HaltedExits \cup IdentityViolations
               \/ RowsIn(p) # {} /\ PooledOf(p) = {} /\ \A k \in RowsIn(p) : Malformed(left[k])
    <3>1. booked[p].pid = p
      BY DEF LedgerInv
    <3> QED
      BY <3>1, Zenon DEF CountsOnce, PooledOf, RowsIn, Malformed
  <2>1. booked[p].pid = p
    BY DEF LedgerInv
  <2>2. CASE \A k \in 1 .. Len(left) : left[k].pid # p
    <3>1. CASE LiveStill(booked[p])
      BY <2>1, <2>2, <3>1 DEF LiveStill, Open
    <3>2. CASE ~LiveStill(booked[p])
      BY <2>1, <2>2, <3>2 DEF ExpiredUnexited, RowsIn
    <3> QED
      BY <3>1, <3>2
  <2>3. CASE \E f \in 1 .. Len(left) : left[f].pid = p /\ ~Malformed(left[f])
    BY <2>3, Accounted
  <2>4. CASE /\ \E k \in 1 .. Len(left) : left[k].pid = p
             /\ \A f \in 1 .. Len(left) : left[f].pid = p => Malformed(left[f])
    <3>1. PooledOf(p) = {}
      BY <2>4 DEF RowsIn, PooledOf, Pooled, FirstRead
    <3> QED
      BY <2>4, <3>1 DEF RowsIn
  <2> QED
    BY <2>2, <2>3, <2>4
<1> QED
  BY <1>1, <1>2, LedgerStep, PTL DEF SGSpec

-----------------------------------------------------------------------------
(* Sums, products and the wealth both graders keep.                        *)

HIDE DEF MemoryAssumption, NightAssumption

(* Induction along the places of a file, for a set of places instead of a  *)
(* predicate.                                                              *)
LEMMA AllPlaces ==
  ASSUME NEW n \in Nat, NEW S, 0 \in S, \A k \in 1 .. n : k - 1 \in S => k \in S
  PROVE  \A k \in 0 .. n : k \in S
<1> DEFINE R == {ss \in Nat \X Nat : ss[1] < ss[2]}
           T == {k \in 0 .. n : k \notin S}
<1>1. IsWellFoundedOn(R, Nat)
  BY NatLessThanWellFounded DEF OpToRel
<1>2. SUFFICES ASSUME T # {} PROVE FALSE
  OBVIOUS
<1>3. T \subseteq Nat
  OBVIOUS
<1>4. PICK x \in T : \A y \in T : ~(<<y, x>> \in R)
  <2> HIDE DEF R, T
  <2> QED
    BY <1>1, <1>2, <1>3, WFMin
<1>5. x \in 1 .. n /\ x - 1 \in 0 .. n
  OBVIOUS
<1>6. x - 1 \notin T
  <2>1. <<x - 1, x>> \in R
    BY <1>5
  <2> QED
    BY <1>4, <2>1
<1> QED
  BY <1>5, <1>6

(* A recursive function over places exists.                                *)
LEMMA RunExists ==
  ASSUME NEW n \in Nat, NEW a \in Int, NEW g \in [Int \X (1 .. n) -> Int]
  PROVE  \E p \in [0 .. n -> Int] :
           p[0] = a /\ \A k \in 1 .. n : p[k] = g[<<p[k - 1], k>>]
<1> DEFINE Runs(p, j) == p[0] = a /\ \A k \in 1 .. j : p[k] = g[<<p[k - 1], k>>]
           S == {j \in 0 .. n : \E p \in [0 .. j -> Int] : Runs(p, j)}
<1>1. 0 \in S
  <2> DEFINE q == [k \in 0 .. 0 |-> a]
  <2>1. q \in [0 .. 0 -> Int] /\ Runs(q, 0)
    OBVIOUS
  <2> HIDE DEF q, Runs
  <2> QED
    BY <2>1
<1>2. ASSUME NEW j \in 1 .. n, j - 1 \in S PROVE j \in S
  <2>1. PICK p \in [0 .. (j - 1) -> Int] : Runs(p, j - 1)
    BY <1>2
  <2> DEFINE q == [k \in 0 .. j |-> IF k = j THEN g[<<p[j - 1], j>>] ELSE p[k]]
  <2>2. q \in [0 .. j -> Int]
    OBVIOUS
  <2>3. q[0] = a
    BY <2>1
  <2>4. ASSUME NEW k \in 1 .. j PROVE q[k] = g[<<q[k - 1], k>>]
    <3>1. CASE k = j
      <4>1. q[j] = g[<<p[j - 1], j>>] /\ q[j - 1] = p[j - 1]
        OBVIOUS
      <4> QED
        BY <3>1, <4>1
    <3>2. CASE k # j
      <4>1. k \in 1 .. (j - 1) /\ q[k] = p[k] /\ q[k - 1] = p[k - 1]
        BY <3>2
      <4> QED
        BY <2>1, <4>1
    <3> QED
      BY <3>1, <3>2
  <2> HIDE DEF q
  <2>5. Runs(q, j)
    BY <2>3, <2>4
  <2> HIDE DEF Runs
  <2> QED
    BY <2>2, <2>5
<1>3. n \in S
  <2> HIDE DEF S
  <2> QED
    BY <1>1, <1>2, AllPlaces
<1> QED
  BY <1>3

(* What Product and Total compute, place by place.                         *)
LEMMA ProductIs ==
  ASSUME NEW f \in Seq(Int)
  PROVE  \E p \in [0 .. Len(f) -> Int] :
           p[0] = 1 /\ (\A k \in 1 .. Len(f) : p[k] = p[k - 1] * f[k]) /\ Product(f) = p[Len(f)]
<1> DEFINE n == Len(f)
           g == [x \in Int \X (1 .. n) |-> x[1] * f[x[2]]]
           Body(p) == [k \in 0 .. n |-> IF k = 0 THEN 1 ELSE p[k - 1] * f[k]]
           c == CHOOSE p : p = Body(p)
<1>1. n \in Nat /\ 1 \in Int /\ g \in [Int \X (1 .. n) -> Int]
  OBVIOUS
<1>2. PICK q \in [0 .. n -> Int] : q[0] = 1 /\ \A k \in 1 .. n : q[k] = g[<<q[k - 1], k>>]
  <2> HIDE DEF g, n
  <2> QED
    BY <1>1, RunExists, ZenonT(60)
<1>3. \A k \in 0 .. n : q[k] = IF k = 0 THEN 1 ELSE q[k - 1] * f[k]
  <2> TAKE k \in 0 .. n
  <2>1. CASE k # 0
    <3>1. k \in 1 .. n /\ q[k - 1] \in Int
      BY <2>1, SMTT(30)
    <3>2. g[<<q[k - 1], k>>] = q[k - 1] * f[k]
      BY <3>1
    <3> QED
      BY <1>2, <3>1, <3>2
  <2> QED
    BY <1>2, <2>1
<1>4. q = Body(q)
  BY <1>3
<1>5. c = Body(c)
  <2> HIDE DEF Body
  <2> QED
    BY <1>4, Zenon
<1>6. Product(f) = c[n]
  BY Zenon DEF Product
<1> HIDE DEF c
<1>7. c[0] = 1 /\ \A k \in 1 .. n : c[k] = c[k - 1] * f[k]
  BY <1>1, <1>5, SMTT(30)
<1>8. \A k \in 0 .. n : k \in {j \in 0 .. n : c[j] \in Int}
  <2> DEFINE S == {j \in 0 .. n : c[j] \in Int}
  <2>1. 0 \in S
    BY <1>1, <1>7
  <2>2. ASSUME NEW k \in 1 .. n, k - 1 \in S PROVE k \in S
    BY <1>7, <2>2, SMTT(30)
  <2> HIDE DEF S
  <2> QED
    BY <1>1, <2>1, <2>2, AllPlaces DEF S
<1>9. c \in [0 .. n -> Int]
  BY <1>5, <1>8
<1> QED
  BY <1>6, <1>7, <1>9

LEMMA TotalIs ==
  ASSUME NEW f \in Seq(Int)
  PROVE  \E p \in [0 .. Len(f) -> Int] :
           p[0] = 0 /\ (\A k \in 1 .. Len(f) : p[k] = p[k - 1] + f[k]) /\ Total(f) = p[Len(f)]
<1> DEFINE n == Len(f)
           g == [x \in Int \X (1 .. n) |-> x[1] + f[x[2]]]
           Body(p) == [k \in 0 .. n |-> IF k = 0 THEN 0 ELSE p[k - 1] + f[k]]
           c == CHOOSE p : p = Body(p)
<1>1. n \in Nat /\ 0 \in Int /\ g \in [Int \X (1 .. n) -> Int]
  OBVIOUS
<1>2. PICK q \in [0 .. n -> Int] : q[0] = 0 /\ \A k \in 1 .. n : q[k] = g[<<q[k - 1], k>>]
  <2> HIDE DEF g, n
  <2> QED
    BY <1>1, RunExists, ZenonT(60)
<1>3. \A k \in 0 .. n : q[k] = IF k = 0 THEN 0 ELSE q[k - 1] + f[k]
  <2> TAKE k \in 0 .. n
  <2>1. CASE k # 0
    <3>1. k \in 1 .. n /\ q[k - 1] \in Int
      BY <2>1
    <3>2. g[<<q[k - 1], k>>] = q[k - 1] + f[k]
      BY <3>1
    <3> QED
      BY <1>2, <3>1, <3>2
  <2> QED
    BY <1>2, <2>1
<1>4. q = Body(q)
  BY <1>3
<1>5. c = Body(c)
  <2> HIDE DEF Body
  <2> QED
    BY <1>4, Zenon
<1>6. Total(f) = c[n]
  BY Zenon DEF Total
<1> HIDE DEF c
<1>7. c[0] = 0 /\ \A k \in 1 .. n : c[k] = c[k - 1] + f[k]
  BY <1>1, <1>5, SMTT(30)
<1>8. \A k \in 0 .. n : k \in {j \in 0 .. n : c[j] \in Int}
  <2> DEFINE S == {j \in 0 .. n : c[j] \in Int}
  <2>1. 0 \in S
    BY <1>1, <1>7
  <2>2. ASSUME NEW k \in 1 .. n, k - 1 \in S PROVE k \in S
    BY <1>7, <2>2, SMTT(30)
  <2> HIDE DEF S
  <2> QED
    BY <1>1, <2>1, <2>2, AllPlaces DEF S
<1>9. c \in [0 .. n -> Int]
  BY <1>5, <1>8
<1> QED
  BY <1>6, <1>7, <1>9

LEMMA ProductAppend ==
  ASSUME NEW f \in Seq(Int), NEW x \in Int
  PROVE  Product(Append(f, x)) = Product(f) * x
<1> DEFINE n == Len(f)
           h == Append(f, x)
<1>1. h \in Seq(Int) /\ Len(h) = n + 1 /\ h[n + 1] = x /\ n \in Nat /\ \A k \in 1 .. n : h[k] = f[k]
  OBVIOUS
<1>2. PICK p \in [0 .. n -> Int] :
        p[0] = 1 /\ (\A k \in 1 .. n : p[k] = p[k - 1] * f[k]) /\ Product(f) = p[n]
  BY ProductIs
<1>3. PICK q \in [0 .. n + 1 -> Int] :
        q[0] = 1 /\ (\A k \in 1 .. n + 1 : q[k] = q[k - 1] * h[k]) /\ Product(h) = q[n + 1]
  <2> HIDE DEF h, n
  <2> QED
    BY <1>1, ProductIs
<1> HIDE DEF h, n
<1>4. \A k \in 0 .. n : k \in {j \in 0 .. n : p[j] = q[j]}
  <2> DEFINE S == {j \in 0 .. n : p[j] = q[j]}
  <2>1. 0 \in S
    BY <1>1, <1>2, <1>3
  <2>2. ASSUME NEW k \in 1 .. n, k - 1 \in S PROVE k \in S
    <3>1. k \in 1 .. n + 1 /\ k \in 1 .. n
      BY <1>1
    <3>2. p[k] = p[k - 1] * f[k] /\ h[k] = f[k]
      BY <1>1, <1>2, <3>1
    <3>3. q[k] = q[k - 1] * h[k]
      BY <1>3, <3>1
    <3> QED
      BY <2>2, <3>2, <3>3
  <2> HIDE DEF S
  <2> QED
    BY <1>1, <2>1, <2>2, AllPlaces DEF S
<1>5. p[n] = q[n] /\ q[n + 1] = q[n] * h[n + 1]
  BY <1>1, <1>3, <1>4
<1> QED
  BY <1>1, <1>2, <1>3, <1>5 DEF h

LEMMA TimesMonotone ==
  ASSUME NEW a \in Int, NEW b \in Int, NEW c \in Int, NEW d \in Int,
         0 <= a, a <= b, 0 <= c, c <= d
  PROVE  0 <= a * c /\ a * c <= b * d
<1>1. 0 <= a * c /\ 0 <= (b - a) * c /\ 0 <= b * (d - c)
  OBVIOUS
<1>2. b * d = a * c + (b - a) * c + b * (d - c)
  OBVIOUS
<1> QED
  BY <1>1, <1>2

LEMMA ProductBelow ==
  ASSUME NEW f \in Seq(Int), NEW h \in Seq(Int), Len(f) = Len(h),
         \A k \in 1 .. Len(f) : 0 <= f[k] /\ f[k] <= h[k]
  PROVE  0 <= Product(f) /\ Product(f) <= Product(h)
<1> DEFINE n == Len(f)
<1>1. n \in Nat /\ n = Len(h) /\ \A k \in 1 .. n : f[k] \in Int /\ h[k] \in Int
  OBVIOUS
<1>2. PICK p \in [0 .. n -> Int] :
        p[0] = 1 /\ (\A k \in 1 .. n : p[k] = p[k - 1] * f[k]) /\ Product(f) = p[n]
  BY ProductIs
<1>3. PICK q \in [0 .. n -> Int] :
        q[0] = 1 /\ (\A k \in 1 .. n : q[k] = q[k - 1] * h[k]) /\ Product(h) = q[n]
  <2>1. \E q \in [0 .. Len(h) -> Int] :
          q[0] = 1 /\ (\A k \in 1 .. Len(h) : q[k] = q[k - 1] * h[k]) /\ Product(h) = q[Len(h)]
    BY ProductIs
  <2> QED
    BY <2>1
<1>4. \A k \in 1 .. n : 0 <= f[k] /\ f[k] <= h[k]
  OBVIOUS
<1> HIDE DEF n
<1>5. \A k \in 0 .. n : k \in {j \in 0 .. n : 0 <= p[j] /\ p[j] <= q[j]}
  <2> DEFINE S == {j \in 0 .. n : 0 <= p[j] /\ p[j] <= q[j]}
  <2>1. 0 \in S
    BY <1>1, <1>2, <1>3
  <2>2. ASSUME NEW k \in 1 .. n, k - 1 \in S PROVE k \in S
    <3>1. /\ p[k] = p[k - 1] * f[k] /\ q[k] = q[k - 1] * h[k]
          /\ p[k - 1] \in Int /\ q[k - 1] \in Int /\ f[k] \in Int /\ h[k] \in Int
          /\ 0 <= p[k - 1] /\ p[k - 1] <= q[k - 1] /\ 0 <= f[k] /\ f[k] <= h[k]
      BY <1>1, <1>2, <1>3, <1>4, <2>2
    <3>2. 0 <= p[k - 1] * f[k] /\ p[k - 1] * f[k] <= q[k - 1] * h[k]
      BY <3>1, TimesMonotone
    <3> QED
      BY <3>1, <3>2
  <2> HIDE DEF S
  <2> QED
    BY <1>1, <2>1, <2>2, AllPlaces DEF S
<1>6. 0 <= p[n] /\ p[n] <= q[n]
  BY <1>1, <1>5
<1> QED
  BY <1>2, <1>3, <1>6

\* the bets of one lambda, trade by trade, and the stakes that are not bet
Bets(basis, lambda, r, places) ==
  [k \in 1 .. Len(r) |-> IF k \in places THEN For(basis, lambda, r[k]) ELSE 1]
Stakes(r, places) == [k \in 1 .. Len(r) |-> IF k \in places THEN 100 ELSE 1]

\* the lambdas of both grids
Fraction == {2, 5, 10, 20}

LEMMA WealthIs ==
  ASSUME NEW basis
  PROVE  \E x, y, z \in Fraction :
           /\ basis = "car" => x <= 10 /\ y <= 10 /\ z <= 10
           /\ \A s, P :
                WealthFor(basis, s, P) = Product(Bets(basis, x, s, P)) + Product(Bets(basis, y, s, P))
                                           + Product(Bets(basis, z, s, P))
<1> DEFINE x == Lambdas(basis)[1]
           y == Lambdas(basis)[2]
           z == Lambdas(basis)[3]
<1>1. x \in Fraction /\ y \in Fraction /\ z \in Fraction
      /\ (basis = "car" => x <= 10 /\ y <= 10 /\ z <= 10)
  BY DEF Lambdas, Fraction
<1>2. ASSUME NEW s, NEW P
      PROVE WealthFor(basis, s, P) = Product(Bets(basis, x, s, P)) + Product(Bets(basis, y, s, P))
                                           + Product(Bets(basis, z, s, P))
  BY Zenon DEF WealthFor, Wealth, Bets
<1> HIDE DEF x, y, z
<1> QED
  BY <1>1, <1>2

LEMMA UnstakedIs ==
  ASSUME NEW basis, NEW r, NEW places
  PROVE  Wealth(Unstaked, basis, r, places) =
           Product(Stakes(r, places)) + Product(Stakes(r, places)) + Product(Stakes(r, places))
BY Zenon DEF Wealth, Unstaked, Stakes

LEMMA BetIs ==
  ASSUME NEW basis, NEW lambda \in Fraction, NEW x \in Int
  PROVE  For(basis, lambda, x) \in Nat /\ (x <= 0 => For(basis, lambda, x) <= 100)
BY DEF For, Taken, Lower, Higher, Cap, Fraction

LEMMA BetsAre ==
  ASSUME NEW basis, NEW lambda \in Fraction, NEW r \in Seq(Int), NEW places
  PROVE  /\ Bets(basis, lambda, r, places) \in Seq(Int)
         /\ Len(Bets(basis, lambda, r, places)) = Len(r)
         /\ \A k \in 1 .. Len(r) : Bets(basis, lambda, r, places)[k] \in Nat
<1> DEFINE B == Bets(basis, lambda, r, places)
<1>1. Len(r) \in Nat /\ \A k \in 1 .. Len(r) : r[k] \in Int
  OBVIOUS
<1>2. B = [k \in 1 .. Len(r) |-> B[k]]
  BY DEF Bets
<1>3. \A k \in 1 .. Len(r) : B[k] \in Nat
  <2> TAKE k \in 1 .. Len(r)
  <2>1. r[k] \in Int
    BY <1>1
  <2>2. For(basis, lambda, r[k]) \in Nat
    BY <2>1, BetIs
  <2> QED
    BY <2>2 DEF Bets
<1> HIDE DEF B
<1> QED
  BY <1>1, <1>2, <1>3 DEF B

(* One trade that loses a or wins b, as often as makes nothing, is not     *)
(* expected to raise what is bet on it.                                    *)
LEMMA StakeIsFair ==
  ASSUME NEW basis, NEW lambda \in Fraction, NEW a \in Nat, NEW b \in Nat, 1 <= a, 1 <= b,
         ~Breach(basis, -a), basis = "car" \/ a <= 1, basis = "car" => lambda <= 10
  PROVE  b * For(basis, lambda, -a) + a * For(basis, lambda, b) <= (a + b) * 100
<1> DEFINE w == IF b <= 2 THEN b ELSE 2
<1>1. w \in Nat /\ w <= b /\ For(basis, lambda, b) = 100 + lambda * w
  BY DEF For, Taken, Lower, Higher, Cap, Fraction
<1>2. For(basis, lambda, -a) = 100 - lambda * a
  BY DEF For, Taken, Lower, Higher, Cap, Fraction, Breach
<1>3. a * w <= a * b
  <2> HIDE DEF w
  <2> QED
    BY <1>1
<1>4. lambda * (a * w) <= lambda * (a * b)
  <2>1. a * w \in Nat /\ a * b \in Nat
    BY <1>1
  <2> QED
    BY <1>3, <2>1 DEF Fraction
<1> HIDE DEF w
<1>5. /\ b * (100 - lambda * a) = 100 * b - lambda * (a * b)
      /\ a * (100 + lambda * w) = 100 * a + lambda * (a * w)
  BY <1>1 DEF Fraction
<1> QED
  BY <1>1, <1>2, <1>4, <1>5 DEF Fraction

LEMMA MadeNext ==
  ASSUME NEW basis, NEW lambda \in Fraction, NEW r \in Seq(Int), NEW places \in SUBSET (1 .. Len(r)),
         NEW x \in Int
  PROVE  Product(Bets(basis, lambda, Append(r, x), places \cup {Len(r) + 1})) =
           Product(Bets(basis, lambda, r, places)) * For(basis, lambda, x)
<1> DEFINE n == Len(r)
           B == Bets(basis, lambda, r, places)
           C == Bets(basis, lambda, Append(r, x), places \cup {n + 1})
<1>1. B \in Seq(Int) /\ Len(B) = n /\ n \in Nat /\ For(basis, lambda, x) \in Int
  BY BetsAre, BetIs
<1>2. Append(r, x) \in Seq(Int) /\ Len(Append(r, x)) = n + 1
  OBVIOUS
<1>3. C \in Seq(Int) /\ Len(C) = n + 1
  <2> DEFINE s == Append(r, x)
             P == places \cup {n + 1}
  <2>1. s \in Seq(Int) /\ Len(s) = n + 1
    BY <1>2
  <2> HIDE DEF s, P, n
  <2>2. Bets(basis, lambda, s, P) \in Seq(Int) /\ Len(Bets(basis, lambda, s, P)) = n + 1
    BY <2>1, BetsAre
  <2> QED
    BY <2>2 DEF s, P
<1>4. \A k \in 1 .. n : C[k] = B[k]
  <2> TAKE k \in 1 .. n
  <2>1. k \in 1 .. n + 1 /\ k # n + 1 /\ Append(r, x)[k] = r[k]
    BY <1>1
  <2> QED
    BY <1>2, <2>1 DEF Bets
<1>5. C[n + 1] = For(basis, lambda, x)
  <2>1. n + 1 \in 1 .. n + 1 /\ Append(r, x)[n + 1] = x
    BY <1>1
  <2> QED
    BY <1>2, <2>1 DEF Bets
<1> HIDE DEF B, C, n
<1>6. C = Append(B, For(basis, lambda, x))
  BY <1>1, <1>3, <1>4, <1>5
<1>7. Product(C) = Product(B) * For(basis, lambda, x)
  BY <1>1, <1>6, ProductAppend
<1> QED
  BY <1>7 DEF B, C, n

LEMMA ProductNat ==
  ASSUME NEW f \in Seq(Int), \A k \in 1 .. Len(f) : f[k] \in Nat
  PROVE  Product(f) \in Nat
<1>1. \A k \in 1 .. Len(f) : 0 <= f[k] /\ f[k] <= f[k]
  OBVIOUS
<1>2. 0 <= Product(f)
  BY <1>1, ProductBelow
<1>3. Product(f) \in Int
  BY ProductIs, SMTT(30)
<1> QED
  BY <1>2, <1>3

LEMMA GrowsFairly ==
  ASSUME NEW p \in Nat, NEW u \in Int, NEW v \in Int, NEW a \in Nat, NEW b \in Nat,
         b * u + a * v <= (a + b) * 100
  PROVE  b * (p * u) + a * (p * v) <= (a + b) * 100 * p
<1> DEFINE w == b * u + a * v
           z == (a + b) * 100
<1>1. w \in Int /\ z \in Int /\ w <= z
  OBVIOUS
<1>2. p * w <= p * z
  <2> HIDE DEF w, z
  <2> QED
    BY <1>1
<1>3. p * w = b * (p * u) + a * (p * v)
  OBVIOUS
<1>4. p * z = (a + b) * 100 * p
  OBVIOUS
<1> QED
  BY <1>2, <1>3, <1>4

\* what b gains and a losses make is no more than c times what there was
NoMore(a, b, c, lost, won, had) == b * lost + a * won <= c * had

LEMMA NoMoreInSum ==
  ASSUME NEW a \in Nat, NEW b \in Nat, NEW c \in Int,
         NEW m1 \in Int, NEW m2 \in Int, NEW m3 \in Int,
         NEW n1 \in Int, NEW n2 \in Int, NEW n3 \in Int,
         NEW p1 \in Int, NEW p2 \in Int, NEW p3 \in Int,
         NoMore(a, b, c, m1, n1, p1), NoMore(a, b, c, m2, n2, p2), NoMore(a, b, c, m3, n3, p3)
  PROVE  NoMore(a, b, c, m1 + m2 + m3, n1 + n2 + n3, p1 + p2 + p3)
BY DEF NoMore

LEMMA BetIsFair ==
  ASSUME NEW basis, NEW r \in Seq(Int), NEW places \in SUBSET (1 .. Len(r)),
         NEW Losses \in SUBSET (Nat \ {0}), NEW Gains \in SUBSET (Nat \ {0})
  PROVE  NoEdgeNoRise(basis, r, places, Losses, Gains)
<1> SUFFICES ASSUME NEW a \in Losses, NEW b \in Gains, ~Breach(basis, -a), basis = "car" \/ a <= 1
             PROVE  b * WealthFor(basis, Append(r, -a), places \cup {Len(r) + 1})
                      + a * WealthFor(basis, Append(r, b), places \cup {Len(r) + 1})
                      <= (a + b) * 100 * WealthFor(basis, r, places)
  BY DEF NoEdgeNoRise
<1>1. a \in Nat /\ 1 <= a /\ b \in Nat /\ 1 <= b /\ -a \in Int /\ b \in Int
  OBVIOUS
<1>2. PICK x \in Fraction, y \in Fraction, z \in Fraction :
        /\ basis = "car" => x <= 10 /\ y <= 10 /\ z <= 10
        /\ \A s, P :
             WealthFor(basis, s, P) = Product(Bets(basis, x, s, P)) + Product(Bets(basis, y, s, P))
                                        + Product(Bets(basis, z, s, P))
  BY WealthIs
<1> DEFINE P(l) == Product(Bets(basis, l, r, places))
           U(l) == For(basis, l, -a)
           V(l) == For(basis, l, b)
           M(l) == Product(Bets(basis, l, Append(r, -a), places \cup {Len(r) + 1}))
           N(l) == Product(Bets(basis, l, Append(r, b), places \cup {Len(r) + 1}))
<1>3. ASSUME NEW l \in Fraction, basis = "car" => l <= 10
      PROVE  /\ P(l) \in Nat /\ M(l) \in Int /\ N(l) \in Int
             /\ b * M(l) + a * N(l) <= (a + b) * 100 * P(l)
  <2>1. U(l) \in Nat /\ V(l) \in Nat
    BY <1>1, BetIs
  <2>2. b * U(l) + a * V(l) <= (a + b) * 100
    BY <1>1, <1>3, StakeIsFair
  <2>3. P(l) \in Nat
    BY BetsAre, ProductNat
  <2>4. M(l) = P(l) * U(l) /\ N(l) = P(l) * V(l)
    BY <1>1, MadeNext
  <2> HIDE DEF P, U, V, M, N
  <2>5. b * (P(l) * U(l)) + a * (P(l) * V(l)) <= (a + b) * 100 * P(l)
    BY <1>1, <2>1, <2>2, <2>3, GrowsFairly, SMTT(30)
  <2> QED
    BY <2>1, <2>3, <2>4, <2>5, SMTT(30)
<1>4. /\ WealthFor(basis, r, places) = P(x) + P(y) + P(z)
      /\ WealthFor(basis, Append(r, -a), places \cup {Len(r) + 1}) = M(x) + M(y) + M(z)
      /\ WealthFor(basis, Append(r, b), places \cup {Len(r) + 1}) = N(x) + N(y) + N(z)
  BY <1>2
<1> HIDE DEF P, U, V, M, N
<1>5. /\ P(x) \in Nat /\ M(x) \in Int /\ N(x) \in Int
      /\ P(y) \in Nat /\ M(y) \in Int /\ N(y) \in Int
      /\ P(z) \in Nat /\ M(z) \in Int /\ N(z) \in Int
      /\ b * M(x) + a * N(x) <= (a + b) * 100 * P(x)
      /\ b * M(y) + a * N(y) <= (a + b) * 100 * P(y)
      /\ b * M(z) + a * N(z) <= (a + b) * 100 * P(z)
  BY <1>2, <1>3
<1> DEFINE c == (a + b) * 100
<1>6. c \in Int
  BY <1>1
<1>7. NoMore(a, b, c, M(x), N(x), P(x)) /\ NoMore(a, b, c, M(y), N(y), P(y))
      /\ NoMore(a, b, c, M(z), N(z), P(z))
  BY <1>5 DEF NoMore
<1>8. NoMore(a, b, c, M(x) + M(y) + M(z), N(x) + N(y) + N(z), P(x) + P(y) + P(z))
  <2>1. P(x) \in Int /\ P(y) \in Int /\ P(z) \in Int
    BY <1>5
  <2> HIDE DEF c
  <2> QED
    BY <1>1, <1>5, <1>6, <1>7, <2>1, NoMoreInSum, ZenonT(60)
<1> QED
  BY <1>4, <1>8 DEF NoMore

LEMMA ProductPositive ==
  ASSUME NEW f \in Seq(Int), \A k \in 1 .. Len(f) : 1 <= f[k]
  PROVE  1 <= Product(f) /\ Product(f) \in Int
<1> DEFINE n == Len(f)
<1>1. n \in Nat /\ \A k \in 1 .. n : f[k] \in Int /\ 1 <= f[k]
  OBVIOUS
<1>2. PICK p \in [0 .. n -> Int] :
        p[0] = 1 /\ (\A k \in 1 .. n : p[k] = p[k - 1] * f[k]) /\ Product(f) = p[n]
  BY ProductIs
<1> HIDE DEF n
<1>3. \A k \in 0 .. n : k \in {j \in 0 .. n : 1 <= p[j]}
  <2> DEFINE S == {j \in 0 .. n : 1 <= p[j]}
  <2>1. 0 \in S
    BY <1>1, <1>2
  <2>2. ASSUME NEW k \in 1 .. n, k - 1 \in S PROVE k \in S
    <3>1. /\ p[k] = p[k - 1] * f[k] /\ p[k - 1] \in Int /\ f[k] \in Int
          /\ 0 <= 1 /\ 1 <= p[k - 1] /\ 1 <= f[k]
      BY <1>1, <1>2, <2>2
    <3>2. 1 * 1 <= p[k - 1] * f[k]
      BY <3>1, TimesMonotone, SMTT(30)
    <3> QED
      BY <3>1, <3>2
  <2> HIDE DEF S
  <2> QED
    BY <1>1, <2>1, <2>2, AllPlaces DEF S
<1> QED
  BY <1>1, <1>2, <1>3

(* Who only loses does not reach a bar above what was staked.              *)
LEMMA LosersReachNothing ==
  ASSUME NEW basis, NEW r \in Seq(Int), NEW places \in SUBSET (1 .. Len(r)),
         \A k \in places : r[k] <= 0, NEW bar \in Nat, 10 < bar
  PROVE  ~Reaches(WealthFor(basis, r, places), bar, basis, r, places)
<1> DEFINE I == Stakes(r, places)
<1>1. I \in Seq(Int) /\ Len(I) = Len(r)
      /\ \A k \in 1 .. Len(r) : I[k] = IF k \in places THEN 100 ELSE 1
  BY DEF Stakes
<1>2. 1 <= Product(I) /\ Product(I) \in Int
  <2> HIDE DEF I
  <2>1. \A k \in 1 .. Len(I) : 1 <= I[k]
    BY <1>1
  <2> QED
    BY <1>1, <2>1, ProductPositive
<1>3. ASSUME NEW l \in Fraction
      PROVE  Product(Bets(basis, l, r, places)) \in Int
             /\ Product(Bets(basis, l, r, places)) <= Product(I)
  <2> DEFINE B == Bets(basis, l, r, places)
  <2>1. B \in Seq(Int) /\ Len(B) = Len(r) /\ \A k \in 1 .. Len(r) : B[k] \in Nat
    BY BetsAre
  <2>2. \A k \in 1 .. Len(r) : B[k] <= I[k]
    <3> TAKE k \in 1 .. Len(r)
    <3>1. CASE k \in places
      <4>1. r[k] \in Int /\ r[k] <= 0
        BY <3>1
      <4>2. For(basis, l, r[k]) <= 100
        BY <4>1, BetIs
      <4> QED
        BY <1>1, <3>1, <4>2 DEF Bets
    <3>2. CASE k \notin places
      BY <1>1, <3>2 DEF Bets
    <3> QED
      BY <3>1, <3>2
  <2> HIDE DEF B, I
  <2>3. \A k \in 1 .. Len(B) : 0 <= B[k] /\ B[k] <= I[k]
    BY <2>1, <2>2
  <2>4. Product(B) <= Product(I)
    BY <1>1, <2>1, <2>3, ProductBelow
  <2>5. Product(B) \in Int
    BY <2>1, ProductIs
  <2> QED
    BY <2>4, <2>5 DEF B
<1>4. PICK x \in Fraction, y \in Fraction, z \in Fraction :
        WealthFor(basis, r, places) =
          Product(Bets(basis, x, r, places)) + Product(Bets(basis, y, r, places))
            + Product(Bets(basis, z, r, places))
  BY WealthIs
<1>5. Wealth(Unstaked, basis, r, places) = Product(I) + Product(I) + Product(I)
  BY UnstakedIs
<1> DEFINE W == WealthFor(basis, r, places)
           V == Wealth(Unstaked, basis, r, places)
<1>6. W \in Int /\ V \in Int /\ 1 <= V /\ W <= V
  <2> HIDE DEF I
  <2> QED
    BY <1>2, <1>3, <1>4, <1>5
<1> HIDE DEF W, V
<1>7. 10 * W < bar * V
  <2>1. 10 * W <= 10 * V
    BY <1>6
  <2>2. 0 < (bar - 10) * V
    BY <1>6
  <2>3. bar * V = 10 * V + (bar - 10) * V
    BY <1>6
  <2>4. 10 * W \in Int /\ 10 * V \in Int /\ (bar - 10) * V \in Int
    BY <1>6
  <2> QED
    BY <2>1, <2>2, <2>3, <2>4
<1>8. bar * V \in Int /\ 10 * W \in Int
  BY <1>6
<1>9. ~(10 * W >= bar * V)
  BY <1>7, <1>8
<1> QED
  BY <1>9, Zenon DEF Reaches, W, V

LEMMA LeftRowIs ==
  ASSUME LedgerInv, NEW k \in 1 .. Len(left)
  PROVE  left[k].r \in Int /\ left[k].form \in {"fine", "malformed", "identity", "unusable"}
<1>1. left[k] \in LeftRow
  BY DEF LedgerInv
<1>2. /\ left[k].r \in {j.r : j \in ShadowKind}
      /\ left[k].form \in {j.form : j \in ShadowKind}
  BY <1>1 DEF LeftRow
<1>3. PICK i \in ShadowKind, j \in ShadowKind : left[k].r = i.r /\ left[k].form = j.form
  BY <1>2
<1> QED
  BY <1>3, GraderAssumption DEF GraderAssumption

(* The rows that an unlock rests on: without a win among them nothing is   *)
(* unlocked.                                                               *)
LEMMA LosersUnlockNothing ==
  ASSUME LedgerInv, NEW rows \in SUBSET (1 .. Len(left)), NEW c,
         \A k \in EvidenceRows(rows, c) : left[k].r <= 0
  PROVE  Unlock(rows, c) = "none"
<1> DEFINE n == Len(left)
           trades == EvidenceRows(rows, c)
<1>1. n \in Nat /\ \A i \in 1 .. n : left[i].r \in Int
  BY LeftRowIs DEF LedgerInv
<1>2. Returned \in Seq(Int) /\ Len(Returned) = n /\ \A i \in 1 .. n : Returned[i] = left[i].r
  BY <1>1 DEF Returned
<1>3. trades \in SUBSET (1 .. n) /\ \A k \in trades : Returned[k] <= 0
  BY <1>2 DEF EvidenceRows
<1> HIDE DEF n, trades
<1>4. ASSUME NEW bar \in {Pilot, SizedLive}
      PROVE  ~Reaches(WealthFor("debit", Returned, trades), bar, "debit", Returned, trades)
  <2>1. bar \in Nat /\ 10 < bar
    BY EvidenceAssumption DEF EvidenceAssumption
  <2>2. trades \in SUBSET (1 .. Len(Returned))
    BY <1>2, <1>3
  <2> QED
    BY <1>2, <1>3, <2>1, <2>2, LosersReachNothing
<1>5. /\ ~Reaches(WealthFor("debit", Returned, trades), SizedLive, "debit", Returned, trades)
      /\ ~Reaches(WealthFor("debit", Returned, trades), Pilot, "debit", Returned, trades)
  BY <1>4
<1> QED
  BY <1>5, Zenon DEF Unlock, trades

LEMMA UnlockedByWin ==
  ASSUME LedgerInv, NEW rows \in SUBSET Pooled, NEW c, Unlock(rows, c) # "none"
  PROVE  \E k \in rows : Real(k) /\ left[k].r > 0 /\ EntryOf(left[k].pid).cohort = c
<1>1. rows \in SUBSET (1 .. Len(left))
  BY DEF Pooled
<1>2. PICK k \in EvidenceRows(rows, c) : ~(left[k].r <= 0)
  BY <1>1, LosersUnlockNothing
<1>3. /\ k \in rows /\ k \in Pooled /\ k \in 1 .. Len(left)
      /\ EntryOf(left[k].pid).cohort = c /\ ~left[k].stale /\ left[k].form # "unusable"
  BY <1>1, <1>2 DEF EvidenceRows
<1>4. FirstRead(k) /\ ~EntryOf(left[k].pid).halted /\ left[k].form # "identity"
  BY <1>3 DEF Pooled
<1>5. left[k].form # "malformed"
  BY <1>4 DEF FirstRead, Malformed
<1>6. left[k].r \in Int /\ left[k].form \in {"fine", "malformed", "identity", "unusable"}
  BY <1>3, LeftRowIs
<1>7. Real(k) /\ left[k].r > 0
  BY <1>2, <1>3, <1>4, <1>5, <1>6 DEF Real
<1> QED
  BY <1>3, <1>7

(* Neither the pool nor a lane unlocks real money without a winning trade  *)
(* of its own configuration, at a fresh quote, on a name that trades.      *)
THEOREM MoneyIsUnlockedByWins == SGSpec => []UnlockedByRealFills
<1>1. LedgerInv => UnlockedByRealFills
  <2> SUFFICES ASSUME LedgerInv, NEW c PROVE
        /\ Unlock(Pooled, c) # "none" =>
             \E k \in 1 .. Len(left) :
               Real(k) /\ left[k].r > 0 /\ EntryOf(left[k].pid).cohort = c
        /\ \A l \in UNION {left[k].lanes : k \in 1 .. Len(left)} :
             Unlock(ByLane(l), c) # "none" =>
               \E k \in {j \in 1 .. Len(left) : l \in left[j].lanes} :
                 Real(k) /\ left[k].r > 0 /\ EntryOf(left[k].pid).cohort = c
    BY DEF UnlockedByRealFills
  <2>1. Pooled \subseteq 1 .. Len(left)
    BY DEF Pooled
  <2>2. ASSUME Unlock(Pooled, c) # "none"
        PROVE  \E k \in 1 .. Len(left) :
                 Real(k) /\ left[k].r > 0 /\ EntryOf(left[k].pid).cohort = c
    BY <2>1, <2>2, UnlockedByWin
  <2>3. ASSUME NEW l, Unlock(ByLane(l), c) # "none"
        PROVE  \E k \in {j \in 1 .. Len(left) : l \in left[j].lanes} :
                 Real(k) /\ left[k].r > 0 /\ EntryOf(left[k].pid).cohort = c
    <3>1. /\ ByLane(l) \subseteq Pooled
          /\ ByLane(l) \subseteq {j \in 1 .. Len(left) : l \in left[j].lanes}
      BY <2>1 DEF ByLane
    <3> QED
      BY <2>3, <3>1, UnlockedByWin
  <2> QED
    BY <2>2, <2>3
<1>2. SGInit => LedgerInv
  BY DEF SGInit, LedgerInv
<1> QED
  BY <1>1, <1>2, LedgerStep, PTL DEF SGSpec

-----------------------------------------------------------------------------
(* The lab's grader.                                                       *)

EnteredRow == [pid : Nat, day : Nat]
ExitRow    == [pid : Nat, day : Nat, cohort : Nat, form : Forms, r : Int,
               comp : {k.comp : k \in Kind}, sure : {k.sure : k \in Kind}]

\* an entry row is the combo of its number; an exit row is a combo's, written
\* under a configuration of its strategy
LabFiles ==
  /\ day \in Nat
  /\ entries \in [Sid -> Seq(EnteredRow)] /\ exits \in [Sid -> Seq(ExitRow)]
  /\ \A s \in Sid :
       /\ cohort[s] \in Hashes[s]
       /\ \A i \in 1 .. Len(entries[s]) : entries[s][i].pid = i
       /\ \A i \in 1 .. Len(exits[s]) : /\ exits[s][i].pid \in 1 .. Len(entries[s])
                                        /\ exits[s][i].cohort \in Hashes[s]

LEMMA LeastIs ==
  ASSUME NEW S, S \subseteq Nat, S # {}
  PROVE  Min(S) \in S /\ \A y \in S : Min(S) <= y
<1> DEFINE R == {ss \in Nat \X Nat : ss[1] < ss[2]}
<1>1. IsWellFoundedOn(R, Nat)
  BY NatLessThanWellFounded DEF OpToRel
<1>2. PICK x \in S : \A y \in S : ~(<<y, x>> \in R)
  <2> HIDE DEF R
  <2> QED
    BY <1>1, WFMin
<1>3. \E z \in S : \A y \in S : z <= y
  <2>1. ASSUME NEW y \in S PROVE x <= y
    <3>1. x \in Nat /\ y \in Nat /\ ~(<<y, x>> \in R)
      BY <1>2
    <3> QED
      BY <3>1
  <2> QED
    BY <2>1
<1> QED
  BY <1>3, Zenon DEF Min

LEMMA FilesBegin == LGInit => LabFiles
<1> SUFFICES ASSUME LGInit PROVE LabFiles
  OBVIOUS
<1>1. ASSUME NEW s \in Sid PROVE cohort[s] \in Hashes[s]
  <2>1. Hashes[s] \subseteq Nat /\ Hashes[s] # {}
    BY LabGraderAssumption DEF LabGraderAssumption
  <2>2. Min(Hashes[s]) \in Hashes[s]
    BY <2>1, LeastIs
  <2>3. cohort[s] = Min(Hashes[s])
    BY Zenon DEF LGInit
  <2> QED
    BY <2>2, <2>3
<1>2. \A s \in Sid : entries[s] = <<>> /\ exits[s] = <<>>
  BY DEF LGInit
<1>3. /\ day \in Nat
      /\ entries \in [Sid -> Seq(EnteredRow)] /\ exits \in [Sid -> Seq(ExitRow)]
  BY DEF LGInit
<1> QED
  BY <1>1, <1>2, <1>3 DEF LabFiles

LEMMA FilesStep == LabFiles /\ [LGNext]_lgVars => LabFiles'
<1> SUFFICES ASSUME LabFiles, [LGNext]_lgVars PROVE LabFiles'
  OBVIOUS
<1>1. ASSUME NEW s \in Sid, Enter(s) PROVE LabFiles'
  <2> DEFINE row == [pid |-> Len(entries[s]) + 1, day |-> day]
  <2>1. entries[s] \in Seq(EnteredRow) /\ row \in EnteredRow /\ row.pid = Len(entries[s]) + 1
    BY DEF LabFiles, EnteredRow
  <2> HIDE DEF row
  <2>2. /\ entries' = [entries EXCEPT ![s] = Append(entries[s], row)]
        /\ day' = day /\ exits' = exits /\ cohort' = cohort
    BY <1>1, Zenon DEF Enter, row
  <2>3. Append(entries[s], row) \in Seq(EnteredRow)
    BY <2>1
  <2>4. entries' \in [Sid -> Seq(EnteredRow)]
    BY <2>2, <2>3 DEF LabFiles
  <2>5. ASSUME NEW t \in Sid
        PROVE  /\ \A i \in 1 .. Len(entries'[t]) : entries'[t][i].pid = i
               /\ \A i \in 1 .. Len(exits[t]) : exits[t][i].pid \in 1 .. Len(entries'[t])
    <3>1. CASE t = s
      <4>1. entries'[s] = Append(entries[s], row)
        BY <2>2 DEF LabFiles
      <4>2. /\ \A i \in 1 .. Len(entries[s]) : entries[s][i].pid = i
            /\ \A i \in 1 .. Len(exits[s]) : exits[s][i].pid \in 1 .. Len(entries[s])
        BY DEF LabFiles
      <4> QED
        BY <2>1, <3>1, <4>1, <4>2
    <3>2. CASE t # s
      <4>1. entries'[t] = entries[t]
        BY <2>2, <3>2 DEF LabFiles
      <4> QED
        BY <4>1 DEF LabFiles
    <3> QED
      BY <3>1, <3>2
  <2> QED
    BY <2>2, <2>4, <2>5 DEF LabFiles
<1>2. ASSUME NEW s \in Sid, Close(s) PROVE LabFiles'
  <2>1. PICK e \in ToSet(entries[s]), k \in Kind :
          exits' = [exits EXCEPT ![s] = Append(exits[s],
                      [pid |-> e.pid, day |-> day, cohort |-> cohort[s], form |-> k.form,
                       r |-> k.r, comp |-> k.comp, sure |-> k.sure])]
    BY <1>2, Zenon DEF Close
  <2> DEFINE row == [pid |-> e.pid, day |-> day, cohort |-> cohort[s], form |-> k.form,
                     r |-> k.r, comp |-> k.comp, sure |-> k.sure]
  <2>2. e.pid \in 1 .. Len(entries[s])
    <3>1. entries[s] \in Seq(EnteredRow)
      BY DEF LabFiles
    <3>2. PICK i \in 1 .. Len(entries[s]) : e = entries[s][i]
      BY <3>1 DEF ToSet
    <3> QED
      BY <3>2 DEF LabFiles
  <2>3. row \in ExitRow /\ row.pid \in 1 .. Len(entries[s]) /\ row.cohort \in Hashes[s]
    <3>1. cohort[s] \in Hashes[s] /\ Hashes[s] \subseteq Nat /\ day \in Nat /\ k.form \in Forms
            /\ k.r \in Int /\ e.pid \in Nat
      BY <2>2, LabGraderAssumption DEF LabGraderAssumption, LabFiles
    <3> QED
      BY <2>2, <3>1 DEF ExitRow
  <2> HIDE DEF row
  <2>4. /\ exits' = [exits EXCEPT ![s] = Append(exits[s], row)]
        /\ day' = day /\ entries' = entries /\ cohort' = cohort
    BY <1>2, <2>1, Zenon DEF Close, row
  <2>5. exits[s] \in Seq(ExitRow) /\ Append(exits[s], row) \in Seq(ExitRow)
    BY <2>3 DEF LabFiles
  <2>6. exits' \in [Sid -> Seq(ExitRow)]
    BY <2>4, <2>5 DEF LabFiles
  <2>7. ASSUME NEW t \in Sid
        PROVE  \A i \in 1 .. Len(exits'[t]) : /\ exits'[t][i].pid \in 1 .. Len(entries[t])
                                              /\ exits'[t][i].cohort \in Hashes[t]
    <3>1. CASE t = s
      <4>1. exits'[s] = Append(exits[s], row)
        BY <2>4 DEF LabFiles
      <4>2. \A i \in 1 .. Len(exits[s]) : /\ exits[s][i].pid \in 1 .. Len(entries[s])
                                          /\ exits[s][i].cohort \in Hashes[s]
        BY DEF LabFiles
      <4> QED
        BY <2>3, <2>5, <3>1, <4>1, <4>2
    <3>2. CASE t # s
      <4>1. exits'[t] = exits[t]
        BY <2>4, <3>2 DEF LabFiles
      <4> QED
        BY <4>1 DEF LabFiles
    <3> QED
      BY <3>1, <3>2
  <2> QED
    BY <2>4, <2>6, <2>7 DEF LabFiles
<1>3. ASSUME NEW s \in Sid, Fork(s) PROVE LabFiles'
  BY <1>3 DEF Fork, LabFiles
<1>4. CASE NextDay
  BY <1>4 DEF NextDay, LabFiles
<1>5. CASE UNCHANGED <<entries, exits, cohort, day>>
  BY <1>5 DEF LabFiles
<1>6. CASE BeginGrading \/ AppendReturn \/ WriteCard \/ GraderDies \/ UNCHANGED lgVars
  <2>1. UNCHANGED <<entries, exits, cohort, day>>
    BY <1>6 DEF BeginGrading, AppendReturn, WriteCard, GraderDies, lgVars
  <2> QED
    BY <1>5, <2>1
<1> QED
  BY <1>1, <1>2, <1>3, <1>4, <1>6 DEF LGNext

LEMMA ReturnsAre ==
  ASSUME NEW rows \in Seq(ExitRow)
  PROVE  Returns(rows) \in Seq(Int) /\ Len(Returns(rows)) = Len(rows)
<1>1. \A i \in 1 .. Len(rows) : rows[i] \in ExitRow
  OBVIOUS
<1>2. \A i \in 1 .. Len(rows) : rows[i].r \in Int
  BY <1>1 DEF ExitRow
<1> QED
  BY <1>2 DEF Returns

(* Whatever exit row comes, the next trade does not raise the wealth of a  *)
(* strategy without edge in the mean, at any point of its history.         *)
THEOREM BetsAreFair == LGSpec => LabBetIsFair
<1> DEFINE Fair ==
             \A s \in Sid : \A c \in Hashes[s] :
               exits'[s] # exits[s] =>
                 NoEdgeNoRise(Basis[s], Returns(exits'[s]),
                              Usable(exits'[s], CohortRows(exits'[s], c)),
                              {1, 5, 10}, {1, 2, 5})
<1>1. LabFiles' => [Fair]_lgVars
  <2> SUFFICES ASSUME LabFiles', NEW s \in Sid, NEW c
               PROVE  NoEdgeNoRise(Basis[s], Returns(exits'[s]),
                                   Usable(exits'[s], CohortRows(exits'[s], c)),
                                   {1, 5, 10}, {1, 2, 5})
    OBVIOUS
  <2> DEFINE rows == exits'[s]
  <2>1. rows \in Seq(ExitRow)
    BY DEF LabFiles
  <2>2. Returns(rows) \in Seq(Int) /\ Len(Returns(rows)) = Len(rows)
    BY <2>1, ReturnsAre
  <2>3. Usable(rows, CohortRows(rows, c)) \in SUBSET (1 .. Len(Returns(rows)))
    BY <2>2 DEF Usable, CohortRows, Graded, Kept
  <2>4. {1, 5, 10} \in SUBSET (Nat \ {0}) /\ {1, 2, 5} \in SUBSET (Nat \ {0})
    OBVIOUS
  <2> HIDE DEF rows
  <2>5. NoEdgeNoRise(Basis[s], Returns(rows), Usable(rows, CohortRows(rows, c)),
                     {1, 5, 10}, {1, 2, 5})
    BY <2>2, <2>3, <2>4, BetIsFair
  <2> QED
    BY <2>5 DEF rows
<1>2. LGSpec => []LabFiles
  BY FilesBegin, FilesStep, PTL DEF LGSpec
<1> QED
  BY <1>1, <1>2, PTL DEF LabBetIsFair

(* The first row of a combo is the row FirstRow finds.                     *)
LEMMA FirstRowIs ==
  ASSUME NEW rows \in Seq(ExitRow), NEW i \in 1 .. Len(rows), FirstOf(rows, i)
  PROVE  FirstRow(rows, rows[i].pid) = rows[i]
<1> DEFINE p == rows[i].pid
           j == CHOOSE k \in 1 .. Len(rows) : rows[k].pid = p /\ FirstOf(rows, k)
<1>1. j \in 1 .. Len(rows) /\ rows[j].pid = p /\ FirstOf(rows, j)
  BY Zenon
<1>2. FirstRow(rows, p) = rows[j]
  BY Zenon DEF FirstRow
<1> HIDE DEF j
<1>3. j = i
  BY <1>1 DEF FirstOf
<1> QED
  BY <1>2, <1>3

(* As many combos as places that hold different ones.                      *)
LEMMA CombosAtLeast ==
  ASSUME NEW rows \in Seq(ExitRow), NEW places \in SUBSET (1 .. Len(rows)),
         \A i, j \in places : rows[i].pid = rows[j].pid => i = j,
         NEW combos, \A i \in places : rows[i].pid \in combos, IsFiniteSet(combos)
  PROVE  /\ Cardinality(places) \in Nat /\ Cardinality(combos) \in Nat
         /\ Cardinality(places) <= Cardinality(combos)
<1> DEFINE f == [i \in places |-> rows[i].pid]
<1>1. f \in [places -> combos] /\ \A i, j \in places : f[i] = f[j] => i = j
  OBVIOUS
<1> HIDE DEF f
<1>2. f \in Injection(places, combos)
  BY <1>1 DEF Injection, IsInjective
<1> QED
  BY <1>2, FS_Injection, FS_CardinalityType

LEMMA PidsAre ==
  ASSUME NEW rows \in Seq(ExitRow)
  PROVE  /\ IsFiniteSet({row.pid : row \in ToSet(rows)})
         /\ Cardinality({row.pid : row \in ToSet(rows)}) <= Len(rows)
         /\ \A i \in 1 .. Len(rows) : rows[i].pid \in {row.pid : row \in ToSet(rows)}
<1> DEFINE n == Len(rows)
           T == {row.pid : row \in ToSet(rows)}
           f == [i \in 1 .. n |-> rows[i].pid]
<1>1. n \in Nat /\ ToSet(rows) = {rows[i] : i \in 1 .. n}
  BY DEF ToSet
<1>2. f \in [1 .. n -> T] /\ (\A i \in 1 .. n : f[i] = rows[i].pid)
        /\ \A t \in T : \E i \in 1 .. n : f[i] = t
  BY <1>1
<1>3. IsFiniteSet(1 .. n) /\ Cardinality(1 .. n) = n
  BY <1>1, FS_Interval, SMTT(30)
<1> HIDE DEF f, T, n
<1>4. f \in Surjection(1 .. n, T)
  BY <1>2 DEF Surjection
<1>5. IsFiniteSet(T) /\ Cardinality(T) <= n
  BY <1>3, <1>4, FS_Surjection
<1>6. \A i \in 1 .. n : rows[i].pid \in T
  BY <1>2
<1> QED
  BY <1>5, <1>6 DEF T, n

\* the rows behind a strategy's verdict
Earned(s, rows) ==
  /\ Cardinality({row.pid : row \in ToSet(rows)}) = Len(rows)
  /\ \E c \in Hashes[s] : Cardinality(Sound(rows, c)) >= VerdictMin

LEMMA SoundAtLeast ==
  ASSUME NEW rows \in Seq(ExitRow), NEW c, NEW places \in SUBSET CohortRows(rows, c),
         \A i \in places : rows[i].form = "fine"
  PROVE  /\ Cardinality(places) \in Nat /\ Cardinality(Sound(rows, c)) \in Nat
         /\ Cardinality(places) <= Cardinality(Sound(rows, c))
<1>1. places \in SUBSET (1 .. Len(rows))
  BY DEF CohortRows, Graded, Kept
<1>2. ASSUME NEW i \in places
      PROVE  FirstOf(rows, i) /\ rows[i].cohort = c /\ Readable(rows[i])
  BY DEF CohortRows, Graded, Kept
<1>3. ASSUME NEW i \in places PROVE rows[i].pid \in Sound(rows, c)
  <2>1. rows[i].pid \in Closed(rows)
    BY <1>1, <1>2, Zenon DEF Closed
  <2>2. FirstRow(rows, rows[i].pid) = rows[i]
    BY <1>1, <1>2, FirstRowIs
  <2> QED
    BY <1>2, <2>1, <2>2 DEF Sound
<1>4. ASSUME NEW i \in places, NEW j \in places, rows[i].pid = rows[j].pid PROVE i = j
  BY <1>1, <1>2, <1>4 DEF FirstOf
<1>5. IsFiniteSet(Sound(rows, c))
  <2>1. Sound(rows, c) \subseteq {row.pid : row \in ToSet(rows)}
    <3>1. ToSet(rows) = {rows[i] : i \in 1 .. Len(rows)}
      BY DEF ToSet
    <3> QED
      BY <3>1 DEF Sound, Closed
  <2> QED
    BY <2>1, PidsAre, FS_Subset
<1> QED
  BY <1>1, <1>3, <1>4, <1>5, CombosAtLeast

LEMMA VerdictRests ==
  ASSUME NEW s \in Sid, NEW rows \in Seq(ExitRow),
         \A i \in 1 .. Len(rows) : rows[i].cohort \in Hashes[s],
         NEW live, NEW health, Verdict(s, rows, live, health)[1] \in {"WINNING", "LOSING"}
  PROVE  Earned(s, rows)
<1> DEFINE n == Len(rows)
           c == EvidenceCohort(rows, live)
           trades == Usable(rows, CohortRows(rows, c))
<1>1. Gates(s, rows) = {} /\ Cardinality(trades) >= VerdictMin
  BY DEF Verdict
<1>2. ~Repeated(rows) /\ {rows[i].form : i \in Kept(rows)} \ {"fine"} = {}
  BY <1>1 DEF Gates
<1>3. Kept(rows) = 1 .. n
  BY <1>2 DEF Repeated
<1>4. \A i \in 1 .. n : FirstOf(rows, i) /\ rows[i].form = "fine"
  BY <1>2, <1>3 DEF Kept
<1>5. Cardinality({row.pid : row \in ToSet(rows)}) = n
  <2>1. \A i, j \in 1 .. n : rows[i].pid = rows[j].pid => i = j
    BY <1>4 DEF FirstOf
  <2>2. IsFiniteSet(1 .. n) /\ Cardinality(1 .. n) = n /\ n \in Nat
    BY FS_Interval
  <2> DEFINE T == {row.pid : row \in ToSet(rows)}
  <2>3. IsFiniteSet(T) /\ Cardinality(T) <= n /\ \A i \in 1 .. n : rows[i].pid \in T
    BY PidsAre
  <2> HIDE DEF T
  <2>4. n <= Cardinality(T)
    BY <2>1, <2>2, <2>3, CombosAtLeast
  <2>5. Cardinality(T) \in Nat
    BY <2>3, FS_CardinalityType
  <2> QED
    BY <2>2, <2>3, <2>4, <2>5 DEF T
<1>6. trades \in SUBSET CohortRows(rows, c) /\ trades \in SUBSET (1 .. n)
  BY DEF Usable, CohortRows, Graded, Kept
<1> HIDE DEF c, trades
<1>7. /\ Cardinality(trades) \in Nat /\ Cardinality(Sound(rows, c)) \in Nat
      /\ Cardinality(trades) <= Cardinality(Sound(rows, c)) /\ VerdictMin \in Nat \ {0}
  BY <1>4, <1>6, SoundAtLeast, LabGraderAssumption DEF LabGraderAssumption
<1>8. Cardinality(Sound(rows, c)) >= VerdictMin
  BY <1>1, <1>7
<1>9. c \in Hashes[s]
  <2>1. trades # {}
    <3>1. ASSUME trades = {} PROVE Cardinality(trades) = 0
      BY <3>1, FS_EmptySet
    <3> QED
      BY <1>1, <1>7, <3>1
  <2> QED
    BY <1>6, <2>1 DEF CohortRows
<1> QED
  BY <1>5, <1>8, <1>9 DEF Earned

-----------------------------------------------------------------------------
(* Sums that agree but for one entry, and sums of nothing.                 *)

\* one step of two running sums with the same term: what lay between them stays
LEMMA SameTerm ==
  ASSUME NEW p \in Int, NEW q \in Int, NEW d \in Int, NEW u \in Int, q = p + d
  PROVE  q + u = (p + u) + d
  OBVIOUS

\* the running sums p and q of f and h, which agree but at place j
PrefixSums(n, j, f, h, p, q) ==
  /\ n \in Nat /\ j \in 1 .. n
  /\ f \in [1 .. n -> Int] /\ h \in [1 .. n -> Int]
  /\ \A k \in 1 .. n : k # j => h[k] = f[k]
  /\ p \in [0 .. n -> Int] /\ q \in [0 .. n -> Int]
  /\ p[0] = 0 /\ \A k \in 1 .. n : p[k] = p[k - 1] + f[k]
  /\ q[0] = 0 /\ \A k \in 1 .. n : q[k] = q[k - 1] + h[k]

Apart(n, j, f, h, p, q) == q[n] = p[n] + (h[j] - f[j])

LEMMA RunningChange ==
  ASSUME NEW n, NEW j, NEW f, NEW h, NEW p, NEW q, PrefixSums(n, j, f, h, p, q)
  PROVE  Apart(n, j, f, h, p, q)
<1> DEFINE d == h[j] - f[j]
           S == {k \in 0 .. n : q[k] = p[k] + IF k < j THEN 0 ELSE d}
<1>1. n \in Nat /\ j \in 1 .. n /\ d \in Int /\ h[j] = f[j] + d /\ f[j] \in Int
  <2>1. n \in Nat /\ j \in 1 .. n /\ f[j] \in Int /\ h[j] \in Int
    <3>1. n \in Nat /\ j \in 1 .. n /\ f \in [1 .. n -> Int] /\ h \in [1 .. n -> Int]
      BY DEF PrefixSums
    <3> QED
      BY <3>1
  <2> QED
    BY <2>1
<1> HIDE DEF d
<1>2. 0 \in S
  BY <1>1 DEF PrefixSums
<1>3. ASSUME NEW k \in 1 .. n, k - 1 \in S PROVE k \in S
  <2>1. /\ p[k] = p[k - 1] + f[k] /\ q[k] = q[k - 1] + h[k] /\ (k # j => h[k] = f[k])
        /\ p[k - 1] \in Int /\ q[k - 1] \in Int /\ f[k] \in Int
        /\ k \in Int /\ j \in Int /\ k \in 0 .. n
    <3>1. k - 1 \in 0 .. n /\ k \in 0 .. n /\ k \in Int /\ j \in Int
      BY <1>1
    <3>2. /\ f \in [1 .. n -> Int] /\ p \in [0 .. n -> Int] /\ q \in [0 .. n -> Int]
      BY DEF PrefixSums
    <3>3. p[k - 1] \in Int /\ q[k - 1] \in Int /\ f[k] \in Int
      BY <3>1, <3>2
    <3>4. p[k] = p[k - 1] + f[k] /\ q[k] = q[k - 1] + h[k] /\ (k # j => h[k] = f[k])
      BY Zenon DEF PrefixSums
    <3> QED
      BY <3>1, <3>3, <3>4
  <2>2. q[k - 1] = p[k - 1] + IF k - 1 < j THEN 0 ELSE d
    BY <1>3
  <2> SUFFICES q[k] = p[k] + IF k < j THEN 0 ELSE d
    BY <2>1
  <2> HIDE DEF S
  <2>3. CASE k = j
    <3>1. q[k - 1] = p[k - 1]
      BY <2>1, <2>2, <2>3
    <3>2. q[k] = p[k - 1] + (f[j] + d) /\ p[k] = p[k - 1] + f[j]
      BY <1>1, <2>1, <2>3, <3>1
    <3> QED
      BY <1>1, <2>1, <2>3, <3>2
  <2>4. CASE k < j
    <3>1. q[k - 1] = p[k - 1] /\ h[k] = f[k]
      BY <2>1, <2>2, <2>4
    <3>2. q[k] = p[k]
      BY <2>1, <3>1
    <3> QED
      BY <2>1, <2>4, <3>2
  <2>5. CASE j < k
    <3>1. q[k - 1] = p[k - 1] + d /\ h[k] = f[k]
      BY <2>1, <2>2, <2>5
    <3>2. q[k - 1] + f[k] = (p[k - 1] + f[k]) + d
      BY <1>1, <2>1, <3>1, SameTerm
    <3>3. q[k] = p[k] + d
      BY <2>1, <3>1, <3>2
    <3> QED
      BY <2>1, <2>5, <3>3
  <2> QED
    BY <2>1, <2>3, <2>4, <2>5
<1>4. n \in S
  <2> HIDE DEF S
  <2>1. n \in 0 .. n
    BY <1>1
  <2> QED
    BY <1>1, <1>2, <1>3, <2>1, AllPlaces
<1> QED
  BY <1>1, <1>4 DEF d, Apart

LEMMA TotalChange ==
  ASSUME NEW n \in Nat, NEW f \in Seq(Int), NEW h \in Seq(Int), Len(f) = n, Len(h) = n,
         NEW j \in 1 .. n, \A k \in 1 .. n : k # j => h[k] = f[k]
  PROVE  Total(h) = Total(f) + (h[j] - f[j])
<1>1. f \in [1 .. n -> Int] /\ h \in [1 .. n -> Int]
  OBVIOUS
<1>2. PICK p \in [0 .. n -> Int] :
        p[0] = 0 /\ (\A k \in 1 .. n : p[k] = p[k - 1] + f[k]) /\ Total(f) = p[n]
  BY TotalIs
<1>3. PICK q \in [0 .. n -> Int] :
        q[0] = 0 /\ (\A k \in 1 .. n : q[k] = q[k - 1] + h[k]) /\ Total(h) = q[n]
  <2>1. \E q \in [0 .. Len(h) -> Int] :
          q[0] = 0 /\ (\A k \in 1 .. Len(h) : q[k] = q[k - 1] + h[k]) /\ Total(h) = q[Len(h)]
    BY TotalIs
  <2> QED
    BY <2>1
<1>4. PrefixSums(n, j, f, h, p, q)
  <2>1. n \in Nat /\ j \in 1 .. n /\ \A k \in 1 .. n : k # j => h[k] = f[k]
    OBVIOUS
  <2>2. p \in [0 .. n -> Int] /\ p[0] = 0 /\ \A k \in 1 .. n : p[k] = p[k - 1] + f[k]
    BY <1>2, Zenon
  <2>3. q \in [0 .. n -> Int] /\ q[0] = 0 /\ \A k \in 1 .. n : q[k] = q[k - 1] + h[k]
    BY <1>3, Zenon
  <2> QED
    BY <1>1, <2>1, <2>2, <2>3, Zenon DEF PrefixSums
<1>5. Apart(n, j, f, h, p, q)
  BY <1>4, RunningChange
<1> QED
  BY <1>2, <1>3, <1>5 DEF Apart

LEMMA TotalZero ==
  ASSUME NEW f \in Seq(Int), \A k \in 1 .. Len(f) : f[k] = 0
  PROVE  Total(f) = 0
<1> DEFINE n == Len(f)
<1>1. n \in Nat /\ \A k \in 1 .. n : f[k] = 0
  OBVIOUS
<1>2. PICK p \in [0 .. n -> Int] :
        p[0] = 0 /\ (\A k \in 1 .. n : p[k] = p[k - 1] + f[k]) /\ Total(f) = p[n]
  BY TotalIs
<1> HIDE DEF n
<1>3. \A k \in 0 .. n : k \in {j \in 0 .. n : p[j] = 0}
  <2> DEFINE S == {j \in 0 .. n : p[j] = 0}
  <2>1. 0 \in S
    BY <1>1, <1>2
  <2>2. ASSUME NEW k \in 1 .. n, k - 1 \in S PROVE k \in S
    <3>1. p[k] = p[k - 1] + f[k] /\ f[k] = 0 /\ p[k - 1] = 0
      BY <1>1, <1>2, <2>2
    <3> QED
      BY <3>1
  <2> HIDE DEF S
  <2> QED
    BY <1>1, <2>1, <2>2, AllPlaces DEF S
<1> QED
  BY <1>1, <1>2, <1>3

\* the values v of m combos are the values r of the places, each of another
\* combo g, and zero for a combo of none of them
Regroups(n, m, r, g, places, v) ==
  /\ n \in Nat /\ m \in Nat
  /\ r \in [1 .. n -> Int] /\ g \in [1 .. n -> 1 .. m]
  /\ places \in SUBSET (1 .. n) /\ \A i, j \in places : g[i] = g[j] => i = j
  /\ v \in Seq(Int) /\ Len(v) = m
  /\ \A i \in places : v[g[i]] = r[i]
  /\ \A q \in 1 .. m : (\A i \in places : g[i] # q) => v[q] = 0

(* A sum over the rows at some places, each of another combo, is the sum   *)
(* over those combos.                                                      *)
LEMMA Regrouped ==
  ASSUME NEW n, NEW m, NEW r, NEW g, NEW places, NEW v, Regroups(n, m, r, g, places, v)
  PROVE  Total([i \in 1 .. n |-> IF i \in places THEN r[i] ELSE 0]) = Total(v)
<1> USE DEF Regroups
<1> DEFINE Placed(k) == [i \in 1 .. n |-> IF i \in places /\ i <= k THEN r[i] ELSE 0]
           Combos(k) == [q \in 1 .. m |-> IF \E i \in places : g[i] = q /\ i <= k
                                          THEN v[q] ELSE 0]
           S == {k \in 0 .. n : Total(Placed(k)) = Total(Combos(k))}
<1>1. ASSUME NEW k \in 0 .. n
      PROVE  /\ Placed(k) \in Seq(Int) /\ Len(Placed(k)) = n
             /\ Combos(k) \in Seq(Int) /\ Len(Combos(k)) = m
  <2>1. \A q \in 1 .. m : v[q] \in Int
    OBVIOUS
  <2> QED
    BY <2>1
<1>2. 0 \in S
  <2>1. 0 \in 0 .. n
    OBVIOUS
  <2>2. \A i \in 1 .. n : Placed(0)[i] = 0
    OBVIOUS
  <2>3. \A q \in 1 .. m : Combos(0)[q] = 0
    OBVIOUS
  <2> HIDE DEF Placed, Combos
  <2>4. Total(Placed(0)) = 0 /\ Total(Combos(0)) = 0
    BY <1>1, <2>1, <2>2, <2>3, TotalZero
  <2> QED
    BY <2>1, <2>4
<1>3. ASSUME NEW k \in 1 .. n, k - 1 \in S PROVE k \in S
  <2>1. k \in 0 .. n /\ k - 1 \in 0 .. n /\ Total(Placed(k - 1)) = Total(Combos(k - 1))
    BY <1>3
  <2>2. CASE k \notin places
    <3>1. \A i \in places : i <= k <=> i <= k - 1
      BY <2>2
    <3>2. Placed(k) = Placed(k - 1) /\ Combos(k) = Combos(k - 1)
      BY <3>1
    <3> QED
      BY <2>1, <3>2
  <2>3. CASE k \in places
    <3> DEFINE q == g[k]
    <3>1. q \in 1 .. m /\ v[q] = r[k]
      BY <2>3
    <3>2. /\ \A i \in 1 .. n : i # k => Placed(k)[i] = Placed(k - 1)[i]
          /\ Placed(k)[k] = r[k] /\ Placed(k - 1)[k] = 0
      BY <2>3
    <3>3. \A c \in 1 .. m : c # q => Combos(k)[c] = Combos(k - 1)[c]
      <4> TAKE c \in 1 .. m
      <4> HAVE c # q
      <4>1. (\E i \in places : g[i] = c /\ i <= k) <=> (\E i \in places : g[i] = c /\ i <= k - 1)
        BY SMTT(30)
      <4> QED
        BY <4>1
    <3>4. Combos(k)[q] = v[q] /\ Combos(k - 1)[q] = 0
      <4>1. ~\E i \in places : g[i] = q /\ i <= k - 1
        BY <2>3
      <4>2. \E i \in places : g[i] = q /\ i <= k
        BY <2>3
      <4> QED
        BY <3>1, <4>1, <4>2
    <3> HIDE DEF Placed, Combos, q, S
    <3>5. Total(Placed(k)) = Total(Placed(k - 1)) + r[k]
      <4> DEFINE f == Placed(k - 1)
                 h == Placed(k)
      <4>1. /\ f \in Seq(Int) /\ h \in Seq(Int) /\ Len(f) = n /\ Len(h) = n
            /\ (\A i \in 1 .. n : i # k => h[i] = f[i]) /\ h[k] = r[k] /\ f[k] = 0
        BY <1>1, <2>1, <3>2
      <4> HIDE DEF f, h
      <4>2. Total(h) = Total(f) + (h[k] - f[k])
        BY <4>1, TotalChange
      <4> QED
        BY <4>1, <4>2 DEF f, h
    <3>6. Total(Combos(k)) = Total(Combos(k - 1)) + v[q]
      <4> DEFINE f == Combos(k - 1)
                 h == Combos(k)
      <4>1. /\ f \in Seq(Int) /\ h \in Seq(Int) /\ Len(f) = m /\ Len(h) = m
            /\ (\A c \in 1 .. m : c # q => h[c] = f[c]) /\ h[q] = v[q] /\ f[q] = 0
            /\ v[q] \in Int
        BY <1>1, <2>1, <3>1, <3>3, <3>4
      <4> HIDE DEF f, h
      <4>2. Total(h) = Total(f) + (h[q] - f[q])
        BY <3>1, <4>1, TotalChange
      <4> QED
        BY <4>1, <4>2, SMTT(30) DEF f, h
    <3>7. Total(Placed(k)) = Total(Combos(k))
      BY <2>1, <3>1, <3>5, <3>6
    <3> QED
      BY <2>1, <3>7 DEF S
  <2> QED
    BY <2>2, <2>3
<1>4. n \in S
  <2> HIDE DEF S
  <2>1. n \in 0 .. n
    OBVIOUS
  <2> QED
    BY <1>2, <1>3, <2>1, AllPlaces
<1>5. Placed(n) = [i \in 1 .. n |-> IF i \in places THEN r[i] ELSE 0]
  OBVIOUS
<1>6. Combos(n) = v
  <2>1. \A q \in 1 .. m : Combos(n)[q] = v[q]
    OBVIOUS
  <2>2. v = [q \in 1 .. m |-> v[q]]
    OBVIOUS
  <2> QED
    BY <2>1, <2>2
<1>7. Total(Placed(n)) = Total(Combos(n))
  BY <1>4
<1> QED
  <2> HIDE DEF Placed, Combos
  <2> QED
    BY <1>5, <1>6, <1>7

LEMMA NetIs ==
  ASSUME NEW rows \in Seq(ExitRow), NEW places
  PROVE  Net(rows, places) \in Int
<1>1. \A i \in 1 .. Len(rows) : rows[i] \in ExitRow
  OBVIOUS
<1>2. \A i \in 1 .. Len(rows) : rows[i].r \in Int
  BY <1>1 DEF ExitRow
<1> DEFINE f == [i \in 1 .. Len(rows) |-> IF i \in places THEN rows[i].r ELSE 0]
<1>3. f \in Seq(Int)
  BY <1>2
<1> HIDE DEF f
<1>4. Total(f) \in Int
  <2>1. PICK p \in [0 .. Len(f) -> Int] : Total(f) = p[Len(f)]
    BY <1>3, TotalIs
  <2> QED
    BY <1>3, <2>1
<1> QED
  BY <1>4 DEF Net, f

\* the combos whose first row is of the day
DayCombos(rows, d) == {p \in Closed(rows) : FirstRow(rows, p).day = d}

LEMMA DayCombosAre ==
  ASSUME NEW rows \in Seq(ExitRow), NEW d, NEW p
  PROVE  p \in DayCombos(rows, d) <=> \E i \in DayRows(rows, d) : rows[i].pid = p
<1>1. ASSUME p \in DayCombos(rows, d) PROVE \E i \in DayRows(rows, d) : rows[i].pid = p
  <2>1. PICK i \in 1 .. Len(rows) : FirstOf(rows, i) /\ Readable(rows[i]) /\ rows[i].pid = p
    BY <1>1, Zenon DEF DayCombos, Closed
  <2>2. FirstRow(rows, p) = rows[i]
    BY <2>1, FirstRowIs
  <2>3. rows[i].day = d
    BY <1>1, <2>2, Zenon DEF DayCombos
  <2> QED
    BY <2>1, <2>3 DEF DayRows, Graded, Kept
<1>2. ASSUME NEW i \in DayRows(rows, d), rows[i].pid = p PROVE p \in DayCombos(rows, d)
  <2>1. i \in 1 .. Len(rows) /\ FirstOf(rows, i) /\ Readable(rows[i]) /\ rows[i].day = d
    BY DEF DayRows, Graded, Kept
  <2>2. FirstRow(rows, p) = rows[i]
    BY <1>2, <2>1, FirstRowIs
  <2>3. p \in Closed(rows)
    BY <1>2, <2>1, Zenon DEF Closed
  <2> QED
    BY <2>1, <2>2, <2>3, Zenon DEF DayCombos
<1> QED
  BY <1>1, <1>2

(* The net of a day's rows is the sum over the combos closed that day.     *)
LEMMA BookIsNet ==
  ASSUME NEW rows \in Seq(ExitRow), NEW m \in Nat,
         \A i \in 1 .. Len(rows) : rows[i].pid \in 1 .. m, NEW d
  PROVE  Net(rows, DayRows(rows, d)) =
           Total([p \in 1 .. m |-> IF p \in DayCombos(rows, d) THEN FirstRow(rows, p).r ELSE 0])
<1> DEFINE n == Len(rows)
           r == [i \in 1 .. n |-> rows[i].r]
           g == [i \in 1 .. n |-> rows[i].pid]
           places == DayRows(rows, d)
           P == DayCombos(rows, d)
           v == [p \in 1 .. m |-> IF p \in P THEN FirstRow(rows, p).r ELSE 0]
<1>1. \A i \in 1 .. n : rows[i] \in ExitRow
  OBVIOUS
<1>2. \A i \in 1 .. n : rows[i].r \in Int
  BY <1>1 DEF ExitRow
<1>3. n \in Nat /\ r \in [1 .. n -> Int] /\ g \in [1 .. n -> 1 .. m]
  BY <1>2
<1>4. \A i \in places : i \in 1 .. n /\ FirstOf(rows, i)
  BY DEF DayRows, Graded, Kept
<1>5. places \in SUBSET (1 .. n) /\ \A i, j \in places : g[i] = g[j] => i = j
  <2> HIDE DEF places
  <2>1. ASSUME NEW i \in places, NEW j \in places, g[i] = g[j] PROVE i = j
    <3>1. i \in 1 .. n /\ j \in 1 .. n /\ FirstOf(rows, i) /\ FirstOf(rows, j)
      BY <1>4
    <3>2. rows[i].pid = rows[j].pid
      BY <2>1, <3>1
    <3> QED
      BY <3>1, <3>2 DEF FirstOf
  <2> QED
    BY <1>4, <2>1
<1>6. \A p \in 1 .. m : p \in P <=> \E i \in places : rows[i].pid = p
  BY DayCombosAre
<1>7. ASSUME NEW i \in places
      PROVE  rows[i].pid \in 1 .. m /\ rows[i].pid \in P /\ FirstRow(rows, rows[i].pid) = rows[i]
  <2> HIDE DEF places, P
  <2> QED
    BY <1>4, <1>6, FirstRowIs
<1>8. v \in Seq(Int) /\ Len(v) = m
  <2>1. ASSUME NEW p \in 1 .. m, p \in P PROVE FirstRow(rows, p).r \in Int
    <3> HIDE DEF P, places
    <3>1. PICK i \in places : rows[i].pid = p
      BY <1>6, <2>1
    <3> QED
      BY <1>2, <1>4, <1>7, <3>1
  <2> HIDE DEF P
  <2> QED
    BY <2>1
<1>9. \A i \in places : v[g[i]] = r[i]
  <2> HIDE DEF P, places
  <2> QED
    BY <1>4, <1>7
<1>10. \A q \in 1 .. m : (\A i \in places : g[i] # q) => v[q] = 0
  <2> HIDE DEF P, places
  <2> QED
    BY <1>4, <1>6
<1>11. Net(rows, places) = Total([i \in 1 .. n |-> IF i \in places THEN r[i] ELSE 0])
  <2>1. \A i \in 1 .. n : r[i] = rows[i].r
    OBVIOUS
  <2> HIDE DEF r, places
  <2> QED
    BY <2>1 DEF Net
<1> HIDE DEF r, g, v, places, P, n
<1>12. Total([i \in 1 .. n |-> IF i \in places THEN r[i] ELSE 0]) = Total(v)
  <2>1. Regroups(n, m, r, g, places, v)
    BY <1>3, <1>5, <1>8, <1>9, <1>10 DEF Regroups
  <2> QED
    BY <2>1, Regrouped
<1> QED
  BY <1>11, <1>12 DEF v, places, P

LEMMA GreatestIs ==
  ASSUME NEW n \in Nat, NEW S \in SUBSET (1 .. n), S # {}
  PROVE  Max(S) \in S /\ \A y \in S : y <= Max(S)
<1> DEFINE T == {n - x : x \in S}
<1>1. T \subseteq Nat /\ T # {}
  <2>1. \A x \in S : n - x \in Nat
    OBVIOUS
  <2> QED
    BY <2>1
<1>2. PICK z \in T : \A y \in T : z <= y
  <2> HIDE DEF T
  <2> QED
    BY <1>1, LeastIs
<1>3. PICK x \in S : z = n - x
  OBVIOUS
<1>4. ASSUME NEW y \in S PROVE x >= y
  <2>1. n - y \in T /\ x \in 1 .. n /\ y \in 1 .. n
    OBVIOUS
  <2>2. n - x <= n - y
    BY <1>2, <1>3, <2>1
  <2> QED
    BY <2>1, <2>2
<1>5. Max(S) \in S /\ \A y \in S : Max(S) >= y
  BY <1>4, Zenon DEF Max
<1> QED
  BY <1>5

ReturnRow == [day : Nat, sid : Sid, net : Int]

\* the rows of a strategy's day in daily_returns, and the net read of them
DayPlaces(rows, s, d) == {i \in 1 .. Len(rows) : rows[i].sid = s /\ rows[i].day = d}
LastNet(rows, s, d) ==
  IF DayPlaces(rows, s, d) = {} THEN 0 ELSE rows[Max(DayPlaces(rows, s, d))].net

LEMMA LastNetAppend ==
  ASSUME NEW rows \in Seq(ReturnRow), NEW row \in ReturnRow, NEW s, NEW d
  PROVE  LastNet(Append(rows, row), s, d) =
           IF row.sid = s /\ row.day = d THEN row.net ELSE LastNet(rows, s, d)
<1> DEFINE n == Len(rows)
           more == Append(rows, row)
           S == DayPlaces(rows, s, d)
           T == DayPlaces(more, s, d)
<1>1. n \in Nat /\ Len(more) = n + 1 /\ more[n + 1] = row /\ \A i \in 1 .. n : more[i] = rows[i]
  OBVIOUS
<1> HIDE DEF more
<1>2. S \in SUBSET (1 .. n) /\ T \in SUBSET (1 .. n + 1)
  BY <1>1 DEF DayPlaces
<1>3. CASE row.sid = s /\ row.day = d
  <2>1. n + 1 \in T
    BY <1>1, <1>3 DEF DayPlaces
  <2>2. Max(T) = n + 1
    <3> HIDE DEF T
    <3>1. n + 1 \in Nat /\ T # {}
      BY <1>1, <2>1
    <3>2. Max(T) \in T /\ n + 1 <= Max(T)
      BY <1>2, <2>1, <3>1, GreatestIs
    <3>3. Max(T) \in 1 .. n + 1
      BY <1>2, <3>2
    <3> QED
      BY <1>1, <3>2, <3>3
  <2> HIDE DEF T
  <2>3. LastNet(more, s, d) = more[n + 1].net
    BY <2>1, <2>2 DEF LastNet, T
  <2> QED
    BY <1>1, <1>3, <2>3 DEF more
<1>4. CASE ~(row.sid = s /\ row.day = d)
  <2>1. T = S
    BY <1>1, <1>4 DEF DayPlaces
  <2>2. CASE S = {}
    BY <1>4, <2>1, <2>2 DEF LastNet, more
  <2>3. CASE S # {}
    <3> HIDE DEF S, T
    <3>1. Max(S) \in 1 .. n
      BY <1>1, <1>2, <2>3, GreatestIs
    <3>2. more[Max(T)].net = rows[Max(S)].net
      BY <1>1, <2>1, <3>1
    <3> QED
      BY <1>4, <2>1, <2>3, <3>2 DEF LastNet, S, T, more
  <2> QED
    BY <2>2, <2>3
<1> QED
  BY <1>3, <1>4

\* what a run holds about a strategy, and what it has appended
BlockIs(s, b, rows, d) ==
  /\ b.verdict[1] \in {"WINNING", "LOSING"} => Earned(s, rows)
  /\ b.today = Cardinality(DayRows(rows, d)) /\ b.net = Net(rows, DayRows(rows, d))
Appended(s, b, rets, d) == b.today # 0 => LastNet(rets, s, d) = b.net

\* the ledgers stand still while the grader runs
Grading ==
  \/ job = NoJob
  \/ /\ job = [pc |-> "append", day |-> job.day, todo |-> job.todo, blocks |-> job.blocks]
     /\ job.day \in Nat /\ DOMAIN job.blocks \subseteq Sid /\ job.todo \subseteq DOMAIN job.blocks
     /\ \A s \in DOMAIN job.blocks :
          /\ BlockIs(s, job.blocks[s], exits[s], job.day)
          /\ s \notin job.todo => Appended(s, job.blocks[s], returns, job.day)

GraderInv == LabFiles /\ returns \in Seq(ReturnRow) /\ Grading

LEMMA SeriesIs == ASSUME NEW s, NEW d PROVE Series(s, d) = LastNet(returns, s, d)
BY DEF Series, LastNet, DayPlaces

LEMMA BlockHolds ==
  ASSUME NEW s \in Sid, NEW rows \in Seq(ExitRow),
         \A i \in 1 .. Len(rows) : rows[i].cohort \in Hashes[s],
         NEW entered, NEW live, NEW elapsed, NEW d
  PROVE  BlockIs(s, Block(s, entered, rows, live, elapsed, d), rows, d)
<1> DEFINE b == Block(s, entered, rows, live, elapsed, d)
           health == Health(s, entered, elapsed, live # 0)
<1>1. /\ b.verdict = Verdict(s, rows, live, health)
      /\ b.today = Cardinality(DayRows(rows, d)) /\ b.net = Net(rows, DayRows(rows, d))
  BY DEF Block
<1> HIDE DEF b, health
<1>2. b.verdict[1] \in {"WINNING", "LOSING"} => Earned(s, rows)
  BY <1>1, VerdictRests
<1> QED
  BY <1>1, <1>2 DEF BlockIs, b

LEMMA GradingBegins == ASSUME GraderInv, BeginGrading PROVE Grading'
<1>1. PICK sids \in {Sid} \cup {{s} : s \in Sid}, d \in 1 .. day, registry \in BOOLEAN :
        LET elapsed == Cardinality(UNION {{e.day : e \in ToSet(entries[s])} : s \in sids})
            Live(s) == IF registry THEN cohort[s] ELSE 0
        IN  job' = [pc |-> "append", day |-> d, todo |-> sids,
                    blocks |-> [s \in sids |->
                                  Block(s, entries[s], exits[s], Live(s), elapsed, d)]]
  BY DEF BeginGrading
<1> DEFINE elapsed == Cardinality(UNION {{e.day : e \in ToSet(entries[s])} : s \in sids})
           blocks == [s \in sids |-> Block(s, entries[s], exits[s],
                                           IF registry THEN cohort[s] ELSE 0, elapsed, d)]
<1>2. job' = [pc |-> "append", day |-> d, todo |-> sids, blocks |-> blocks]
  BY <1>1
<1>3. exits' = exits /\ d \in Nat /\ sids \subseteq Sid /\ DOMAIN blocks = sids
  BY DEF BeginGrading, GraderInv, LabFiles
<1>4. ASSUME NEW s \in sids PROVE BlockIs(s, blocks[s], exits[s], d)
  <2>1. /\ s \in Sid /\ exits[s] \in Seq(ExitRow)
        /\ \A i \in 1 .. Len(exits[s]) : exits[s][i].cohort \in Hashes[s]
    BY <1>3 DEF GraderInv, LabFiles
  <2>2. blocks[s] = Block(s, entries[s], exits[s], IF registry THEN cohort[s] ELSE 0, elapsed, d)
    OBVIOUS
  <2> HIDE DEF blocks, elapsed
  <2> QED
    BY <2>1, <2>2, BlockHolds
<1> HIDE DEF blocks
<1>5. job'.day = d /\ job'.todo = sids /\ job'.blocks = blocks
  BY <1>2
<1> QED
  BY <1>2, <1>3, <1>4, <1>5 DEF Grading

LEMMA ReturnAppended ==
  ASSUME GraderInv, AppendReturn
  PROVE  Grading' /\ returns' \in Seq(ReturnRow)
<1> DEFINE t == Min(job.todo)
           b == job.blocks[t]
           d == job.day
           row == [day |-> d, sid |-> t, net |-> b.net]
<1>1. /\ job = [pc |-> "append", day |-> d, todo |-> job.todo, blocks |-> job.blocks]
      /\ d \in Nat /\ DOMAIN job.blocks \subseteq Sid /\ job.todo \subseteq DOMAIN job.blocks
      /\ \A s \in DOMAIN job.blocks :
           /\ BlockIs(s, job.blocks[s], exits[s], d)
           /\ s \notin job.todo => Appended(s, job.blocks[s], returns, d)
  BY DEF GraderInv, Grading, AppendReturn, NoJob
<1>2. t \in job.todo
  <2>1. job.todo \subseteq Nat /\ job.todo # {}
    BY <1>1, LabGraderAssumption DEF LabGraderAssumption, AppendReturn
  <2> QED
    BY <2>1, LeastIs
<1>3. /\ job' = [job EXCEPT !.todo = job.todo \ {t}]
      /\ returns' = IF b.today = 0 THEN returns ELSE Append(returns, row)
      /\ exits' = exits
  BY Zenon DEF AppendReturn
<1> HIDE DEF t, b, row
<1>4. /\ job' = [pc |-> "append", day |-> d, todo |-> job.todo \ {t}, blocks |-> job.blocks]
      /\ job'.day = d /\ job'.todo = job.todo \ {t} /\ job'.blocks = job.blocks
  <2> DEFINE todo == job.todo
             blocks == job.blocks
  <2>1. /\ job = [pc |-> "append", day |-> d, todo |-> todo, blocks |-> blocks]
        /\ job' = [job EXCEPT !.todo = todo \ {t}]
    BY <1>1, <1>3
  <2> HIDE DEF todo, blocks, d
  <2>2. job' = [pc |-> "append", day |-> d, todo |-> todo \ {t}, blocks |-> blocks]
    BY <2>1
  <2> QED
    BY <2>2 DEF todo, blocks
<1> HIDE DEF d
<1>5. row \in ReturnRow /\ row.sid = t /\ row.day = d /\ row.net = b.net
  <2>1. t \in Sid /\ exits[t] \in Seq(ExitRow)
    BY <1>1, <1>2 DEF GraderInv, LabFiles
  <2>2. b.net \in Int
    BY <1>1, <1>2, <2>1, NetIs DEF BlockIs, b
  <2> QED
    BY <1>1, <2>1, <2>2 DEF row, ReturnRow
<1>6. returns \in Seq(ReturnRow) /\ returns' \in Seq(ReturnRow)
  BY <1>3, <1>5 DEF GraderInv
<1>7. ASSUME NEW s \in DOMAIN job.blocks, s \notin job.todo \ {t}
      PROVE  Appended(s, job.blocks[s], returns', d)
  <2>1. CASE b.today = 0
    <3>1. returns' = returns
      BY <1>3, <2>1
    <3>2. CASE s = t
      BY <2>1, <3>2 DEF Appended, b
    <3>3. CASE s # t
      BY <1>1, <1>7, <3>1, <3>3
    <3> QED
      BY <3>2, <3>3
  <2>2. CASE b.today # 0
    <3>1. LastNet(returns', s, d) = IF s = t THEN b.net ELSE LastNet(returns, s, d)
      BY <1>3, <1>5, <1>6, <2>2, LastNetAppend
    <3>2. CASE s = t
      BY <3>1, <3>2 DEF Appended, b
    <3>3. CASE s # t
      BY <1>1, <1>7, <3>1, <3>3 DEF Appended
    <3> QED
      BY <3>2, <3>3
  <2> QED
    BY <2>1, <2>2
<1>8. Grading'
  BY <1>1, <1>3, <1>4, <1>7 DEF Grading
<1> QED
  BY <1>6, <1>8

LEMMA GraderStep == GraderInv /\ [LGNext]_lgVars => GraderInv'
<1> SUFFICES ASSUME GraderInv, [LGNext]_lgVars PROVE Grading' /\ returns' \in Seq(ReturnRow)
  BY FilesStep DEF GraderInv
<1>1. CASE job = NoJob /\ job' = job /\ returns' = returns
  BY <1>1 DEF Grading, GraderInv
<1>2. ASSUME NEW s \in Sid, Enter(s) \/ Close(s) \/ Fork(s)
      PROVE  job = NoJob /\ job' = job /\ returns' = returns
  BY <1>2 DEF Enter, Close, Fork
<1>3. ASSUME NextDay PROVE job = NoJob /\ job' = job /\ returns' = returns
  BY <1>3 DEF NextDay
<1>4. CASE BeginGrading
  BY <1>4, GradingBegins DEF BeginGrading, GraderInv
<1>5. CASE AppendReturn
  BY <1>5, ReturnAppended
<1>6. CASE WriteCard \/ GraderDies
  BY <1>6 DEF WriteCard, GraderDies, Grading, GraderInv
<1>7. CASE UNCHANGED lgVars
  BY <1>7 DEF lgVars, Grading, GraderInv
<1> QED
  BY <1>1, <1>2, <1>3, <1>4, <1>5, <1>6, <1>7 DEF LGNext

LEMMA GraderHolds == LGSpec => []GraderInv
<1>1. LGInit => GraderInv
  BY FilesBegin DEF LGInit, GraderInv, Grading
<1> QED
  BY <1>1, GraderStep, PTL DEF LGSpec

\* what a run that appends knows of its strategies
LEMMA RunKnows ==
  ASSUME GraderInv, job.pc = "append", NEW s \in DOMAIN job.blocks
  PROVE  /\ s \in Sid /\ exits[s] \in Seq(ExitRow)
         /\ \A i \in 1 .. Len(exits[s]) : exits[s][i].pid \in 1 .. Len(entries[s])
         /\ entries[s] \in Seq(EnteredRow)
         /\ BlockIs(s, job.blocks[s], exits[s], job.day)
         /\ s \notin job.todo => Appended(s, job.blocks[s], returns, job.day)
<1>1. /\ DOMAIN job.blocks \subseteq Sid
      /\ BlockIs(s, job.blocks[s], exits[s], job.day)
      /\ s \notin job.todo => Appended(s, job.blocks[s], returns, job.day)
  BY DEF GraderInv, Grading, NoJob
<1> QED
  BY <1>1 DEF GraderInv, LabFiles

(* A verdict for or against a strategy rests on the returns of enough      *)
(* different combos of one configuration, in a ledger that closed none of  *)
(* them twice.                                                             *)
THEOREM VerdictsAreEarned == LGSpec => VerdictEarned
<1> DEFINE E == job.pc = "append" /\ job.todo = {} /\ card' # card =>
                  \A s \in DOMAIN job.blocks :
                    card'[s] \in {"WINNING", "LOSING"} =>
                      /\ Cardinality({row.pid : row \in ToSet(exits[s])}) = Len(exits[s])
                      /\ \E c \in Hashes[s] : Cardinality(Sound(exits[s], c)) >= VerdictMin
<1>1. GraderInv /\ [LGNext]_lgVars => [E]_lgVars
  <2> SUFFICES ASSUME GraderInv, LGNext, job.pc = "append", card' # card,
                      NEW s \in DOMAIN job.blocks, card'[s] \in {"WINNING", "LOSING"}
               PROVE  Earned(s, exits[s])
    BY DEF Earned
  <2>1. WriteCard
    BY DEF LGNext, Enter, Close, Fork, NextDay, BeginGrading, AppendReturn, GraderDies
  <2>2. card'[s] = job.blocks[s].verdict[1]
    BY <2>1 DEF WriteCard
  <2> QED
    BY <2>2, RunKnows DEF BlockIs
<1> QED
  BY <1>1, GraderHolds, PTL DEF LGSpec, VerdictEarned

(* When a run has appended its last row, the series holds for every        *)
(* strategy that closed a combo that day the net of each of them once.     *)
THEOREM SeriesHolds == LGSpec => SeriesIsTheBook
<1> DEFINE B == job.pc = "append" /\ job.todo = {} /\ card' # card =>
                  \A s \in DOMAIN job.blocks :
                    LET P == {p \in Closed(exits[s]) : FirstRow(exits[s], p).day = job.day}
                    IN  P # {} => Series(s, job.day) =
                          Total([p \in 1 .. Len(entries[s]) |->
                                   IF p \in P THEN FirstRow(exits[s], p).r ELSE 0])
<1>1. GraderInv => B
  <2> SUFFICES ASSUME GraderInv, job.pc = "append", job.todo = {}, NEW s \in DOMAIN job.blocks,
                      DayCombos(exits[s], job.day) # {}
               PROVE  Series(s, job.day) =
                        Total([p \in 1 .. Len(entries[s]) |->
                                 IF p \in DayCombos(exits[s], job.day)
                                 THEN FirstRow(exits[s], p).r ELSE 0])
    BY Zenon DEF DayCombos
  <2> DEFINE rows == exits[s]
             d == job.day
             b == job.blocks[s]
             m == Len(entries[s])
  <2>1. /\ rows \in Seq(ExitRow) /\ m \in Nat
        /\ \A i \in 1 .. Len(rows) : rows[i].pid \in 1 .. m
        /\ b.today = Cardinality(DayRows(rows, d)) /\ b.net = Net(rows, DayRows(rows, d))
        /\ b.today # 0 => LastNet(returns, s, d) = b.net
    BY RunKnows DEF BlockIs, Appended
  <2> HIDE DEF rows, d, b, m
  <2>2. b.today # 0
    <3>1. PICK p : p \in DayCombos(rows, d)
      BY DEF rows, d
    <3>2. DayRows(rows, d) # {}
      BY <2>1, <3>1, DayCombosAre
    <3>3. IsFiniteSet(DayRows(rows, d))
      <4>1. DayRows(rows, d) \subseteq 1 .. Len(rows)
        BY DEF DayRows, Graded, Kept
      <4>2. IsFiniteSet(1 .. Len(rows))
        BY <2>1, FS_Interval
      <4> QED
        BY <4>1, <4>2, FS_Subset
    <3> QED
      BY <2>1, <3>2, <3>3, FS_EmptySet
  <2>3. Series(s, d) = Net(rows, DayRows(rows, d))
    BY <2>1, <2>2, SeriesIs
  <2>4. Net(rows, DayRows(rows, d)) =
          Total([p \in 1 .. m |-> IF p \in DayCombos(rows, d) THEN FirstRow(rows, p).r ELSE 0])
    BY <2>1, BookIsNet
  <2> QED
    BY <2>3, <2>4 DEF rows, d, m
<1>2. GraderInv => [B]_lgVars
  BY <1>1
<1> QED
  BY <1>2, GraderHolds, PTL DEF SeriesIsTheBook
=============================================================================
