--------------------------- MODULE ArchiveProofs ---------------------------
(***************************************************************************)
(* Theorems about modules Archive and ArchiveReads, for every number of    *)
(* days and readers, set of facts, kinds of query, and bound on failures.  *)
(***************************************************************************)
EXTENDS ArchiveReads, FiniteSetTheorems, TLAPS

-----------------------------------------------------------------------------
(* Type correctness.                                                       *)

\* The names in the two write orders are names of files.
LEMMA FileNames ==
    /\ Len(PartFiles) = 6 /\ Len(RollupFiles) = 5
    /\ \A i \in 1..5 : PartFiles[i] \in Rollup /\ RollupFiles[i] \in Rollup
    /\ PartFiles[6] = "turns"
    /\ "turns" \notin Rollup
BY DEF PartFiles, RollupFiles, Rollup

LEMMA NoIndexType == NoIndex \in Index
BY DEF NoIndex, Index, File, Absent

LEMMA InitTypeOK == Init => TypeOK
<1> SUFFICES ASSUME Init PROVE TypeOK
  OBVIOUS
<1>1. 1 \in Day
  BY ConstantsAssumption DEF Day
<1>2. part \in [Day -> [PartFile -> File]]
  BY DEF Init, File, Absent
<1>3. rebuild \in BOOLEAN
  BY ConstantsAssumption DEF Init
<1>4. file \in 1..Len(PartFiles)
  BY FileNames DEF Init, IdleLocals
<1>5. rollup \in Index /\ cache \in Index /\ draft \in Index
  BY NoIndexType DEF Init, IdleLocals
<1>6. faults \in 0..MaxFaults
  BY ConstantsAssumption DEF Init
<1>7. QED
  BY <1>1, <1>2, <1>3, <1>4, <1>5, <1>6 DEF Init, IdleLocals, TypeOK

\* What a sweep that ends leaves in its locals is well typed.
LEMMA SweepEndsType ==
    ASSUME SweepEnds
    PROVE  /\ pc' = "idle" /\ force' \in BOOLEAN /\ wrote' \in BOOLEAN
           /\ todo' \subseteq Day /\ day' \in Day /\ snap' \subseteq Fact
           /\ file' \in 1..Len(PartFiles) /\ draft' \in Index
<1>1. 1 \in Day
  BY ConstantsAssumption DEF Day
<1>2. 1 \in 1..Len(PartFiles)
  BY FileNames
<1>3. QED
  BY <1>1, <1>2, NoIndexType DEF SweepEnds

LEMMA HotOfType ==
    ASSUME TypeOK
    PROVE  HotDays \subseteq Day /\ \A d \in Day : HotOf(d) \subseteq Fact
BY ConstantsAssumption DEF TypeOK, HotDays, HotOf

\* A probe spends at most the failure budget.
LEMMA ProbeType ==
    ASSUME TypeOK, NEW exists \in BOOLEAN, NEW seen \in BOOLEAN,
           Probe(exists, seen)
    PROVE  faults' \in 0..MaxFaults
BY ConstantsAssumption DEF TypeOK, Probe

LEMMA StepTypeOK == TypeOK /\ [Next]_vars => TypeOK'
<1> SUFFICES ASSUME TypeOK, [Next]_vars PROVE TypeOK'
  OBVIOUS
<1> USE ConstantsAssumption
<1>1. ASSUME NEW f \in Fact, AppendFact(f) PROVE TypeOK'
  BY <1>1 DEF TypeOK, AppendFact, sweep
<1>2. CASE Midnight
  BY <1>2 DEF TypeOK, Midnight, sweep, Day
<1>3. CASE StartSweep
  BY <1>3, HotOfType DEF TypeOK, StartSweep, stored
<1>4. ASSUME NEW d \in Day, SkipDay(d) PROVE TypeOK'
  <2>1. IsCompacted(d) \in BOOLEAN
    BY DEF TypeOK, IsCompacted, PartFile, File
  <2>2. faults' \in 0..MaxFaults
    <3>1. CASE UNCHANGED faults
      BY <3>1 DEF TypeOK
    <3>2. CASE \E seen \in BOOLEAN : Probe(IsCompacted(d), seen)
      BY <2>1, <3>2, ProbeType
    <3>3. QED
      BY <1>4, <3>1, <3>2 DEF SkipDay
  <2>3. QED
    BY <1>4, <2>2 DEF TypeOK, SkipDay, stored
<1>5. ASSUME NEW d \in Day, ReadDay(d) PROVE TypeOK'
  <2>1. PICK seen \in BOOLEAN : Probe(IsCompacted(d), seen)
    BY <1>5 DEF ReadDay
  <2>2. IsCompacted(d) \in BOOLEAN
    BY DEF TypeOK, IsCompacted, PartFile, File
  <2>3. faults' \in 0..MaxFaults
    BY <2>1, <2>2, ProbeType
  <2>4. QED
    BY <1>5, <2>3, HotOfType, FileNames DEF TypeOK, ReadDay, stored
<1>6. CASE PutDayRollup
  <2>1. PartFiles[file] \in PartFile /\ file + 1 \in 1..Len(PartFiles)
    BY <1>6, FileNames DEF PutDayRollup, TypeOK, PartFile
  <2>2. Stored(snap) \in File
    BY DEF TypeOK, Stored, File
  <2>3. part' \in [Day -> [PartFile -> File]]
    BY <1>6, <2>1, <2>2 DEF TypeOK, PutDayRollup
  <2>4. QED
    BY <1>6, <2>1, <2>3 DEF TypeOK, PutDayRollup
<1>7. CASE PutTurns
  <2>1. PICK rows \in StoredTurns(snap) :
            part' = [part EXCEPT ![day]["turns"] = Stored(rows)]
    BY <1>7 DEF PutTurns
  <2>2. Stored(rows) \in File
    BY DEF TypeOK, StoredTurns, Stored, File
  <2>3. part' \in [Day -> [PartFile -> File]]
    BY <2>1, <2>2 DEF TypeOK, PartFile
  <2>4. QED
    BY <1>7, <2>3 DEF TypeOK, PutTurns
<1>8. CASE DaysDone
  <2>1. PICK seen \in BOOLEAN : Probe(HasIndex, seen)
    BY <1>8 DEF DaysDone
  <2>2. faults' \in 0..MaxFaults
    BY <2>1, ProbeType DEF HasIndex
  <2>3. CASE pc' = "index" /\ UNCHANGED <<force, todo, day, snap, file, wrote, draft>>
    BY <1>8, <2>2, <2>3 DEF TypeOK, DaysDone, stored
  <2>4. CASE pc' = "list" /\ UNCHANGED <<force, todo, day, snap, file, wrote, draft>>
    BY <1>8, <2>2, <2>4 DEF TypeOK, DaysDone, stored
  <2>5. CASE SweepEnds
    BY <1>8, <2>2, <2>5, SweepEndsType DEF TypeOK, DaysDone, stored
  <2>6. QED
    BY <1>8, <2>3, <2>4, <2>5 DEF DaysDone, AfterIndex
<1>9. CASE ReadPartitions
  <2>1. \A d \in Day, r \in Rollup : RollupRow(d, r) \in File
    BY DEF TypeOK, RollupRow, PartFile
  <2>2. draft' \in Index
    BY <1>9, <2>1 DEF ReadPartitions, Index
  <2>3. QED
    BY <1>9, <2>2, FileNames DEF TypeOK, ReadPartitions, stored
<1>10. CASE PutRollup
  <2>1. RollupFiles[file] \in Rollup /\ file + 1 \in 1..Len(PartFiles)
    BY <1>10, FileNames DEF PutRollup, TypeOK
  <2>2. rollup' \in Index /\ published' \subseteq Rollup
    BY <1>10, <2>1 DEF TypeOK, PutRollup, Index
  <2>3. QED
    BY <1>10, <2>1, <2>2 DEF TypeOK, PutRollup
<1>11. CASE IndexPublished
  <2>1. CASE pc' = "list" /\ UNCHANGED <<force, todo, day, snap, file, wrote, draft>>
    BY <1>11, <2>1, NoIndexType DEF TypeOK, IndexPublished
  <2>2. CASE SweepEnds
    BY <1>11, <2>2, SweepEndsType, NoIndexType DEF TypeOK, IndexPublished
  <2>3. QED
    BY <1>11, <2>1, <2>2 DEF IndexPublished, AfterIndex
<1>12. CASE ListHotWindow
  BY <1>12, HotOfType DEF TypeOK, ListHotWindow, stored
<1>13. ASSUME NEW d \in Day, PruneSkip(d) PROVE TypeOK'
  <2>1. IsCompacted(d) \in BOOLEAN
    BY DEF TypeOK, IsCompacted, PartFile, File
  <2>2. faults' \in 0..MaxFaults
    BY <1>13, <2>1, ProbeType DEF PruneSkip
  <2>3. QED
    BY <1>13, <2>2 DEF TypeOK, PruneSkip, stored
<1>14. ASSUME NEW d \in Day, Verify(d) PROVE TypeOK'
  <2>1. CASE day' = d /\ pc' = "drop" /\ UNCHANGED <<force, todo, snap, file, wrote, draft>>
    BY <1>14, <2>1 DEF TypeOK, Verify, stored
  <2>2. CASE SweepEnds
    BY <1>14, <2>2, SweepEndsType DEF TypeOK, Verify, stored
  <2>3. QED
    BY <1>14, <2>1, <2>2 DEF Verify
<1>15. CASE Drop
  BY <1>15 DEF TypeOK, Drop
<1>16. CASE PruneDone
  BY <1>16, SweepEndsType DEF TypeOK, PruneDone, stored
<1>17. CASE SweepFails
  BY <1>17, SweepEndsType, NoIndexType DEF TypeOK, SweepFails
<1>18. CASE Crash
  <2>1. rebuild' \in BOOLEAN
    <3>1. Recapture \in BOOLEAN /\ rebuild' \in {FALSE, Recapture}
      BY <1>18 DEF Crash
    <3>2. QED
      BY <3>1, Zenon
  <2>2. /\ cache' = NoIndex /\ SweepEnds /\ faults' \in 0..MaxFaults
        /\ UNCHANGED <<today, hot, part, rollup, published, ingested>>
    BY <1>18 DEF Crash, TypeOK
  <2>3. QED
    BY <2>1, <2>2, SweepEndsType, NoIndexType DEF TypeOK
<1>19. CASE UNCHANGED vars
  BY <1>19 DEF TypeOK, vars
<1>20. QED
  BY <1>1, <1>2, <1>3, <1>4, <1>5, <1>6, <1>7, <1>8, <1>9, <1>10, <1>11,
     <1>12, <1>13, <1>14, <1>15, <1>16, <1>17, <1>18, <1>19
     DEF Next, Compactor, CompactDays, RebuildIndex, PruneHotWindow

\* Every variable keeps its type, whatever the bounds.
THEOREM TypeCorrect == Spec => []TypeOK
<1>1. Init => TypeOK
  BY InitTypeOK
<1>2. TypeOK /\ [Next]_vars => TypeOK'
  BY StepTypeOK
<1>3. QED
  BY <1>1, <1>2, PTL DEF Spec

-----------------------------------------------------------------------------
(* Nothing is lost: the inductive invariant.                               *)

Rows(d) == part[d]["turns"].rows

\* A day is all in the window until it is compacted; a compacted day may have
\* been released, and then its partition has everything.
DayKept(d) ==
    \/ HotOf(d) = IngestedOf(d)
    \/ IsCompacted(d) /\ HotOf(d) = {} /\ IngestedOf(d) \subseteq Rows(d)

\* S is made of whole turns of the set P: the rows of a turns file, short or
\* not, against the events it was written from.
WholeTurns(S, P) ==
    /\ S \subseteq P
    /\ \A f \in S, g \in P : TurnOf[f] = TurnOf[g] => g \in S

\* A partition of a day still in the window was written from what the window
\* holds now.
PartitionCurrent(d) ==
    IsCompacted(d) /\ HotOf(d) # {} => WholeTurns(Rows(d), HotOf(d))

\* The events CompactDay read are still the window's when they are written.
SnapCurrent == pc = "write" => snap = HotOf(day) /\ snap # {}

\* What Verify found still holds when DropDay runs.
DropSafe == pc = "drop" => IsCompacted(day) /\ HotOf(day) \subseteq Rows(day)

KeptInv ==
    /\ TypeOK
    /\ \A d \in Day : DayKept(d)
    /\ \A d \in Day : PartitionCurrent(d)
    /\ SnapCurrent
    /\ DropSafe

\* Counting is enough: whole turns of a finite set that are as many turns as
\* the set has are the set.
LEMMA SameCountSameTurns ==
    ASSUME NEW S, NEW P, IsFiniteSet(P), WholeTurns(S, P),
           TurnCount(S) = TurnCount(P)
    PROVE  P \subseteq S
<1> DEFINE TurnsOf(X) == {TurnOf[f] : f \in X}
<1>1. IsFiniteSet(TurnsOf(P))
  <2>1. [f \in P |-> TurnOf[f]] \in Surjection(P, TurnsOf(P))
    BY DEF Surjection
  <2>2. QED
    BY <2>1, FS_Surjection
<1>2. TurnsOf(S) \subseteq TurnsOf(P)
  BY DEF WholeTurns
<1>3. TurnsOf(S) = TurnsOf(P)
  <2>1. Cardinality(TurnsOf(S)) = Cardinality(TurnsOf(P))
    BY DEF TurnCount
  <2> HIDE DEF TurnsOf
  <2>2. QED
    BY <1>1, <1>2, <2>1, FS_Subset
<1>4. ASSUME NEW g \in P PROVE g \in S
  <2>1. TurnOf[g] \in TurnsOf(S)
    BY <1>3
  <2>2. PICK f \in S : TurnOf[f] = TurnOf[g]
    BY <2>1
  <2>3. QED
    BY <2>2 DEF WholeTurns
<1>5. QED
  BY <1>4

\* A step that touches no stored file and no event leaves the days as they
\* are, and so needs a look only at the step it leads to.
LEMMA DaysUnchanged ==
    ASSUME KeptInv, UNCHANGED <<hot, part, ingested>>
    PROVE  /\ \A d \in Day : DayKept(d)' /\ PartitionCurrent(d)'
           /\ \A d \in Day : HotOf(d)' = HotOf(d) /\ Rows(d)' = Rows(d)
                              /\ IsCompacted(d)' = IsCompacted(d)
BY DEF KeptInv, DayKept, PartitionCurrent, WholeTurns, HotOf, IngestedOf,
       IsCompacted, Rows

LEMMA InitKept == Init => KeptInv
<1> SUFFICES ASSUME Init PROVE KeptInv
  OBVIOUS
<1>1. \A d \in Day : ~IsCompacted(d)
  BY DEF Init, IsCompacted, PartFile, Absent
<1>2. QED
  BY <1>1, InitTypeOK DEF Init, IdleLocals, KeptInv, DayKept, PartitionCurrent,
     SnapCurrent, DropSafe, HotOf, IngestedOf

\* An event is only appended to a day that has no partition and is not being
\* compacted; that day is then all in the window, and stays so.
LEMMA AppendKept ==
    ASSUME ~LateArrivals, KeptInv, NEW f \in Fact, AppendFact(f)
    PROVE  KeptInv'
<1>1. TypeOK'
  BY StepTypeOK DEF KeptInv, Next
<1>2. /\ ~IsCompacted(DayOf[f]) /\ ~(pc = "write" /\ day = DayOf[f])
      /\ hot' = hot \cup {f} /\ ingested' = ingested \cup {f}
      /\ UNCHANGED <<part, pc, day, snap>>
  BY DEF AppendFact, Settled, sweep
<1>3. ASSUME NEW d \in Day, d # DayOf[f]
      PROVE  /\ HotOf(d)' = HotOf(d) /\ IngestedOf(d)' = IngestedOf(d)
             /\ Rows(d)' = Rows(d) /\ IsCompacted(d)' = IsCompacted(d)
  BY <1>2, <1>3 DEF HotOf, IngestedOf, Rows, IsCompacted
<1>4. DayOf[f] \in Day /\ ~IsCompacted(DayOf[f])'
  BY <1>2, ConstantsAssumption DEF IsCompacted
<1>5. HotOf(DayOf[f])' = IngestedOf(DayOf[f])'
  <2>1. HotOf(DayOf[f]) = IngestedOf(DayOf[f])
    BY <1>2, <1>4 DEF KeptInv, DayKept
  <2>2. QED
    BY <1>2, <2>1 DEF HotOf, IngestedOf
<1>6. ASSUME NEW d \in Day PROVE DayKept(d)' /\ PartitionCurrent(d)'
  <2>1. CASE d = DayOf[f]
    BY <1>4, <1>5, <2>1 DEF DayKept, PartitionCurrent
  <2>2. CASE d # DayOf[f]
    BY <1>3, <2>2 DEF KeptInv, DayKept, PartitionCurrent, WholeTurns
  <2>3. QED
    BY <2>1, <2>2
<1>7. SnapCurrent' /\ DropSafe'
  <2>1. day \in Day
    BY DEF KeptInv, TypeOK
  <2>2. pc = "write" \/ pc = "drop" => day # DayOf[f]
    BY <1>2 DEF KeptInv, DropSafe
  <2>3. QED
    BY <1>2, <1>3, <2>1, <2>2 DEF KeptInv, SnapCurrent, DropSafe
<1>8. QED
  BY <1>1, <1>6, <1>7 DEF KeptInv

\* The steps that write neither files nor events, and read none for later:
\* all but ReadDay and Verify leave "write" and "drop" or were not there.
LEMMA QuietKept ==
    ASSUME KeptInv, TypeOK', UNCHANGED <<hot, part, ingested>>,
           \/ pc' \notin {"write", "drop"}
           \/ UNCHANGED <<pc, day, snap>>
    PROVE  KeptInv'
<1>1. \A d \in Day : DayKept(d)' /\ PartitionCurrent(d)'
  BY DaysUnchanged
<1>2. SnapCurrent' /\ DropSafe'
  <2>1. CASE pc' \notin {"write", "drop"}
    BY <2>1 DEF SnapCurrent, DropSafe
  <2>2. CASE UNCHANGED <<pc, day, snap>>
    BY <2>2 DEF KeptInv, SnapCurrent, DropSafe, HotOf, IsCompacted, Rows
  <2>3. QED
    BY <2>1, <2>2
<1>3. QED
  BY <1>1, <1>2 DEF KeptInv

LEMMA ReadDayKept ==
    ASSUME KeptInv, TypeOK', NEW d \in Day, ReadDay(d)
    PROVE  KeptInv'
<1>1. /\ UNCHANGED <<hot, part, ingested>>
      /\ snap' = HotOf(d) /\ HotOf(d) # {} /\ day' = d /\ pc' = "write"
  BY DEF ReadDay, Compactable, stored
<1>2. \A e \in Day : DayKept(e)' /\ PartitionCurrent(e)' /\ HotOf(e)' = HotOf(e)
  BY <1>1, DaysUnchanged
<1>3. HotOf(day)' = HotOf(d)
  BY <1>1 DEF HotOf
<1>4. QED
  BY <1>1, <1>2, <1>3 DEF KeptInv, SnapCurrent, DropSafe

\* A rollup of the day says nothing about its turns file.
LEMMA PutDayRollupKept ==
    ASSUME KeptInv, TypeOK', PutDayRollup
    PROVE  KeptInv'
<1>1. UNCHANGED <<hot, ingested, pc, day, snap>> /\ pc = "write"
  BY DEF PutDayRollup
<1>2. ASSUME NEW d \in Day PROVE part'[d]["turns"] = part[d]["turns"]
  <2>1. file \in 1..5
    BY FileNames DEF PutDayRollup, KeptInv, TypeOK
  <2>2. PartFiles[file] # "turns"
    BY <2>1, FileNames
  <2>3. part \in [Day -> [PartFile -> File]] /\ "turns" \in PartFile
    BY DEF KeptInv, TypeOK, PartFile
  <2>4. QED
    BY <2>2, <2>3 DEF PutDayRollup
<1>3. \A d \in Day : /\ HotOf(d)' = HotOf(d) /\ IngestedOf(d)' = IngestedOf(d)
                     /\ Rows(d)' = Rows(d) /\ IsCompacted(d)' = IsCompacted(d)
  BY <1>1, <1>2 DEF HotOf, IngestedOf, Rows, IsCompacted
<1>4. HotOf(day)' = HotOf(day)
  BY <1>1 DEF HotOf
<1>5. QED
  BY <1>1, <1>3, <1>4 DEF KeptInv, DayKept, PartitionCurrent, WholeTurns,
     SnapCurrent, DropSafe

LEMMA StoredTurnsWhole ==
    ASSUME NEW S, NEW R \in StoredTurns(S)
    PROVE  WholeTurns(R, S)
<1>1. CASE R = S
  BY <1>1 DEF WholeTurns
<1>2. CASE \E K \in SUBSET {TurnOf[f] : f \in S} :
              R = {f \in S : TurnOf[f] \in K}
  BY <1>2 DEF WholeTurns
<1>3. QED
  BY <1>1, <1>2 DEF StoredTurns

\* The partition written is made of the window's turns, and the window still
\* holds all of the day.
LEMMA PutTurnsKept ==
    ASSUME KeptInv, TypeOK', PutTurns
    PROVE  KeptInv'
<1>1. /\ UNCHANGED <<hot, ingested>> /\ pc = "write" /\ pc' = "compact"
      /\ snap = HotOf(day) /\ snap # {} /\ day \in Day
  BY DEF PutTurns, KeptInv, SnapCurrent, TypeOK
<1>2. PICK R \in StoredTurns(snap) :
          part' = [part EXCEPT ![day]["turns"] = Stored(R)]
  BY DEF PutTurns
<1>3. part \in [Day -> [PartFile -> File]] /\ "turns" \in PartFile
  BY DEF KeptInv, TypeOK, PartFile
<1>4. \A d \in Day : HotOf(d)' = HotOf(d) /\ IngestedOf(d)' = IngestedOf(d)
  BY <1>1 DEF HotOf, IngestedOf
<1>5. ASSUME NEW d \in Day PROVE DayKept(d)' /\ PartitionCurrent(d)'
  <2>1. CASE d = day
    <3>1. Rows(d)' = R
      BY <1>2, <1>3, <2>1 DEF Rows, Stored
    <3>2. HotOf(d)' = IngestedOf(d)'
      BY <1>1, <1>4, <2>1 DEF KeptInv, DayKept
    <3>3. WholeTurns(R, HotOf(d))
      BY <1>1, <2>1, StoredTurnsWhole
    <3>4. WholeTurns(Rows(d)', HotOf(d)')
      BY <1>4, <3>1, <3>3
    <3>5. QED
      BY <3>2, <3>4 DEF DayKept, PartitionCurrent, WholeTurns
  <2>2. CASE d # day
    <3>1. part'[d] = part[d]
      BY <1>2, <1>3, <2>2
    <3>2. Rows(d)' = Rows(d) /\ IsCompacted(d)' = IsCompacted(d)
      BY <3>1 DEF Rows, IsCompacted
    <3>3. QED
      BY <1>4, <3>2 DEF KeptInv, DayKept, PartitionCurrent, WholeTurns
  <2>3. QED
    BY <2>1, <2>2
<1>6. QED
  BY <1>1, <1>5 DEF KeptInv, SnapCurrent, DropSafe

\* The counts agreeing means the partition has all that the window has.
LEMMA VerifyKept ==
    ASSUME KeptInv, TypeOK', NEW d \in Day, Verify(d)
    PROVE  KeptInv'
<1>1. CASE Agrees(d) /\ day' = d /\ pc' = "drop"
  <2>1. UNCHANGED <<hot, part, ingested>> /\ IsCompacted(d)
    BY DEF Verify, stored
  <2>2. HotOf(d) \subseteq Rows(d)
    <3>1. SUFFICES ASSUME HotOf(d) # {} PROVE HotOf(d) \subseteq Rows(d)
      OBVIOUS
    <3>2. WholeTurns(Rows(d), HotOf(d))
      BY <2>1, <3>1 DEF KeptInv, PartitionCurrent
    <3>3. IsFiniteSet(HotOf(d))
      BY HotOfType, ConstantsAssumption, FS_Subset DEF KeptInv
    <3>4. TurnCount(Rows(d)) = TurnCount(HotOf(d))
      BY <1>1 DEF Agrees, Rows
    <3>5. QED
      BY <3>2, <3>3, <3>4, SameCountSameTurns
  <2>3. \A e \in Day : DayKept(e)' /\ PartitionCurrent(e)'
    BY <2>1, DaysUnchanged
  <2>4. DropSafe' /\ SnapCurrent'
    BY <1>1, <2>1, <2>2 DEF DropSafe, SnapCurrent, HotOf, IsCompacted, Rows
  <2>5. QED
    BY <2>3, <2>4 DEF KeptInv
<1>2. CASE SweepEnds
  BY <1>2, QuietKept DEF Verify, stored, SweepEnds
<1>3. QED
  BY <1>1, <1>2 DEF Verify

\* A released day is all in its partition.
LEMMA DropKept ==
    ASSUME KeptInv, TypeOK', Drop
    PROVE  KeptInv'
<1>1. /\ hot' = hot \ HotOf(day) /\ UNCHANGED <<part, ingested>>
      /\ pc' = "prune" /\ day \in Day
      /\ IsCompacted(day) /\ HotOf(day) \subseteq Rows(day)
  BY DEF Drop, KeptInv, DropSafe, TypeOK
<1>2. \A d \in Day : /\ IngestedOf(d)' = IngestedOf(d) /\ Rows(d)' = Rows(d)
                     /\ IsCompacted(d)' = IsCompacted(d)
  BY <1>1 DEF IngestedOf, Rows, IsCompacted
<1>3. ASSUME NEW d \in Day, d # day PROVE HotOf(d)' = HotOf(d)
  BY <1>1, <1>3 DEF HotOf
<1>4. ASSUME NEW d \in Day PROVE DayKept(d)' /\ PartitionCurrent(d)'
  <2>1. CASE d = day
    <3>1. HotOf(d)' = {}
      BY <1>1, <2>1 DEF HotOf
    <3>2. IngestedOf(d) \subseteq Rows(d)
      BY <1>1, <2>1 DEF KeptInv, DayKept
    <3>3. QED
      BY <1>1, <1>2, <2>1, <3>1, <3>2 DEF DayKept, PartitionCurrent
  <2>2. CASE d # day
    BY <1>2, <1>3, <2>2 DEF KeptInv, DayKept, PartitionCurrent, WholeTurns
  <2>3. QED
    BY <2>1, <2>2
<1>5. QED
  BY <1>1, <1>4 DEF KeptInv, SnapCurrent, DropSafe

LEMMA StepKept ==
    ASSUME ~LateArrivals, KeptInv, [Next]_vars
    PROVE  KeptInv'
<1>1. TypeOK'
  BY StepTypeOK DEF KeptInv
<1>2. ASSUME NEW f \in Fact, AppendFact(f) PROVE KeptInv'
  BY <1>2, AppendKept
<1>3. ASSUME NEW d \in Day, SkipDay(d) \/ PruneSkip(d) PROVE KeptInv'
  BY <1>1, <1>3, QuietKept DEF SkipDay, PruneSkip, stored
<1>4. ASSUME NEW d \in Day, ReadDay(d) PROVE KeptInv'
  BY <1>1, <1>4, ReadDayKept
<1>5. ASSUME NEW d \in Day, Verify(d) PROVE KeptInv'
  BY <1>1, <1>5, VerifyKept
<1>6. CASE PutDayRollup
  BY <1>1, <1>6, PutDayRollupKept
<1>7. CASE PutTurns
  BY <1>1, <1>7, PutTurnsKept
<1>8. CASE Drop
  BY <1>1, <1>8, DropKept
<1>9. CASE Midnight
  BY <1>1, <1>9, QuietKept DEF Midnight, sweep
<1>10. CASE StartSweep
  BY <1>1, <1>10, QuietKept DEF StartSweep, stored
<1>11. CASE DaysDone
  BY <1>1, <1>11, QuietKept DEF DaysDone, AfterIndex, SweepEnds, stored
<1>12. CASE ReadPartitions
  BY <1>1, <1>12, QuietKept DEF ReadPartitions, stored
<1>13. CASE PutRollup
  BY <1>1, <1>13, QuietKept DEF PutRollup
<1>14. CASE IndexPublished
  BY <1>1, <1>14, QuietKept DEF IndexPublished, AfterIndex, SweepEnds
<1>15. CASE ListHotWindow
  BY <1>1, <1>15, QuietKept DEF ListHotWindow, stored
<1>16. CASE PruneDone
  BY <1>1, <1>16, QuietKept DEF PruneDone, SweepEnds, stored
<1>17. CASE SweepFails
  BY <1>1, <1>17, QuietKept DEF SweepFails, SweepEnds
<1>18. CASE Crash
  BY <1>1, <1>18, QuietKept DEF Crash, SweepEnds
<1>19. CASE UNCHANGED vars
  BY <1>1, <1>19, QuietKept DEF vars
<1>20. QED
  BY <1>2, <1>3, <1>4, <1>5, <1>6, <1>7, <1>8, <1>9, <1>10, <1>11, <1>12,
     <1>13, <1>14, <1>15, <1>16, <1>17, <1>18, <1>19
     DEF Next, Compactor, CompactDays, RebuildIndex, PruneHotWindow

LEMMA KeptImpliesNoFactLost == KeptInv => NoFactLost
<1> SUFFICES ASSUME KeptInv, NEW f \in ingested
             PROVE  f \in hot \/ f \in part[DayOf[f]]["turns"].rows
  BY DEF NoFactLost
<1>1. DayOf[f] \in Day /\ f \in IngestedOf(DayOf[f])
  BY ConstantsAssumption DEF KeptInv, TypeOK, IngestedOf
<1>2. QED
  BY <1>1 DEF KeptInv, DayKept, HotOf, Rows

\* As long as the events of a day are appended before it is compacted, the
\* compactor loses none of them: not by writing a short file, not by failing
\* or crashing at any step, not by compacting again or releasing the window.
THEOREM NothingLost ==
    ASSUME ~LateArrivals
    PROVE  Spec => []NoFactLost
<1>1. Init => KeptInv
  BY InitKept
<1>2. KeptInv /\ [Next]_vars => KeptInv'
  BY StepKept
<1>3. KeptInv => NoFactLost
  BY KeptImpliesNoFactLost
<1>4. QED
  BY <1>1, <1>2, <1>3, PTL DEF Spec

-----------------------------------------------------------------------------
(* With whole writes, what is served is what was ingested.                 *)

\* A compacted day's turns file has the day.
PartitionWhole == \A d \in Day : IsCompacted(d) => Rows(d) = IngestedOf(d)

ServedInv == KeptInv /\ PartitionWhole

LEMMA StepPartitionWhole ==
    ASSUME ~LateArrivals, ~ShortWrites, ServedInv, [Next]_vars
    PROVE  PartitionWhole'
<1>1. ASSUME NEW f \in Fact, AppendFact(f) PROVE PartitionWhole'
  <2>1. /\ ~IsCompacted(DayOf[f])
        /\ ingested' = ingested \cup {f} /\ UNCHANGED part
    BY <1>1 DEF AppendFact, Settled
  <2>2. ASSUME NEW d \in Day, d # DayOf[f] PROVE IngestedOf(d)' = IngestedOf(d)
    BY <2>1, <2>2 DEF IngestedOf
  <2>3. QED
    BY <2>1, <2>2 DEF ServedInv, PartitionWhole, IsCompacted, Rows
<1>2. CASE UNCHANGED <<part, ingested>>
  BY <1>2 DEF ServedInv, PartitionWhole, IsCompacted, Rows, IngestedOf
<1>3. CASE PutDayRollup
  <2>1. ASSUME NEW d \in Day PROVE part'[d]["turns"] = part[d]["turns"]
    <3>1. file \in 1..5
      BY <1>3, FileNames DEF PutDayRollup, ServedInv, KeptInv, TypeOK
    <3>2. PartFiles[file] # "turns"
      BY <3>1, FileNames
    <3>3. part \in [Day -> [PartFile -> File]] /\ "turns" \in PartFile
      BY DEF ServedInv, KeptInv, TypeOK, PartFile
    <3>4. QED
      BY <1>3, <3>2, <3>3 DEF PutDayRollup
  <2>2. UNCHANGED ingested
    BY <1>3 DEF PutDayRollup
  <2>3. QED
    BY <2>1, <2>2 DEF ServedInv, PartitionWhole, IsCompacted, Rows, IngestedOf
<1>4. CASE PutTurns
  <2>1. /\ part' = [part EXCEPT ![day]["turns"] = Stored(snap)]
        /\ UNCHANGED ingested
    BY <1>4 DEF PutTurns, StoredTurns
  <2>2. snap = IngestedOf(day) /\ day \in Day
    BY <1>4 DEF PutTurns, ServedInv, KeptInv, SnapCurrent, DayKept, TypeOK
  <2>3. part \in [Day -> [PartFile -> File]] /\ "turns" \in PartFile
    BY DEF ServedInv, KeptInv, TypeOK, PartFile
  <2>4. ASSUME NEW d \in Day, IsCompacted(d)' PROVE Rows(d)' = IngestedOf(d)'
    <3>1. CASE d = day
      BY <2>1, <2>2, <2>3, <3>1 DEF Rows, Stored, IngestedOf
    <3>2. CASE d # day
      <4>1. part'[d] = part[d]
        BY <2>1, <2>3, <3>2
      <4>2. QED
        BY <2>1, <2>4, <4>1 DEF ServedInv, PartitionWhole, IsCompacted, Rows,
           IngestedOf
    <3>3. QED
      BY <3>1, <3>2
  <2>5. QED
    BY <2>4 DEF PartitionWhole
<1>5. QED
  BY <1>1, <1>2, <1>3, <1>4
     DEF Next, Compactor, CompactDays, RebuildIndex, PruneHotWindow, Midnight,
         StartSweep, SkipDay, ReadDay, DaysDone, ReadPartitions, PutRollup,
         IndexPublished, ListHotWindow, PruneSkip, Verify, Drop, PruneDone,
         SweepFails, Crash, vars, stored, sweep

LEMMA ServedInvServes == ServedInv => ServesIngested
<1> SUFFICES ASSUME ServedInv, NEW d \in Day PROVE Served(d) = IngestedOf(d)
  BY DEF ServesIngested
<1>1. CASE IsCompacted(d)
  BY <1>1 DEF ServedInv, PartitionWhole, Served, Rows
<1>2. CASE ~IsCompacted(d)
  BY <1>2 DEF ServedInv, KeptInv, DayKept, Served
<1>3. QED
  BY <1>1, <1>2

\* At every step of a sweep, its failures and crashes, reading a day returns
\* exactly what was ingested for it, when writes are all or nothing and no
\* event comes after its day was compacted.
THEOREM AllServed ==
    ASSUME ~LateArrivals, ~ShortWrites
    PROVE  Spec => []ServesIngested
<1>1. Init => ServedInv
  <2>1. Init => PartitionWhole
    BY DEF Init, PartitionWhole, IsCompacted, PartFile, Absent
  <2>2. QED
    BY <2>1, InitKept DEF ServedInv
<1>2. ServedInv /\ [Next]_vars => ServedInv'
  BY StepKept, StepPartitionWhole DEF ServedInv
<1>3. ServedInv => ServesIngested
  BY ServedInvServes
<1>4. QED
  BY <1>1, <1>2, <1>3, PTL DEF Spec

\* All that is served is all that was ingested.
LEMMA ServedUnion ==
    ASSUME TypeOK, ServesIngested
    PROVE  UNION {Served(d) : d \in Day} = ingested
<1>1. \A f \in ingested : DayOf[f] \in Day
  BY ConstantsAssumption DEF TypeOK
<1>2. QED
  BY <1>1 DEF ServesIngested, IngestedOf

\* Under the same assumptions the archive implements the ledger: a reader of
\* every day cannot tell a sweep, a failure or a crash from nothing at all.
THEOREM ArchiveImplementsLedger ==
    ASSUME ~LateArrivals, ~ShortWrites
    PROVE  Spec => LedgerSpec
<1>1. Init => Ledger!Init
  <2>1. Init => \A d \in Day : Served(d) = {}
    BY DEF Init, Served, IsCompacted, HotOf, PartFile, Absent
  <2>2. QED
    BY <2>1 DEF Ledger!Init
<1>2. ASSUME TypeOK, ServesIngested, TypeOK', ServesIngested', [Next]_vars
      PROVE  [Ledger!Next]_(UNION {Served(d) : d \in Day})
  <2>1. UNION {Served(d) : d \in Day} = ingested
    BY <1>2, ServedUnion
  <2>2. (UNION {Served(d) : d \in Day})' = ingested'
    <3>1. \A f \in ingested' : DayOf[f] \in Day
      BY <1>2, ConstantsAssumption DEF TypeOK
    <3>2. QED
      BY <1>2, <3>1 DEF ServesIngested, IngestedOf
  <2>3. CASE \E f \in Fact : AppendFact(f)
    BY <2>1, <2>2, <2>3 DEF AppendFact, Ledger!Next, Ledger!Record
  <2>4. CASE ~\E f \in Fact : AppendFact(f)
    <3>1. ingested' = ingested
      BY <1>2, <2>4
         DEF Next, Compactor, CompactDays, RebuildIndex, PruneHotWindow,
             Midnight, StartSweep, SkipDay, ReadDay, PutDayRollup, PutTurns,
             DaysDone, ReadPartitions, PutRollup, IndexPublished,
             ListHotWindow, PruneSkip, Verify, Drop, PruneDone, SweepFails,
             Crash, vars, stored, sweep
    <3>2. QED
      BY <2>1, <2>2, <3>1
  <2>5. QED
    BY <2>3, <2>4
<1>3. Spec => []TypeOK /\ []ServesIngested
  BY TypeCorrect, AllServed
<1>4. QED
  BY <1>1, <1>2, <1>3, PTL DEF Spec, LedgerSpec, Ledger!Spec

-----------------------------------------------------------------------------
(* With whole writes, what is read without reading a day is right too: the  *)
(* rollups of a partition, and the rows published from them.                *)

\* A rollup of the day is there, the turns file is not: a sweep failed, or is
\* under way.
HalfWritten(d) == ~IsCompacted(d) /\ \E r \in Rollup : part[d][r].stored

\* The turns file comes last: with it, every rollup is of the whole day.
PartitionAlike ==
    \A d \in Day : IsCompacted(d) =>
        \A r \in Rollup : part[d][r] = Stored(IngestedOf(d))

\* What CompactDay has put so far is of the events it read.
WrittenSoFar ==
    pc = "write" =>
        /\ day < today /\ day \in todo
        /\ \A i \in 1..5 : i < file => part[day][PartFiles[i]] = Stored(snap)

\* A day half written is a finished one that the window still holds, so that
\* the next sweep has it in its list; RebuildIndex finds none.
HalfWaits ==
    \A d \in Day : HalfWritten(d) =>
        /\ d < today /\ HotOf(d) # {}
        /\ pc \in {"idle", "compact", "write"}
        /\ pc \in {"compact", "write"} => d \in todo

\* What is not stored has no rows.
FilesProper ==
    \A d \in Day, p \in PartFile : part[d][p].stored \/ part[d][p].rows = {}

\* A row of the index is of a day that takes no more events, and counts it all.
RightAbout(idx) ==
    \A r \in Rollup, d \in Day :
        IF idx[r][d].stored
        THEN IsCompacted(d) /\ idx[r][d].rows = IngestedOf(d)
        ELSE idx[r][d].rows = {}

RollupsInv ==
    /\ ServedInv
    /\ PartitionAlike /\ WrittenSoFar /\ HalfWaits /\ FilesProper
    /\ RightAbout(rollup) /\ RightAbout(draft) /\ RightAbout(cache)

\* Every rollup has its place in both write orders.
LEMMA RollupPlaces ==
    \A r \in Rollup : \E i \in 1..5 : PartFiles[i] = r
<1>1. /\ PartFiles[1] = "day" /\ PartFiles[2] = "by_model"
      /\ PartFiles[3] = "by_tool" /\ PartFiles[4] = "by_project"
      /\ PartFiles[5] = "by_session"
  BY DEF PartFiles
<1>2. QED
  BY <1>1 DEF Rollup

LEMMA NoIndexRight == RightAbout(NoIndex)
BY DEF RightAbout, NoIndex, Absent

LEMMA InitRollups == Init => RollupsInv
<1> SUFFICES ASSUME Init PROVE RollupsInv
  OBVIOUS
<1>1. \A d \in Day, p \in PartFile : part[d][p] = Absent
  BY DEF Init
<1>2. \A d \in Day : ~IsCompacted(d) /\ ~HalfWritten(d)
  BY <1>1 DEF IsCompacted, HalfWritten, PartFile, Absent
<1>3. ServedInv
  BY <1>2, InitKept DEF ServedInv, PartitionWhole
<1>4. FilesProper
  BY <1>1 DEF FilesProper, Absent
<1>5. RightAbout(rollup) /\ RightAbout(draft) /\ RightAbout(cache)
  BY NoIndexRight DEF Init, IdleLocals
<1>6. PartitionAlike /\ WrittenSoFar /\ HalfWaits
  BY <1>2 DEF PartitionAlike, WrittenSoFar, HalfWaits, Init, IdleLocals
<1>7. QED
  BY <1>3, <1>4, <1>5, <1>6 DEF RollupsInv

\* A step adds an event, or puts one file of the day being compacted, or
\* leaves both the partitions and what was ingested as they are.
LEMMA StepKinds ==
    ASSUME [Next]_vars
    PROVE  \/ \E f \in Fact : AppendFact(f)
           \/ PutDayRollup
           \/ PutTurns
           \/ UNCHANGED <<part, ingested>>
BY DEF Next, Compactor, CompactDays, RebuildIndex, PruneHotWindow, Midnight,
       StartSweep, SkipDay, ReadDay, DaysDone, ReadPartitions, PutRollup,
       IndexPublished, ListHotWindow, PruneSkip, Verify, Drop, PruneDone,
       SweepFails, Crash, vars, stored, sweep

\* The file one step of CompactDay puts.
LEMMA PutDayRollupEffect ==
    ASSUME RollupsInv, PutDayRollup
    PROVE  /\ file \in 1..5 /\ day \in Day /\ PartFiles[file] \in Rollup
           /\ snap = IngestedOf(day) /\ UNCHANGED ingested
           /\ \A d \in Day, p \in PartFile :
                 part'[d][p] = IF d = day /\ p = PartFiles[file]
                               THEN Stored(snap) ELSE part[d][p]
<1>1. file \in 1..5 /\ day \in Day /\ part \in [Day -> [PartFile -> File]]
  BY FileNames DEF PutDayRollup, RollupsInv, ServedInv, KeptInv, TypeOK
<1>2. PartFiles[file] \in Rollup /\ Rollup \subseteq PartFile
  BY <1>1, FileNames DEF PartFile
<1>3. snap = IngestedOf(day)
  BY <1>1 DEF PutDayRollup, RollupsInv, ServedInv, KeptInv, SnapCurrent, DayKept
<1>4. part' = [part EXCEPT ![day][PartFiles[file]] = Stored(snap)]
      /\ UNCHANGED ingested
  BY DEF PutDayRollup
<1>5. QED
  BY <1>1, <1>2, <1>3, <1>4

LEMMA PutTurnsEffect ==
    ASSUME ~ShortWrites, RollupsInv, PutTurns
    PROVE  /\ day \in Day /\ snap = IngestedOf(day) /\ UNCHANGED ingested
           /\ \A r \in Rollup : part[day][r] = Stored(snap)
           /\ \A d \in Day, p \in PartFile :
                 part'[d][p] = IF d = day /\ p = "turns"
                               THEN Stored(snap) ELSE part[d][p]
<1>1. day \in Day /\ part \in [Day -> [PartFile -> File]] /\ "turns" \in PartFile
  BY DEF RollupsInv, ServedInv, KeptInv, TypeOK, PartFile
<1>2. snap = IngestedOf(day)
  BY <1>1 DEF PutTurns, RollupsInv, ServedInv, KeptInv, SnapCurrent, DayKept
<1>3. part' = [part EXCEPT ![day]["turns"] = Stored(snap)] /\ UNCHANGED ingested
  BY DEF PutTurns, StoredTurns
<1>4. \A r \in Rollup : part[day][r] = Stored(snap)
  <2>1. pc = "write" /\ file = 6
    BY FileNames DEF PutTurns
  <2>2. QED
    BY <2>1, RollupPlaces DEF RollupsInv, WrittenSoFar
<1>5. QED
  BY <1>1, <1>2, <1>3, <1>4

\* A compacted day stays compacted, and nothing more is ingested for it.
LEMMA CompactedStays ==
    ASSUME ~LateArrivals, ~ShortWrites, RollupsInv, [Next]_vars,
           NEW d \in Day, IsCompacted(d)
    PROVE  IsCompacted(d)' /\ IngestedOf(d)' = IngestedOf(d)
<1>1. CASE \E f \in Fact : AppendFact(f)
  <2>1. PICK f \in Fact : AppendFact(f)
    BY <1>1
  <2>2. DayOf[f] # d /\ ingested' = ingested \cup {f} /\ UNCHANGED part
    BY <2>1 DEF AppendFact, Settled
  <2>3. QED
    BY <2>2 DEF IsCompacted, IngestedOf
<1>2. CASE PutDayRollup
  <2>1. "turns" # PartFiles[file] /\ "turns" \in PartFile
    BY <1>2, PutDayRollupEffect, FileNames DEF PartFile
  <2>2. QED
    BY <1>2, <2>1, PutDayRollupEffect DEF IsCompacted, IngestedOf
<1>3. CASE PutTurns
  <2>1. "turns" \in PartFile /\ \A S \in SUBSET Fact : Stored(S).stored
    BY DEF PartFile, Stored
  <2>2. part'[d]["turns"] = Stored(snap) \/ part'[d]["turns"] = part[d]["turns"]
    BY <1>3, <2>1, PutTurnsEffect
  <2>3. QED
    BY <1>3, <2>2, PutTurnsEffect DEF IsCompacted, IngestedOf, Stored
<1>4. CASE UNCHANGED <<part, ingested>>
  BY <1>4 DEF IsCompacted, IngestedOf
<1>5. QED
  BY <1>1, <1>2, <1>3, <1>4, StepKinds

\* So what was right about the days stays right about them.
LEMMA RightStays ==
    ASSUME ~LateArrivals, ~ShortWrites, RollupsInv, [Next]_vars,
           NEW idx, RightAbout(idx)
    PROVE  \A r \in Rollup, d \in Day :
              IF idx[r][d].stored
              THEN IsCompacted(d)' /\ idx[r][d].rows = IngestedOf(d)'
              ELSE idx[r][d].rows = {}
BY CompactedStays DEF RightAbout

LEMMA StepPartitionAlike ==
    ASSUME ~LateArrivals, ~ShortWrites, RollupsInv, [Next]_vars
    PROVE  PartitionAlike'
<1> SUFFICES ASSUME NEW d \in Day, IsCompacted(d)', NEW r \in Rollup
             PROVE  part'[d][r] = Stored(IngestedOf(d)')
  BY DEF PartitionAlike, Stored
<1>1. r \in PartFile /\ "turns" \in PartFile /\ r # "turns"
  BY FileNames DEF PartFile
<1>2. CASE IsCompacted(d)
  <2>1. IngestedOf(d)' = IngestedOf(d) /\ part[d][r] = Stored(IngestedOf(d))
    BY <1>2, CompactedStays DEF RollupsInv, PartitionAlike
  <2>2. CASE PutDayRollup
    BY <1>1, <2>1, <2>2, PutDayRollupEffect
  <2>3. CASE PutTurns
    BY <1>1, <2>1, <2>3, PutTurnsEffect
  <2>4. CASE UNCHANGED part
    BY <2>1, <2>4
  <2>5. QED
    BY <2>2, <2>3, <2>4, StepKinds DEF AppendFact
<1>3. CASE ~IsCompacted(d)
  <2>1. CASE PutDayRollup
    BY <1>1, <1>3, <2>1, PutDayRollupEffect, FileNames DEF IsCompacted
  <2>2. CASE PutTurns
    <3>1. d = day
      BY <1>1, <1>3, <2>2, PutTurnsEffect DEF IsCompacted
    <3>2. QED
      BY <1>1, <2>2, <3>1, PutTurnsEffect DEF IngestedOf
  <2>3. CASE UNCHANGED part
    BY <1>3, <2>3 DEF IsCompacted
  <2>4. QED
    BY <2>1, <2>2, <2>3, StepKinds DEF AppendFact
<1>4. QED
  BY <1>2, <1>3

LEMMA StepFilesProper ==
    ASSUME ~ShortWrites, RollupsInv, [Next]_vars
    PROVE  FilesProper'
<1> SUFFICES ASSUME NEW d \in Day, NEW p \in PartFile
             PROVE  part'[d][p].stored \/ part'[d][p].rows = {}
  BY DEF FilesProper
<1>1. part'[d][p] = part[d][p] \/ part'[d][p] = Stored(snap)
  BY StepKinds, PutDayRollupEffect, PutTurnsEffect DEF AppendFact
<1>2. QED
  BY <1>1 DEF RollupsInv, FilesProper, Stored

\* Between ReadDay and PutTurns only CompactDay's own puts touch its day.
LEMMA StepWrittenSoFar ==
    ASSUME RollupsInv, [Next]_vars
    PROVE  WrittenSoFar'
<1>1. ASSUME NEW d \in Day, ReadDay(d) PROVE WrittenSoFar'
  BY <1>1 DEF ReadDay, Compactable, Oldest, WrittenSoFar, stored
<1>2. CASE PutDayRollup
  <2>1. /\ pc = "write" /\ file' = file + 1 /\ UNCHANGED <<pc, day, today, todo, snap>>
        /\ day < today /\ day \in todo
    BY <1>2 DEF PutDayRollup, RollupsInv, WrittenSoFar
  <2>2. ASSUME NEW i \in 1..5, i < file' PROVE part'[day][PartFiles[i]] = Stored(snap)
    <3>1. i < file \/ i = file
      BY <1>2, <2>1, <2>2, FileNames, PutDayRollupEffect DEF PartFile
    <3>2. PartFiles[i] \in PartFile
      BY FileNames DEF PartFile
    <3>3. i < file => part[day][PartFiles[i]] = Stored(snap)
      BY <2>1 DEF RollupsInv, WrittenSoFar
    <3>4. QED
      BY <1>2, <3>1, <3>2, <3>3, PutDayRollupEffect
  <2>3. QED
    BY <2>1, <2>2 DEF WrittenSoFar
<1>3. CASE \E f \in Fact : AppendFact(f)
  BY <1>3 DEF AppendFact, sweep, RollupsInv, WrittenSoFar
<1>4. CASE Midnight
  BY <1>4, ConstantsAssumption
     DEF Midnight, sweep, RollupsInv, WrittenSoFar, ServedInv, KeptInv, TypeOK, Day
<1>5. CASE UNCHANGED vars
  BY <1>5 DEF vars, RollupsInv, WrittenSoFar
<1>6. ASSUME pc' # "write" PROVE WrittenSoFar'
  BY <1>6 DEF WrittenSoFar
<1>7. QED
  BY <1>1, <1>2, <1>3, <1>4, <1>5, <1>6
     DEF Next, Compactor, CompactDays, RebuildIndex, PruneHotWindow,
         StartSweep, SkipDay, PutTurns, DaysDone, AfterIndex, ReadPartitions,
         PutRollup, IndexPublished, ListHotWindow, PruneSkip, Verify, Drop,
         PruneDone, SweepFails, Crash, SweepEnds, stored

\* A step that puts no file and takes nothing from the window, and goes on with
\* every day that waits.
LEMMA StillWaits ==
    ASSUME RollupsInv, UNCHANGED part, hot \subseteq hot', today <= today',
           today \in Nat, today' \in Nat,
           \A d \in Day : HalfWritten(d) =>
              /\ pc' \in {"idle", "compact", "write"}
              /\ pc' \in {"compact", "write"} => d \in todo'
    PROVE  HalfWaits'
<1> SUFFICES ASSUME NEW d \in Day, HalfWritten(d)'
             PROVE  /\ d < today' /\ HotOf(d)' # {}
                    /\ pc' \in {"idle", "compact", "write"}
                    /\ pc' \in {"compact", "write"} => d \in todo'
  BY DEF HalfWaits
<1>1. HalfWritten(d)
  BY DEF HalfWritten, IsCompacted
<1>2. d < today /\ HotOf(d) # {}
  BY <1>1 DEF RollupsInv, HalfWaits
<1>3. d < today' /\ HotOf(d)' # {}
  BY <1>2 DEF HotOf, Day
<1>4. QED
  BY <1>1, <1>3

LEMMA StepHalfWaits ==
    ASSUME ~ShortWrites, RollupsInv, [Next]_vars
    PROVE  HalfWaits'
<1>1. /\ today \in Nat /\ today + 1 \in Nat /\ today <= today + 1 /\ today <= today
      /\ \A d \in Day : HalfWritten(d) =>
            /\ d < today /\ HotOf(d) # {} /\ ~IsCompacted(d)
            /\ pc \in {"idle", "compact", "write"}
            /\ pc \in {"compact", "write"} => d \in todo
  BY DEF RollupsInv, HalfWaits, HalfWritten, ServedInv, KeptInv, TypeOK, Day
<1>2. CASE \E f \in Fact : AppendFact(f)
  BY <1>1, <1>2, StillWaits DEF AppendFact, sweep
<1>3. CASE Midnight
  BY <1>1, <1>3, StillWaits DEF Midnight, sweep
<1>4. CASE StartSweep
  <2>1. \A d \in Day : HotOf(d) # {} => d \in HotDays
    BY DEF HotOf, HotDays
  <2>2. QED
    BY <1>1, <1>4, <2>1, StillWaits DEF StartSweep, stored
<1>5. ASSUME NEW d \in Day, SkipDay(d) PROVE HalfWaits'
  <2>1. ~HalfWritten(d)
    <3>1. SUFFICES ASSUME HalfWritten(d) PROVE FALSE
      OBVIOUS
    <3>2. d < today /\ ~(d >= today) /\ HotOf(d) # {} /\ ~IsCompacted(d)
      BY <1>1, <3>1 DEF Day
    <3>3. PICK seen \in BOOLEAN : Probe(IsCompacted(d), seen) /\ ~Compactable(d, seen)
      BY <1>5, <3>2 DEF SkipDay
    <3>4. seen
      BY <3>2, <3>3 DEF Compactable
    <3>5. ~seen
      BY <3>2, <3>3, Zenon DEF Probe
    <3>6. QED
      BY <3>4, <3>5
  <2>2. QED
    BY <1>1, <1>5, <2>1, StillWaits DEF SkipDay, stored
<1>6. ASSUME NEW d \in Day, ReadDay(d) PROVE HalfWaits'
  BY <1>1, <1>6, StillWaits DEF ReadDay, stored
<1>7. CASE PutDayRollup
  <2>1. /\ UNCHANGED <<pc, todo, today, hot>> /\ pc = "write"
        /\ day < today /\ day \in todo /\ HotOf(day) # {}
    BY <1>7 DEF PutDayRollup, RollupsInv, WrittenSoFar, ServedInv, KeptInv, SnapCurrent
  <2>2. ASSUME NEW d \in Day, HalfWritten(d)', d # day PROVE HalfWritten(d)
    BY <1>7, <2>2, PutDayRollupEffect DEF HalfWritten, IsCompacted, PartFile
  <2>3. QED
    BY <1>1, <2>1, <2>2 DEF HalfWaits, HotOf
<1>8. CASE PutTurns
  <2>1. /\ UNCHANGED <<today, hot>> /\ pc = "write" /\ pc' = "compact"
        /\ todo' = todo \ {day}
    BY <1>8 DEF PutTurns
  <2>2. ASSUME NEW d \in Day, HalfWritten(d)' PROVE d # day /\ HalfWritten(d)
    <3>1. part'[day]["turns"].stored
      <4>1. part'[day]["turns"] = Stored(snap)
        BY <1>8, PutTurnsEffect DEF PartFile
      <4>2. QED
        BY <4>1 DEF Stored
    <3>2. d # day
      BY <2>2, <3>1 DEF HalfWritten, IsCompacted
    <3>3. QED
      BY <1>8, <2>2, <3>2, PutTurnsEffect DEF HalfWritten, IsCompacted, PartFile
  <2>3. QED
    BY <1>1, <2>1, <2>2 DEF HalfWaits, HotOf
<1>9. CASE DaysDone
  <2>1. \A d \in Day : ~HalfWritten(d)
    BY <1>1, <1>9 DEF DaysDone
  <2>2. QED
    BY <1>1, <1>9, <2>1, StillWaits DEF DaysDone, stored
<1>10. CASE pc \in {"index", "publish", "list", "prune", "drop"} /\ UNCHANGED part
  BY <1>1, <1>10 DEF HalfWaits, HalfWritten, IsCompacted
<1>11. CASE SweepFails \/ Crash
  BY <1>1, <1>11, StillWaits DEF SweepFails, Crash, SweepEnds
<1>12. CASE UNCHANGED vars
  BY <1>1, <1>12, StillWaits DEF vars
<1>13. QED
  BY <1>2, <1>3, <1>4, <1>5, <1>6, <1>7, <1>8, <1>9, <1>10, <1>11, <1>12
     DEF Next, Compactor, CompactDays, RebuildIndex, PruneHotWindow,
         ReadPartitions, PutRollup, IndexPublished, ListHotWindow, PruneSkip,
         Verify, Drop, PruneDone, stored

\* RebuildIndex reads no half-written day, so what it drafts is right.
LEMMA DraftRight ==
    ASSUME RollupsInv, pc = "index"
    PROVE  \A r \in Rollup, d \in Day :
              IF RollupRow(d, r).stored
              THEN IsCompacted(d) /\ RollupRow(d, r).rows = IngestedOf(d)
              ELSE RollupRow(d, r).rows = {}
<1> SUFFICES ASSUME NEW r \in Rollup, NEW d \in Day
             PROVE  IF RollupRow(d, r).stored
                    THEN IsCompacted(d) /\ RollupRow(d, r).rows = IngestedOf(d)
                    ELSE RollupRow(d, r).rows = {}
  OBVIOUS
<1>1. \A s \in Rollup : part[d][s].stored => IsCompacted(d)
  BY DEF RollupsInv, HalfWaits, HalfWritten
<1>2. IsCompacted(d) => /\ part[d][r].rows = IngestedOf(d)
                        /\ part[d]["turns"].rows = IngestedOf(d)
  <2>1. SUFFICES ASSUME IsCompacted(d)
                 PROVE  /\ part[d][r].rows = IngestedOf(d)
                        /\ part[d]["turns"].rows = IngestedOf(d)
    OBVIOUS
  <2>2. part[d][r] = Stored(IngestedOf(d))
    BY <2>1 DEF RollupsInv, PartitionAlike
  <2>3. part[d]["turns"].rows = IngestedOf(d)
    BY <2>1 DEF RollupsInv, ServedInv, PartitionWhole, Rows
  <2>4. QED
    BY <2>2, <2>3 DEF Stored
<1>3. /\ part[d][r].stored \/ part[d][r].rows = {}
      /\ part[d]["turns"].stored \/ part[d]["turns"].rows = {}
  BY DEF RollupsInv, FilesProper, PartFile
<1>4. CASE RollupRow(d, r) = part[d]["turns"]
  BY <1>2, <1>3, <1>4 DEF IsCompacted
<1>5. CASE RollupRow(d, r) = part[d][r]
  BY <1>1, <1>2, <1>3, <1>5
<1>6. QED
  BY <1>4, <1>5 DEF RollupRow

LEMMA StepIndexes ==
    ASSUME ~LateArrivals, ~ShortWrites, RollupsInv, [Next]_vars
    PROVE  RightAbout(rollup)' /\ RightAbout(draft)' /\ RightAbout(cache)'
<1>1. /\ RightAbout(rollup) /\ RightAbout(draft) /\ RightAbout(cache)
      /\ RightAbout(NoIndex)
  BY NoIndexRight DEF RollupsInv
<1>2. ASSUME NEW idx, RightAbout(idx)
      PROVE  /\ rollup' = idx => RightAbout(rollup)'
             /\ draft' = idx => RightAbout(draft)'
             /\ cache' = idx => RightAbout(cache)'
  <2>1. \A r \in Rollup, d \in Day :
           IF idx[r][d].stored
           THEN IsCompacted(d)' /\ idx[r][d].rows = IngestedOf(d)'
           ELSE idx[r][d].rows = {}
    BY <1>2, RightStays
  <2>2. QED
    BY <2>1 DEF RightAbout
<1>3. cache' \in {cache, NoIndex}
  BY DEF Next, Compactor, CompactDays, RebuildIndex, PruneHotWindow, AppendFact,
         Midnight, StartSweep, SkipDay, ReadDay, PutDayRollup, PutTurns,
         DaysDone, ReadPartitions, PutRollup, IndexPublished, ListHotWindow,
         PruneSkip, Verify, Drop, PruneDone, SweepFails, Crash, vars, stored,
         sweep
<1>4. RightAbout(cache)'
  BY <1>1, <1>2, <1>3
<1>5. RightAbout(draft)'
  <2>1. CASE ReadPartitions
    <3>1. /\ UNCHANGED <<part, ingested>> /\ pc = "index"
          /\ draft' = [r \in Rollup |-> [d \in Day |-> RollupRow(d, r)]]
      BY <2>1 DEF ReadPartitions, stored
    <3>2. \A r \in Rollup, d \in Day : draft'[r][d] = RollupRow(d, r)
      BY <3>1
    <3>3. \A d \in Day : IsCompacted(d)' = IsCompacted(d)
                         /\ IngestedOf(d)' = IngestedOf(d)
      BY <3>1 DEF IsCompacted, IngestedOf
    <3>4. QED
      BY <3>1, <3>2, <3>3, DraftRight DEF RightAbout
  <2>2. CASE draft' \in {draft, NoIndex}
    BY <1>1, <1>2, <2>2
  <2>3. QED
    BY <2>1, <2>2
       DEF Next, Compactor, CompactDays, RebuildIndex, PruneHotWindow,
           AppendFact, Midnight, StartSweep, SkipDay, ReadDay, PutDayRollup,
           PutTurns, DaysDone, AfterIndex, PutRollup, IndexPublished,
           ListHotWindow, PruneSkip, Verify, Drop, PruneDone, SweepFails, Crash,
           SweepEnds, vars, stored, sweep
<1>6. RightAbout(rollup)'
  <2>1. CASE PutRollup
    <3>1. /\ UNCHANGED <<part, ingested>> /\ rollup \in Index
          /\ rollup' = [rollup EXCEPT ![RollupFiles[file]] = draft[RollupFiles[file]]]
      BY <2>1 DEF PutRollup, RollupsInv, ServedInv, KeptInv, TypeOK
    <3>2. \A r \in Rollup : rollup'[r] \in {rollup[r], draft[r]}
      BY <3>1 DEF Index
    <3>3. \A d \in Day : IsCompacted(d)' = IsCompacted(d)
                         /\ IngestedOf(d)' = IngestedOf(d)
      BY <3>1 DEF IsCompacted, IngestedOf
    <3>4. ASSUME NEW r \in Rollup, NEW d \in Day
          PROVE  IF rollup'[r][d].stored
                 THEN IsCompacted(d)' /\ rollup'[r][d].rows = IngestedOf(d)'
                 ELSE rollup'[r][d].rows = {}
      BY <1>1, <3>2, <3>3 DEF RightAbout
    <3>5. QED
      BY <3>4 DEF RightAbout
  <2>2. CASE UNCHANGED rollup
    BY <1>1, <1>2, <2>2
  <2>3. QED
    BY <2>1, <2>2
       DEF Next, Compactor, CompactDays, RebuildIndex, PruneHotWindow,
           AppendFact, Midnight, StartSweep, SkipDay, ReadDay, PutDayRollup,
           PutTurns, DaysDone, ReadPartitions, IndexPublished, ListHotWindow,
           PruneSkip, Verify, Drop, PruneDone, SweepFails, Crash, vars, stored,
           sweep
<1>7. QED
  BY <1>4, <1>5, <1>6

LEMMA StepRollups ==
    ASSUME ~LateArrivals, ~ShortWrites, RollupsInv, [Next]_vars
    PROVE  RollupsInv'
<1>1. ServedInv'
  BY StepKept, StepPartitionWhole DEF RollupsInv, ServedInv
<1>2. PartitionAlike' /\ WrittenSoFar' /\ HalfWaits' /\ FilesProper'
  BY StepPartitionAlike, StepWrittenSoFar, StepHalfWaits, StepFilesProper
<1>3. QED
  BY <1>1, <1>2, StepIndexes DEF RollupsInv

\* The turns file is last: where it is, the five rollups of the same
\* compaction are, however often a day was begun and given up, or compacted
\* again.
THEOREM MarkMeansWhole ==
    ASSUME ~LateArrivals, ~ShortWrites
    PROVE  Spec => []TurnsFileMeansWholePartition
<1>1. Init => RollupsInv
  BY InitRollups
<1>2. RollupsInv /\ [Next]_vars => RollupsInv'
  BY StepRollups
<1>3. ASSUME RollupsInv, NEW d \in Day, IsCompacted(d), NEW r \in Rollup
      PROVE  part[d][r] = part[d]["turns"]
  <2>1. part[d]["turns"] \in File
    <3>1. part \in [Day -> [PartFile -> File]]
      BY <1>3 DEF RollupsInv, ServedInv, KeptInv, TypeOK
    <3>2. QED
      BY <3>1 DEF PartFile
  <2>2. part[d]["turns"].stored /\ part[d]["turns"].rows = IngestedOf(d)
    BY <1>3 DEF RollupsInv, ServedInv, PartitionWhole, Rows, IsCompacted
  <2>3. part[d]["turns"] = Stored(IngestedOf(d))
    BY <2>1, <2>2 DEF File, Stored
  <2>4. QED
    BY <1>3, <2>3 DEF RollupsInv, PartitionAlike
<1>4. RollupsInv => TurnsFileMeansWholePartition
  BY <1>3 DEF TurnsFileMeansWholePartition
<1>5. QED
  BY <1>1, <1>2, <1>4, PTL DEF Spec

\* A published row counts its whole day, whatever RebuildIndex found half
\* written, and whenever it was read: between two puts too.
THEOREM RowsArePublishedWhole ==
    ASSUME ~LateArrivals, ~ShortWrites
    PROVE  Spec => []RollupRowsWhole
<1>1. Init => RollupsInv
  BY InitRollups
<1>2. RollupsInv /\ [Next]_vars => RollupsInv'
  BY StepRollups
<1>3. RollupsInv => RollupRowsWhole
  BY DEF RollupsInv, RightAbout, RollupRowsWhole
<1>4. QED
  BY <1>1, <1>2, <1>3, PTL DEF Spec

-----------------------------------------------------------------------------
(* What the index does not list and the window does not hold was never     *)
(* ingested, as long as no sweep has failed: a failure between a day's     *)
(* partition and the index leaves a day that the next sweep releases.      *)

\* A compacted day has the file its row of the index is read from.
DayFileStored ==
    /\ \A d \in Day : IsCompacted(d) => part[d]["day"].stored
    /\ pc = "write" /\ file > 1 => part[day]["day"].stored

\* Only a compacted day is released, and only one that the index lists.
ReleasedCompacted == \A d \in Day : IngestedOf(d) \subseteq HotOf(d) \/ IsCompacted(d)
ReleasedListed ==
    \A d \in Day : IngestedOf(d) \subseteq HotOf(d) \/ rollup["day"][d].stored
DropCompacted == pc = "drop" => IsCompacted(day)

\* The published index lists every compacted day.
Covered == \A d \in Day : IsCompacted(d) => rollup["day"][d].stored

\* It does, but for the rest of a sweep that has written a partition, until
\* the first of the five Puts; what is to be put lists every one too.
CoveredUntilWritten ==
    /\ \/ pc \in {"idle", "list", "prune", "drop"}
       \/ pc \in {"compact", "write"} /\ ~wrote
       \/ pc = "publish" /\ file > 1
       => Covered
    /\ pc = "publish" =>
          \A d \in Day : IsCompacted(d) => draft["day"][d].stored

ListedInv ==
    /\ DayFileStored /\ ReleasedCompacted /\ ReleasedListed /\ DropCompacted
    /\ CoveredUntilWritten

EmptyInv == TypeOK /\ (faults = 0 => ListedInv)

LEMMA InitEmpty == Init => EmptyInv
<1> SUFFICES ASSUME Init PROVE EmptyInv
  OBVIOUS
<1>1. \A d \in Day : ~IsCompacted(d)
  BY DEF Init, IsCompacted, PartFile, Absent
<1>2. \A d \in Day : IngestedOf(d) = {}
  BY DEF Init, IngestedOf
<1>3. pc = "idle"
  BY DEF Init, IdleLocals
<1>4. QED
  BY <1>1, <1>2, <1>3, InitTypeOK
     DEF EmptyInv, ListedInv, DayFileStored, ReleasedCompacted, ReleasedListed,
         DropCompacted, CoveredUntilWritten, Covered

\* A step of the sweep that puts no file of a day, and releases none, keeps what
\* does not depend on the step the sweep is at.
LEMMA FilesAsTheyWere ==
    ASSUME ListedInv, UNCHANGED <<part, ingested, hot, rollup>>
    PROVE  /\ \A d \in Day : /\ IsCompacted(d)' = IsCompacted(d)
                             /\ part'[d] = part[d]
           /\ ReleasedCompacted' /\ ReleasedListed' /\ Covered' = Covered
           /\ \A d \in Day : IsCompacted(d)' => part'[d]["day"].stored
BY DEF ListedInv, DayFileStored, ReleasedCompacted, ReleasedListed, Covered,
       IngestedOf, HotOf, IsCompacted

\* A sweep that goes on to prune, or stops, does so under an index that lists
\* what is compacted.
LEMMA QuietListed ==
    ASSUME ListedInv, UNCHANGED <<part, ingested, hot, rollup>>,
           pc' \in {"idle", "compact", "list", "prune"},
           Covered \/ (pc' = "compact" /\ wrote')
    PROVE  ListedInv'
<1>1. /\ ReleasedCompacted' /\ ReleasedListed' /\ Covered' = Covered
      /\ \A d \in Day : IsCompacted(d)' => part'[d]["day"].stored
  BY FilesAsTheyWere
<1>2. DayFileStored' /\ DropCompacted'
  BY <1>1 DEF DayFileStored, DropCompacted
<1>3. CoveredUntilWritten'
  BY <1>1 DEF CoveredUntilWritten
<1>4. QED
  BY <1>1, <1>2, <1>3 DEF ListedInv

LEMMA PutDayRollupListed ==
    ASSUME TypeOK, ListedInv, PutDayRollup
    PROVE  ListedInv'
<1>1. /\ pc = "write" /\ file \in 1..5 /\ file' = file + 1
      /\ day \in Day /\ part \in [Day -> [PartFile -> File]]
      /\ UNCHANGED <<pc, day, hot, ingested, rollup, wrote, draft>>
      /\ part' = [part EXCEPT ![day][PartFiles[file]] = Stored(snap)]
  BY FileNames DEF PutDayRollup, TypeOK
<1>2. PartFiles[file] \in PartFile /\ PartFiles[file] # "turns"
      /\ "turns" \in PartFile /\ "day" \in PartFile
  BY <1>1, FileNames DEF PartFile, Rollup
<1>3. \A d \in Day, p \in PartFile :
         part'[d][p] = IF d = day /\ p = PartFiles[file] THEN Stored(snap) ELSE part[d][p]
  BY <1>1, <1>2
<1>4. \A d \in Day : IsCompacted(d)' = IsCompacted(d)
  BY <1>2, <1>3 DEF IsCompacted
<1>5. \A d \in Day : part[d]["day"].stored => part'[d]["day"].stored
  BY <1>2, <1>3 DEF Stored
<1>6. part'[day]["day"].stored
  <2>1. CASE file = 1
    BY <1>1, <1>2, <1>3, <2>1 DEF PartFiles, Stored
  <2>2. CASE file > 1
    BY <1>1, <1>5, <2>2 DEF ListedInv, DayFileStored
  <2>3. QED
    BY <1>1, <2>1, <2>2
<1>7. DayFileStored'
  BY <1>1, <1>4, <1>5, <1>6 DEF ListedInv, DayFileStored
<1>8. ReleasedCompacted' /\ ReleasedListed'
  BY <1>1, <1>4 DEF ListedInv, ReleasedCompacted, ReleasedListed, IngestedOf, HotOf
<1>9. DropCompacted' /\ CoveredUntilWritten'
  BY <1>1, <1>4 DEF ListedInv, DropCompacted, CoveredUntilWritten, Covered
<1>10. QED
  BY <1>7, <1>8, <1>9 DEF ListedInv

LEMMA PutTurnsListed ==
    ASSUME TypeOK, ListedInv, PutTurns
    PROVE  ListedInv'
<1>1. /\ pc = "write" /\ file = 6 /\ pc' = "compact" /\ wrote'
      /\ day \in Day /\ part \in [Day -> [PartFile -> File]]
      /\ UNCHANGED <<hot, ingested, rollup>>
  BY FileNames DEF PutTurns, TypeOK
<1>2. PICK R \in StoredTurns(snap) : part' = [part EXCEPT ![day]["turns"] = Stored(R)]
  BY DEF PutTurns
<1>3. "turns" \in PartFile /\ "day" \in PartFile /\ "day" # "turns"
  BY DEF PartFile, Rollup
<1>4. \A d \in Day : part'[d]["day"] = part[d]["day"]
  BY <1>1, <1>2, <1>3
<1>5. \A d \in Day : IsCompacted(d)' <=> (IsCompacted(d) \/ d = day)
  BY <1>1, <1>2, <1>3 DEF IsCompacted, Stored
<1>6. DayFileStored'
  BY <1>1, <1>4, <1>5 DEF ListedInv, DayFileStored
<1>7. ReleasedCompacted' /\ ReleasedListed'
  BY <1>1, <1>5 DEF ListedInv, ReleasedCompacted, ReleasedListed, IngestedOf, HotOf
<1>8. DropCompacted' /\ CoveredUntilWritten'
  BY <1>1 DEF DropCompacted, CoveredUntilWritten
<1>9. QED
  BY <1>6, <1>7, <1>8 DEF ListedInv

\* RebuildIndex reads the day's file of every compacted day.
LEMMA ReadPartitionsListed ==
    ASSUME TypeOK, ListedInv, ReadPartitions
    PROVE  ListedInv'
<1>1. /\ pc' = "publish" /\ file' = 1 /\ UNCHANGED <<hot, ingested, rollup, part>>
      /\ draft' = [r \in Rollup |-> [d \in Day |-> RollupRow(d, r)]]
  BY DEF ReadPartitions, stored
<1>2. \A d \in Day : draft'["day"][d] = part[d]["day"]
  BY <1>1 DEF Rollup, RollupRow
<1>3. /\ ReleasedCompacted' /\ ReleasedListed'
      /\ \A d \in Day : IsCompacted(d)' = IsCompacted(d)
      /\ \A d \in Day : IsCompacted(d)' => part'[d]["day"].stored
  BY <1>1, FilesAsTheyWere
<1>4. DayFileStored' /\ DropCompacted' /\ CoveredUntilWritten'
  BY <1>1, <1>2, <1>3 DEF DayFileStored, DropCompacted, CoveredUntilWritten
<1>5. QED
  BY <1>3, <1>4 DEF ListedInv

\* The first Put is the one that matters; the other four leave it alone.
LEMMA PutRollupListed ==
    ASSUME TypeOK, ListedInv, PutRollup
    PROVE  ListedInv'
<1>1. /\ pc = "publish" /\ file \in 1..5 /\ file' = file + 1
      /\ UNCHANGED <<pc, hot, ingested, part, draft>>
      /\ rollup \in Index /\ draft \in Index
      /\ rollup' = [rollup EXCEPT ![RollupFiles[file]] = draft[RollupFiles[file]]]
  BY FileNames DEF PutRollup, TypeOK
<1>2. "day" \in Rollup /\ RollupFiles[file] \in Rollup
  BY <1>1, FileNames DEF Rollup
<1>3. \A d \in Day : IsCompacted(d) => draft["day"][d].stored
  BY <1>1 DEF ListedInv, CoveredUntilWritten
<1>4. ASSUME file = 1 PROVE ReleasedListed' /\ Covered'
  <2>1. rollup'["day"] = draft["day"]
    BY <1>1, <1>2, <1>4 DEF RollupFiles, Index
  <2>2. ReleasedListed'
    BY <1>1, <1>3, <2>1
       DEF ListedInv, ReleasedCompacted, ReleasedListed, IngestedOf, HotOf
  <2>3. Covered'
    BY <1>1, <1>3, <2>1 DEF Covered, IsCompacted
  <2>4. QED
    BY <2>2, <2>3
<1>5. ASSUME file > 1 PROVE ReleasedListed' /\ Covered'
  <2>1. RollupFiles[file] # "day"
    BY <1>1, <1>5 DEF RollupFiles
  <2>2. rollup'["day"] = rollup["day"]
    BY <1>1, <1>2, <2>1 DEF Index
  <2>3. ReleasedListed'
    BY <1>1, <2>2 DEF ListedInv, ReleasedListed, IngestedOf, HotOf
  <2>4. Covered'
    BY <1>1, <1>5, <2>2 DEF ListedInv, CoveredUntilWritten, Covered, IsCompacted
  <2>5. QED
    BY <2>3, <2>4
<1>6. ReleasedListed' /\ Covered'
  BY <1>1, <1>4, <1>5
<1>7. CoveredUntilWritten'
  BY <1>1, <1>3, <1>6 DEF CoveredUntilWritten, IsCompacted
<1>8. DayFileStored' /\ ReleasedCompacted' /\ DropCompacted'
  BY <1>1 DEF ListedInv, DayFileStored, ReleasedCompacted, DropCompacted, IngestedOf,
              HotOf, IsCompacted
<1>9. QED
  BY <1>6, <1>7, <1>8 DEF ListedInv

\* The day released is compacted, and listed by then.
LEMMA DropListed ==
    ASSUME TypeOK, ListedInv, Drop
    PROVE  ListedInv'
<1>1. /\ pc = "drop" /\ pc' = "prune" /\ hot' = hot \ HotOf(day) /\ day \in Day
      /\ UNCHANGED <<part, ingested, rollup>>
  BY DEF Drop, TypeOK
<1>2. IsCompacted(day) /\ rollup["day"][day].stored
  BY <1>1 DEF ListedInv, DropCompacted, CoveredUntilWritten, Covered
<1>3. ASSUME NEW d \in Day, d # day PROVE HotOf(d)' = HotOf(d)
  BY <1>1, <1>3 DEF HotOf
<1>4. ReleasedCompacted' /\ ReleasedListed'
  BY <1>1, <1>2, <1>3
     DEF ListedInv, ReleasedCompacted, ReleasedListed, IngestedOf, IsCompacted
<1>5. DayFileStored' /\ DropCompacted' /\ CoveredUntilWritten'
  BY <1>1 DEF ListedInv, DayFileStored, DropCompacted, CoveredUntilWritten, Covered,
              IsCompacted
<1>6. QED
  BY <1>4, <1>5 DEF ListedInv

LEMMA StepListed ==
    ASSUME TypeOK, ListedInv, [Next]_vars, faults' = faults
    PROVE  ListedInv'
<1>1. ASSUME NEW f \in Fact, AppendFact(f) PROVE ListedInv'
  <2>1. /\ hot' = hot \cup {f} /\ ingested' = ingested \cup {f}
        /\ UNCHANGED <<part, rollup, pc, file, day, wrote, draft>>
    BY <1>1 DEF AppendFact, sweep
  <2>2. ReleasedCompacted' /\ ReleasedListed'
    BY <2>1 DEF ListedInv, ReleasedCompacted, ReleasedListed, IngestedOf, HotOf, IsCompacted
  <2>3. QED
    BY <2>1, <2>2 DEF ListedInv, DayFileStored, DropCompacted, CoveredUntilWritten,
                      Covered, IsCompacted
<1>2. CASE Midnight \/ UNCHANGED vars
  <2>1. UNCHANGED <<part, hot, ingested, rollup, pc, file, day, wrote, draft>>
    BY <1>2 DEF Midnight, sweep, vars
  <2>2. QED
    BY <2>1 DEF ListedInv, DayFileStored, DropCompacted, CoveredUntilWritten, Covered,
                IsCompacted, ReleasedCompacted, ReleasedListed, IngestedOf, HotOf
<1>3. CASE StartSweep
  <2>1. pc' = "compact" /\ Covered /\ UNCHANGED <<part, hot, ingested, rollup>>
    BY <1>3 DEF StartSweep, stored, ListedInv, CoveredUntilWritten
  <2>2. QED
    BY <2>1, QuietListed
<1>4. ASSUME NEW d \in Day, SkipDay(d) PROVE ListedInv'
  <2>1. /\ pc' = "compact" /\ (Covered \/ wrote') /\ UNCHANGED <<part, hot, ingested, rollup>>
    BY <1>4 DEF SkipDay, stored, ListedInv, CoveredUntilWritten, TypeOK
  <2>2. QED
    BY <2>1, QuietListed
<1>5. ASSUME NEW d \in Day, ReadDay(d) PROVE ListedInv'
  <2>1. /\ pc = "compact" /\ pc' = "write" /\ file' = 1
        /\ UNCHANGED <<part, hot, ingested, rollup, wrote, draft>>
    BY <1>5 DEF ReadDay, stored
  <2>2. /\ ReleasedCompacted' /\ ReleasedListed' /\ Covered' = Covered
        /\ \A e \in Day : IsCompacted(e)' => part'[e]["day"].stored
    BY <2>1, FilesAsTheyWere
  <2>3. DayFileStored' /\ DropCompacted' /\ CoveredUntilWritten'
    BY <2>1, <2>2 DEF DayFileStored, DropCompacted, CoveredUntilWritten, ListedInv
  <2>4. QED
    BY <2>2, <2>3 DEF ListedInv
<1>6. CASE DaysDone
  <2>1. UNCHANGED <<part, hot, ingested, rollup>> /\ pc = "compact"
    BY <1>6 DEF DaysDone, stored
  <2>2. CASE pc' = "index"
    <3>1. /\ ReleasedCompacted' /\ ReleasedListed'
          /\ \A e \in Day : IsCompacted(e)' => part'[e]["day"].stored
      BY <2>1, FilesAsTheyWere
    <3>2. QED
      BY <2>2, <3>1 DEF ListedInv, DayFileStored, DropCompacted, CoveredUntilWritten
  <2>3. CASE AfterIndex /\ ~wrote
    <3>1. pc' \in {"idle", "list"} /\ Covered
      BY <2>1, <2>3 DEF AfterIndex, SweepEnds, ListedInv, CoveredUntilWritten
    <3>2. QED
      BY <2>1, <3>1, QuietListed
  <2>4. QED
    BY <1>6, <2>2, <2>3 DEF DaysDone
<1>7. CASE IndexPublished
  <2>1. /\ UNCHANGED <<part, hot, ingested, rollup>> /\ pc = "publish" /\ file > 1
    BY <1>7, FileNames DEF IndexPublished, TypeOK
  <2>2. Covered /\ pc' \in {"idle", "list"}
    BY <1>7, <2>1 DEF IndexPublished, AfterIndex, SweepEnds, ListedInv, CoveredUntilWritten
  <2>3. QED
    BY <2>1, <2>2, QuietListed
<1>8. CASE ListHotWindow \/ PruneDone
  <2>1. /\ UNCHANGED <<part, hot, ingested, rollup>> /\ pc \in {"list", "prune"}
        /\ pc' \in {"prune", "idle"}
    BY <1>8 DEF ListHotWindow, PruneDone, SweepEnds, stored
  <2>2. QED
    BY <2>1, QuietListed DEF ListedInv, CoveredUntilWritten
<1>9. ASSUME NEW d \in Day, PruneSkip(d) PROVE ListedInv'
  <2>1. /\ UNCHANGED <<part, hot, ingested, rollup>> /\ pc = "prune" /\ pc' = "prune"
    BY <1>9 DEF PruneSkip, stored
  <2>2. QED
    BY <2>1, QuietListed DEF ListedInv, CoveredUntilWritten
<1>10. ASSUME NEW d \in Day, Verify(d) PROVE ListedInv'
  <2>1. /\ UNCHANGED <<part, hot, ingested, rollup>> /\ pc = "prune" /\ IsCompacted(d)
        /\ pc' = "idle" \/ (pc' = "drop" /\ day' = d)
    BY <1>10 DEF Verify, SweepEnds, stored
  <2>2. /\ ReleasedCompacted' /\ ReleasedListed' /\ Covered' = Covered
        /\ \A e \in Day : IsCompacted(e)' = IsCompacted(e)
        /\ \A e \in Day : IsCompacted(e)' => part'[e]["day"].stored
    BY <2>1, FilesAsTheyWere
  <2>3. DropCompacted'
    BY <2>1 DEF DropCompacted, IsCompacted
  <2>4. QED
    BY <2>1, <2>2, <2>3 DEF ListedInv, DayFileStored, CoveredUntilWritten
<1>11. CASE SweepFails \/ Crash
  <2>1. faults' = faults + 1
    BY <1>11 DEF SweepFails, Crash
  <2>2. QED
    BY <2>1, ConstantsAssumption DEF TypeOK
<1>12. QED
  BY <1>1, <1>2, <1>3, <1>4, <1>5, <1>6, <1>7, <1>8, <1>9, <1>10, <1>11,
     PutDayRollupListed, PutTurnsListed, ReadPartitionsListed, PutRollupListed, DropListed
     DEF Next, Compactor, CompactDays, RebuildIndex, PruneHotWindow

\* Failures are counted up, never down.
LEMMA FaultsGrow ==
    ASSUME TypeOK, [Next]_vars PROVE faults' >= faults
<1>1. faults \in Nat
  BY ConstantsAssumption DEF TypeOK
<1>2. faults' = faults \/ faults' = faults + 1
  BY DEF Next, Compactor, CompactDays, RebuildIndex, PruneHotWindow, AppendFact, Midnight,
         StartSweep, SkipDay, ReadDay, PutDayRollup, PutTurns, DaysDone, ReadPartitions,
         PutRollup, IndexPublished, ListHotWindow, PruneSkip, Verify, Drop, PruneDone,
         SweepFails, Crash, Probe, vars, stored, sweep
<1>3. QED
  BY <1>1, <1>2

\* Until the first failed sweep or crash, a day that neither the index nor the
\* window knows is empty: whatever events arrive late, whatever a turns file was
\* stored short of.
THEOREM NothingHiddenBeforeAFault == Spec => [](faults = 0 => KnownEmptyIsEmpty)
<1>1. Init => EmptyInv
  BY InitEmpty
<1>2. EmptyInv /\ [Next]_vars => EmptyInv'
  <2> SUFFICES ASSUME EmptyInv, [Next]_vars PROVE EmptyInv'
    OBVIOUS
  <2>1. TypeOK /\ TypeOK'
    BY StepTypeOK DEF EmptyInv
  <2>2. CASE faults' = 0
    <3>1. faults = 0
      BY <2>1, <2>2, FaultsGrow, ConstantsAssumption DEF TypeOK
    <3>2. QED
      BY <2>1, <2>2, <3>1, StepListed DEF EmptyInv
  <2>3. QED
    BY <2>1, <2>2 DEF EmptyInv
<1>3. EmptyInv => (faults = 0 => KnownEmptyIsEmpty)
  <2> SUFFICES ASSUME ListedInv, NEW d \in Day, ~rollup["day"][d].stored, d \notin HotDays
               PROVE  IngestedOf(d) = {}
    BY DEF EmptyInv, KnownEmptyIsEmpty
  <2>1. HotOf(d) = {}
    BY DEF HotOf, HotDays
  <2>2. QED
    BY <2>1 DEF ListedInv, ReleasedListed
<1>4. QED
  BY <1>1, <1>2, <1>3, PTL DEF Spec

-----------------------------------------------------------------------------
(* ArchiveReads: the cached rollup.                                        *)

Phase == {"idle", "load", "objects", "install", "choose", "day", "rollup",
          "breakdown", "turns", "events", "done"}

QueryRecord ==
    [pc : Phase, kind : Kinds, idx : Index, file : 1..6, hotDays : SUBSET Day,
     want : SUBSET Day, whole : SUBSET Day, got : SUBSET Fact,
     split : SUBSET Fact, must : SUBSET Fact, mixed : BOOLEAN]

\* The objects of the rollup are read by their names, and the rollup of a day
\* only for a query that one can answer.
Named(q) ==
    /\ q.pc = "objects" => q.file \in 1..5
    /\ q.pc = "rollup" => q.kind \in DOMAIN RollupOf

\* Every copy of the index, wherever it is, has only rows that are right.
CopiesInv ==
    /\ RollupsInv
    /\ query \in [Reader -> QueryRecord]
    /\ \A r \in Reader : Named(query[r]) /\ RightAbout(query[r].idx)

\* A step of a query, seen from outside: it leaves one record of a query, and
\* all the archive has but the cached index.
Leaves(r, q) ==
    /\ q \in QueryRecord /\ Named(q) /\ RightAbout(q.idx)
    /\ Becomes(r, q)
    /\ UNCHANGED <<today, hot, part, rollup, published, ingested, faults,
                   rebuild, sweep>>
    /\ cache' \in {cache, query[r].idx}

LEMMA IdleRight == Idle \in QueryRecord /\ Named(Idle) /\ RightAbout(Idle.idx)
BY NoIndexType, NoIndexRight DEF Idle, QueryRecord, Phase, Kinds, Named

\* The day is one of the archive's, and the facts of it are.
LEMMA FactsOfDays ==
    ASSUME RollupsInv, NEW d \in Day
    PROVE  /\ HotOf(d) \subseteq Fact /\ IngestedOf(d) \subseteq Fact
           /\ \A p \in PartFile : part[d][p].rows \subseteq Fact
           /\ Rollup \subseteq PartFile /\ "turns" \in PartFile
BY DEF RollupsInv, ServedInv, KeptInv, TypeOK, HotOf, IngestedOf, File, PartFile

\* An object read from the stored index into a copy of an earlier one.
LEMMA ObjectRead ==
    ASSUME RollupsInv, NEW idx \in Index, RightAbout(idx), NEW name \in Rollup
    PROVE  /\ [idx EXCEPT ![name] = rollup[name]] \in Index
           /\ RightAbout([idx EXCEPT ![name] = rollup[name]])
<1> DEFINE new == [idx EXCEPT ![name] = rollup[name]]
<1>1. rollup \in Index /\ RightAbout(rollup)
  BY DEF RollupsInv, ServedInv, KeptInv, TypeOK
<1>2. new \in Index
  BY <1>1 DEF Index
<1>3. \A r \in Rollup : new[r] \in {idx[r], rollup[r]}
  BY DEF Index
<1>4. RightAbout(new)
  <2> HIDE DEF new
  <2>1. QED
    BY <1>1, <1>3 DEF RightAbout
<1>5. QED
  BY <1>2, <1>4

LEMMA LoadLeaves ==
    ASSUME CopiesInv, NEW r \in Reader,
           \/ \E k \in Kind : Begin(r, k)
           \/ LoadCached(r) \/ ReadFirstObject(r) \/ ReadNextObject(r)
           \/ InstallIndex(r)
    PROVE  \E q \in QueryRecord : Leaves(r, q)
<1> DEFINE q0 == query[r]
<1>1. q0 \in QueryRecord /\ Named(q0) /\ RightAbout(q0.idx)
  BY DEF CopiesInv
<1>2. /\ cache \in Index /\ RightAbout(cache) /\ ingested \subseteq Fact
      /\ today \in Day
  BY DEF CopiesInv, RollupsInv, ServedInv, KeptInv, TypeOK
<1>3. \A q : q \in QueryRecord /\ Named(q) /\ RightAbout(q.idx)
                /\ Becomes(r, q) /\ Reads => Leaves(r, q)
  BY DEF Leaves, Reads, vars, sweep
<1>4. ASSUME NEW k \in Kind, Begin(r, k) PROVE \E q \in QueryRecord : Leaves(r, q)
  <2>1. PICK w \in WholeDays(k) :
            Becomes(r, [Idle EXCEPT !.pc = "load", !.kind = k, !.whole = w,
                                    !.must = ingested])
    BY <1>4 DEF Begin
  <2> DEFINE q1 == [Idle EXCEPT !.pc = "load", !.kind = k, !.whole = w,
                                !.must = ingested]
  <2>2. k \in Kinds /\ w \subseteq Day
    <3>1. w = {} \/ w = 2..(today - 1)
      BY <2>1 DEF WholeDays
    <3>2. 2..(today - 1) \subseteq Day
      BY <1>2, ConstantsAssumption DEF Day
    <3>3. QED
      BY <3>1, <3>2, KindsAssumption
  <2>3. q1 \in QueryRecord
    BY <1>2, <2>2, IdleRight DEF QueryRecord, Phase
  <2>4. q1.idx = Idle.idx /\ q1.pc = "load"
    BY DEF Idle
  <2>5. Named(q1) /\ RightAbout(q1.idx)
    BY <2>4, IdleRight DEF Named
  <2>6. Reads /\ Becomes(r, q1)
    BY <1>4, <2>1 DEF Begin
  <2>7. QED
    BY <1>3, <2>3, <2>5, <2>6
<1>5. CASE LoadCached(r)
  <2> DEFINE q1 == [q0 EXCEPT !.idx = cache, !.pc = "choose"]
  <2>1. Reads /\ Becomes(r, q1)
    BY <1>5 DEF LoadCached
  <2>2. q1 \in QueryRecord /\ q1.idx = cache /\ q1.pc = "choose"
    BY <1>1, <1>2 DEF QueryRecord, Phase
  <2>3. QED
    BY <1>2, <1>3, <2>1, <2>2 DEF Named
<1>6. CASE ReadFirstObject(r)
  <2> DEFINE p1 == IF rollup["day"] = NoIndex["day"] THEN "install" ELSE "objects"
             i1 == [q0.idx EXCEPT !["day"] = rollup["day"]]
             q1 == [q0 EXCEPT !.idx = i1, !.file = 2, !.pc = p1]
  <2>1. q0.idx \in Index /\ "day" \in Rollup
    BY <1>1 DEF QueryRecord, Rollup
  <2>2. i1 \in Index /\ RightAbout(i1)
    BY <1>1, <2>1, ObjectRead DEF CopiesInv
  <2>3. Reads /\ Becomes(r, [q0 EXCEPT !.idx["day"] = rollup["day"], !.file = 2,
                                       !.pc = p1])
    BY <1>6 DEF ReadFirstObject
  <2>4. [q0 EXCEPT !.idx["day"] = rollup["day"], !.file = 2, !.pc = p1] = q1
    OBVIOUS
  <2>5. q1 \in QueryRecord /\ q1.idx = i1 /\ q1.file = 2 /\ q1.pc = p1
    <3> HIDE DEF i1
    <3>1. p1 \in Phase /\ 2 \in 1..6
      BY DEF Phase
    <3> HIDE DEF p1, q0
    <3>2. QED
      BY <1>1, <2>2, <3>1 DEF QueryRecord
  <2>6. Named(q1) /\ RightAbout(q1.idx)
    <3>1. p1 # "rollup"
      OBVIOUS
    <3> HIDE DEF i1, q1, p1
    <3>2. QED
      BY <2>2, <2>5, <3>1 DEF Named
  <2>7. QED
    BY <1>3, <2>3, <2>4, <2>5, <2>6
<1>7. CASE ReadNextObject(r)
  <2> DEFINE f == q0.file
             p1 == IF f = Len(RollupFiles) THEN "install" ELSE "objects"
             i1 == [q0.idx EXCEPT ![RollupFiles[f]] = rollup[RollupFiles[f]]]
             q1 == [q0 EXCEPT !.idx = i1, !.file = f + 1, !.pc = p1]
  <2>1. f \in 1..5 /\ q0.idx \in Index
    BY <1>1, <1>7 DEF ReadNextObject, At, Named, QueryRecord
  <2>2. i1 \in Index /\ RightAbout(i1)
    BY <1>1, <2>1, FileNames, ObjectRead DEF CopiesInv
  <2>3. Reads /\ Becomes(r, [q0 EXCEPT !.idx[RollupFiles[f]] = rollup[RollupFiles[f]],
                                       !.file = f + 1, !.pc = p1])
    BY <1>7 DEF ReadNextObject
  <2>4. [q0 EXCEPT !.idx[RollupFiles[f]] = rollup[RollupFiles[f]], !.file = f + 1,
                   !.pc = p1] = q1
    OBVIOUS
  <2>5. q1 \in QueryRecord /\ q1.idx = i1 /\ q1.file = f + 1 /\ q1.pc = p1
    <3> HIDE DEF i1
    <3>1. p1 \in Phase /\ f + 1 \in 1..6
      BY <2>1 DEF Phase
    <3> HIDE DEF p1, f
    <3>2. QED
      BY <1>1, <2>2, <3>1 DEF QueryRecord
  <2>6. Named(q1) /\ RightAbout(q1.idx)
    <3>1. p1 # "rollup" /\ (p1 = "objects" => f + 1 \in 1..5)
      BY <2>1, FileNames
    <3> HIDE DEF i1, q1, p1, f
    <3>2. QED
      BY <2>2, <2>5, <3>1 DEF Named
  <2>7. QED
    BY <1>3, <2>3, <2>4, <2>5, <2>6
<1>8. CASE InstallIndex(r)
  <2> DEFINE q1 == [q0 EXCEPT !.pc = "choose"]
  <2>1. q1 \in QueryRecord /\ q1.idx = q0.idx /\ q1.pc = "choose"
    BY <1>1 DEF QueryRecord, Phase
  <2>2. Named(q1) /\ RightAbout(q1.idx)
    BY <1>1, <2>1 DEF Named
  <2>3. QED
    BY <1>8, <2>1, <2>2 DEF InstallIndex, Leaves
<1>9. QED
  BY <1>4, <1>5, <1>6, <1>7, <1>8

\* A record of a query with a copy of the index that is right.
Sound(q) == q \in QueryRecord /\ Named(q) /\ RightAbout(q.idx)

\* A day counted leaves a query of the same kind, with the same copy.
LEMMA CountedSound ==
    ASSUME NEW q, Sound(q), NEW d, NEW facts \in SUBSET Fact,
           NEW split \in SUBSET Fact
    PROVE  Sound(CountedApart(q, d, facts, split)) /\ Sound(Counted(q, d, facts))
<1>1. ASSUME NEW sp \in SUBSET Fact PROVE Sound(CountedApart(q, d, facts, sp))
  <2> DEFINE c == CountedApart(q, d, facts, sp)
  <2>1. c \in QueryRecord /\ c.idx = q.idx /\ c.pc = "day"
    BY <1>1 DEF CountedApart, QueryRecord, Phase, Sound
  <2> HIDE DEF c
  <2>2. Sound(c)
    BY <2>1 DEF Sound, Named
  <2>3. QED
    BY <2>2 DEF c
<1>2. (IF q.kind = "aggregate" THEN facts ELSE {}) \in SUBSET Fact
  OBVIOUS
<1>3. QED
  BY <1>1, <1>2 DEF Counted

\* A query that only goes on to another place.
LEMMA MovesSound ==
    ASSUME NEW q, Sound(q), NEW p \in Phase \ {"objects"},
           p = "rollup" => q.kind \in DOMAIN RollupOf
    PROVE  Sound([q EXCEPT !.pc = p])
<1> DEFINE m == [q EXCEPT !.pc = p]
<1>1. m \in QueryRecord /\ m.idx = q.idx /\ m.pc = p /\ m.kind = q.kind
  BY DEF QueryRecord, Sound
<1> HIDE DEF m
<1>2. Sound(m)
  BY <1>1 DEF Sound, Named
<1>3. QED
  BY <1>2 DEF m

\* The rows of an index are facts.
LEMMA IndexFacts ==
    ASSUME NEW q \in QueryRecord, NEW d \in Day, NEW n \in Rollup
    PROVE  q.idx[n][d].rows \in SUBSET Fact
BY DEF QueryRecord, Index, File

LEMMA RollupOfKind ==
    \A k \in DOMAIN RollupOf : RollupOf[k] \in Rollup
BY DEF RollupOf, Rollup

LEMMA ReadLeaves ==
    ASSUME CopiesInv, NEW r \in Reader,
           \/ ChooseDays(r) \/ Finish(r) \/ Answer(r)
           \/ \E d \in Day : \/ StartDay(r, d) \/ ReadDayRollup(r, d)
                             \/ ReadBreakdown(r, d) \/ ReadTurns(r, d)
                             \/ ReadEvents(r, d)
    PROVE  \E q \in QueryRecord : Leaves(r, q)
<1> DEFINE q0 == query[r]
<1>1. Sound(q0) /\ RollupsInv
  BY DEF CopiesInv, Sound
<1>2. Reads
  BY DEF ChooseDays, StartDay, ReadDayRollup, ReadBreakdown, ReadTurns,
         ReadEvents, Finish, Answer
<1>3. SUFFICES \E q : Becomes(r, q) /\ Sound(q)
  BY <1>2 DEF Leaves, Reads, vars, sweep, Sound
<1>4. HotDays \subseteq Day
  BY <1>1, HotOfType DEF RollupsInv, ServedInv, KeptInv
<1>5. CASE ChooseDays(r)
  <2> DEFINE q1 == [q0 EXCEPT !.want = DaysHolding(q0.idx), !.pc = "day",
                              !.mixed = Mixed(q0.idx)]
             q2 == [q0 EXCEPT !.want = Day, !.hotDays = HotDays, !.pc = "day"]
  <2>1. Becomes(r, q1) \/ Becomes(r, q2)
    BY <1>5 DEF ChooseDays
  <2>2. DaysHolding(q0.idx) \subseteq Day /\ Mixed(q0.idx) \in BOOLEAN
    BY DEF DaysHolding, Mixed
  <2>3. q1 \in QueryRecord /\ q1.pc = "day" /\ q1.idx = q0.idx
    BY <1>1, <2>2 DEF QueryRecord, Phase, Sound
  <2>4. q2 \in QueryRecord /\ q2.pc = "day" /\ q2.idx = q0.idx
    BY <1>1, <1>4 DEF QueryRecord, Phase, Sound
  <2> HIDE DEF q1, q2
  <2>5. QED
    BY <1>1, <2>1, <2>3, <2>4 DEF Sound, Named
<1>6. CASE Finish(r)
  <2> DEFINE q1 == [q0 EXCEPT !.pc = "done", !.idx = NoIndex, !.hotDays = {}]
  <2>1. Becomes(r, q1)
    BY <1>6 DEF Finish
  <2>2. q1 \in QueryRecord /\ q1.pc = "done" /\ q1.idx = NoIndex
    BY <1>1, NoIndexType DEF QueryRecord, Phase, Sound
  <2> HIDE DEF q1
  <2>3. QED
    BY <2>1, <2>2, NoIndexRight DEF Sound, Named
<1>7. ASSUME NEW d \in Day, StartDay(r, d) PROVE \E q : Becomes(r, q) /\ Sound(q)
  <2> DEFINE p1 == IF UsesRollup(q0, d) THEN "rollup" ELSE "turns"
  <2>1. \/ InIndex(q0, d) /\ Becomes(r, FromIndex(q0, d))
        \/ Becomes(r, Counted(q0, d, {}))
        \/ Becomes(r, [q0 EXCEPT !.pc = p1])
    BY <1>7 DEF StartDay
  <2>2. ASSUME InIndex(q0, d) PROVE Sound(FromIndex(q0, d))
    <3> DEFINE facts == q0.idx[RollupOf[q0.kind]][d].rows
               split == IF q0.kind = "aggregate" THEN q0.idx["by_project"][d].rows
                                                 ELSE {}
    <3>1. facts \in SUBSET Fact
      BY <1>1, <2>2, IndexFacts, RollupOfKind DEF InIndex, UsesRollup, Sound
    <3>2. split \in SUBSET Fact
      BY <1>1, IndexFacts DEF Rollup, Sound
    <3>3. FromIndex(q0, d) = CountedApart(q0, d, facts, split)
      BY DEF FromIndex
    <3> HIDE DEF facts, split, q0
    <3>4. QED
      BY <1>1, <3>1, <3>2, <3>3, CountedSound
  <2>3. p1 \in Phase \ {"objects"} /\ (p1 = "rollup" => q0.kind \in DOMAIN RollupOf)
    BY DEF Phase, UsesRollup
  <2>4. {} \in SUBSET Fact
    OBVIOUS
  <2> HIDE DEF p1, q0
  <2>5. Sound(Counted(q0, d, {})) /\ Sound([q0 EXCEPT !.pc = p1])
    BY <1>1, <2>3, <2>4, CountedSound, MovesSound
  <2>6. QED
    BY <2>1, <2>2, <2>5
<1>8. ASSUME NEW d \in Day, ReadDayRollup(r, d)
      PROVE  \E q : Becomes(r, q) /\ Sound(q)
  <2> DEFINE rows == part[d][RollupOf[q0.kind]].rows
             q1 == [q0 EXCEPT !.got = @ \cup rows, !.pc = "breakdown"]
  <2>1. \/ Becomes(r, [q0 EXCEPT !.pc = "turns"])
        \/ Becomes(r, q1)
        \/ Becomes(r, Counted(q0, d, rows))
    BY <1>8 DEF ReadDayRollup
  <2>2. q0.kind \in DOMAIN RollupOf
    BY <1>1, <1>8 DEF ReadDayRollup, At, Sound, Named
  <2>3. rows \in SUBSET Fact
    BY <1>1, <2>2, FactsOfDays, RollupOfKind
  <2>4. Sound(q1)
    <3>1. q1 \in QueryRecord /\ q1.idx = q0.idx /\ q1.pc = "breakdown"
      <4> HIDE DEF rows, q0
      <4>1. QED
        BY <1>1, <2>3 DEF QueryRecord, Phase, Sound
    <3> HIDE DEF q1, q0
    <3>2. QED
      BY <1>1, <3>1 DEF Sound, Named
  <2>5. "turns" \in Phase \ {"objects"}
    BY DEF Phase
  <2> HIDE DEF rows, q0, q1
  <2>6. Sound(Counted(q0, d, rows)) /\ Sound([q0 EXCEPT !.pc = "turns"])
    BY <1>1, <2>3, <2>5, CountedSound, MovesSound
  <2>7. QED
    BY <2>1, <2>4, <2>6
<1>9. ASSUME NEW d \in Day, ReadBreakdown(r, d)
      PROVE  \E q : Becomes(r, q) /\ Sound(q)
  <2>1. part[d]["by_project"].rows \in SUBSET Fact /\ {} \in SUBSET Fact
    BY <1>1, FactsOfDays DEF Rollup
  <2>2. Becomes(r, CountedApart(q0, d, {}, part[d]["by_project"].rows))
    BY <1>9 DEF ReadBreakdown
  <2> HIDE DEF q0
  <2>3. QED
    BY <1>1, <2>1, <2>2, CountedSound
<1>10. ASSUME NEW d \in Day, ReadTurns(r, d) PROVE \E q : Becomes(r, q) /\ Sound(q)
  <2>1. part[d]["turns"].rows \in SUBSET Fact
    BY <1>1, FactsOfDays
  <2>2. \/ Becomes(r, Counted(q0, d, part[d]["turns"].rows))
        \/ Becomes(r, [q0 EXCEPT !.pc = "events"])
    BY <1>10 DEF ReadTurns
  <2>3. "events" \in Phase \ {"objects"}
    BY DEF Phase
  <2> HIDE DEF q0
  <2>4. Sound([q0 EXCEPT !.pc = "events"])
    BY <1>1, <2>3, MovesSound
  <2>5. QED
    BY <1>1, <2>1, <2>2, <2>4, CountedSound
<1>11. ASSUME NEW d \in Day, ReadEvents(r, d) PROVE \E q : Becomes(r, q) /\ Sound(q)
  <2>1. HotOf(d) \in SUBSET Fact
    BY <1>1, FactsOfDays
  <2>2. Becomes(r, Counted(q0, d, HotOf(d)))
    BY <1>11 DEF ReadEvents
  <2> HIDE DEF q0
  <2>3. QED
    BY <1>1, <2>1, <2>2, CountedSound
<1>12. CASE Answer(r)
  BY <1>12, IdleRight DEF Answer, Sound
<1>13. QED
  BY <1>5, <1>6, <1>7, <1>8, <1>9, <1>10, <1>11, <1>12

LEMMA QueryLeaves ==
    ASSUME CopiesInv, NEW r \in Reader, Query(r)
    PROVE  \E q \in QueryRecord : Leaves(r, q)
BY LoadLeaves, ReadLeaves DEF Query

\* Installing a copy that is right changes nothing else of the archive.
LEMMA InstallKeeps ==
    ASSUME RollupsInv, NEW idx \in Index, RightAbout(idx), cache' = idx,
           UNCHANGED <<today, hot, part, rollup, published, ingested, faults,
                       rebuild, sweep>>
    PROVE  RollupsInv'
<1>1. UNCHANGED <<pc, force, todo, day, snap, file, wrote, draft>>
  BY DEF sweep
<1>2. \A d \in Day : /\ HotOf(d)' = HotOf(d) /\ IngestedOf(d)' = IngestedOf(d)
                     /\ IsCompacted(d)' = IsCompacted(d) /\ Rows(d)' = Rows(d)
  BY DEF HotOf, IngestedOf, IsCompacted, Rows
<1>3. TypeOK'
  BY <1>1 DEF RollupsInv, ServedInv, KeptInv, TypeOK
<1>4. HotOf(day)' = HotOf(day) /\ IsCompacted(day)' = IsCompacted(day)
      /\ Rows(day)' = Rows(day)
  BY <1>1 DEF HotOf, IsCompacted, Rows
<1>5. ServedInv'
  BY <1>1, <1>2, <1>3, <1>4
     DEF RollupsInv, ServedInv, KeptInv, DayKept, PartitionCurrent, WholeTurns,
         SnapCurrent, DropSafe, PartitionWhole
<1>6. PartitionAlike' /\ WrittenSoFar' /\ FilesProper'
  BY <1>1, <1>2 DEF RollupsInv, PartitionAlike, WrittenSoFar, FilesProper, Stored
<1>7. HalfWaits'
  BY <1>1, <1>2 DEF RollupsInv, HalfWaits, HalfWritten
<1>8. RightAbout(rollup)' /\ RightAbout(draft)' /\ RightAbout(cache)'
  BY <1>1, <1>2 DEF RollupsInv, RightAbout
<1>9. QED
  BY <1>5, <1>6, <1>7, <1>8 DEF RollupsInv

LEMMA ArchiveStepIsNext ==
    ASSUME ArchiveStep
    PROVE  /\ [Next]_vars
           /\ UNCHANGED query \/ query' = [r \in Reader |-> Idle]
BY DEF ArchiveStep, Next

LEMMA StepCopies ==
    ASSUME ~LateArrivals, ~ShortWrites, CopiesInv, [ReadNext]_readVars
    PROVE  CopiesInv'
<1>1. CASE ArchiveStep
  <2>1. RollupsInv'
    BY <1>1, ArchiveStepIsNext, StepRollups DEF CopiesInv
  <2>2. ASSUME NEW q, Sound(q)
        PROVE  q \in QueryRecord /\ Named(q) /\ RightAbout(q.idx)'
    <3>1. \A f \in Rollup, d \in Day :
             IF q.idx[f][d].stored
             THEN IsCompacted(d)' /\ q.idx[f][d].rows = IngestedOf(d)'
             ELSE q.idx[f][d].rows = {}
      BY <1>1, <2>2, ArchiveStepIsNext, RightStays DEF CopiesInv, Sound
    <3>2. QED
      BY <2>2, <3>1 DEF Sound, RightAbout
  <2>3. Sound(Idle) /\ \A r \in Reader : Sound(query[r])
    BY IdleRight DEF CopiesInv, Sound
  <2>4. \A r \in Reader : query'[r] \in {query[r], Idle}
    BY <1>1, ArchiveStepIsNext DEF CopiesInv
  <2>5. query' \in [Reader -> QueryRecord]
    BY <1>1, <2>3, ArchiveStepIsNext DEF CopiesInv, Sound
  <2>6. ASSUME NEW r \in Reader PROVE Named(query[r])' /\ RightAbout(query[r].idx)'
    <3>1. PICK q : query'[r] = q /\ Sound(q)
      BY <2>3, <2>4
    <3>2. Named(q) /\ RightAbout(q.idx)'
      BY <2>2, <3>1
    <3>3. QED
      BY <3>1, <3>2 DEF Named, RightAbout
  <2>7. QED
    BY <2>1, <2>5, <2>6 DEF CopiesInv
<1>2. ASSUME NEW r \in Reader, Query(r) PROVE CopiesInv'
  <2>1. PICK q \in QueryRecord : Leaves(r, q)
    BY <1>2, QueryLeaves
  <2>2. /\ Named(q) /\ RightAbout(q.idx)
        /\ query' = [query EXCEPT ![r] = q]
        /\ UNCHANGED <<today, hot, part, rollup, published, ingested, faults,
                       rebuild, sweep>>
        /\ cache' \in {cache, query[r].idx}
    BY <2>1 DEF Leaves, Becomes
  <2>3. RollupsInv'
    <3>1. /\ cache \in Index /\ RightAbout(cache)
          /\ query[r].idx \in Index /\ RightAbout(query[r].idx)
      BY DEF CopiesInv, RollupsInv, ServedInv, KeptInv, TypeOK, QueryRecord
    <3>2. QED
      BY <2>2, <3>1, InstallKeeps DEF CopiesInv
  <2>4. query' \in [Reader -> QueryRecord]
        /\ \A s \in Reader : query'[s] = IF s = r THEN q ELSE query[s]
    BY <2>1, <2>2 DEF CopiesInv
  <2>5. ASSUME NEW s \in Reader PROVE Named(query[s])' /\ RightAbout(query[s].idx)'
    <3>1. PICK p : query'[s] = p /\ Named(p) /\ RightAbout(p.idx)
      BY <2>2, <2>4 DEF CopiesInv
    <3>2. \A d \in Day : IsCompacted(d)' = IsCompacted(d)
                         /\ IngestedOf(d)' = IngestedOf(d)
      BY <2>2 DEF IsCompacted, IngestedOf
    <3>3. QED
      BY <3>1, <3>2 DEF Named, RightAbout
  <2>6. QED
    BY <2>3, <2>4, <2>5 DEF CopiesInv
<1>3. CASE UNCHANGED readVars
  <2>1. UNCHANGED vars /\ UNCHANGED query
    BY <1>3 DEF readVars
  <2>2. RollupsInv'
    BY <2>1, StepRollups DEF CopiesInv
  <2>3. UNCHANGED <<part, ingested>>
    BY <2>1 DEF vars
  <2>4. QED
    BY <2>1, <2>2, <2>3 DEF CopiesInv, Named, RightAbout, IsCompacted, IngestedOf
<1>4. QED
  BY <1>1, <1>2, <1>3 DEF ReadNext

LEMMA InitCopies == ReadInit => CopiesInv
BY InitRollups, IdleRight DEF ReadInit, CopiesInv

\* Whatever queries race with whatever sweeps, failures and restarts, and
\* whether or not days are released: a row of the cached rollup is the whole
\* day, so a copy installed late, or mixed from two rebuilds, misleads nobody
\* about a day it covers.
THEOREM CacheTellsWholeDays ==
    ASSUME ~LateArrivals, ~ShortWrites
    PROVE  ReadSpec => []CachedRowsWhole
<1>1. ReadInit => CopiesInv
  BY InitCopies
<1>2. CopiesInv /\ [ReadNext]_readVars => CopiesInv'
  BY StepCopies
<1>3. CopiesInv => CachedRowsWhole
  BY DEF CopiesInv, RollupsInv, RightAbout, CachedRowsWhole
<1>4. QED
  BY <1>1, <1>2, <1>3, PTL DEF ReadSpec

-----------------------------------------------------------------------------
(* Queries over a window that is never released.                           *)

\* The window has everything, and no sweep is about to release any of it.
WindowWhole == hot = ingested /\ pc \notin {"list", "prune", "drop"}

\* While nothing failed, a rollup of a day that is there is of the whole day.
FreshRollups ==
    faults = 0 =>
        \A d \in Day, n \in Rollup : part[d][n].stored =>
            part[d][n].rows = IngestedOf(d) /\ ~Settled(d)

Loading == {"load", "objects", "install", "choose"}
Reading == {"day", "rollup", "breakdown", "turns", "events"}

\* What was there to be found was, or is of a day still to come.
Accounted(q) == \A f \in q.must : DayOf[f] \in q.want \/ f \in q.got

\* The day being read of an aggregate is in its totals already.
DayCounted(q) ==
    \A f \in q.must : DayOf[f] \in q.want =>
        f \in q.got \/ ~NextDay(q, DayOf[f])

Right(q) ==
    /\ q.must \subseteq ingested
    /\ q.pc \in Loading => q.got = {} /\ q.split = {}
    /\ Claimed(q) /\ q.pc \in Reading \cup {"done"} =>
          q.got \cup q.split \subseteq ingested
    /\ q.pc \in Reading =>
          /\ q.kind # "detail" => \A f \in q.must : DayOf[f] \in q.hotDays
          /\ Claimed(q) => Accounted(q)
    /\ q.pc = "breakdown" =>
          q.kind = "aggregate" /\ (faults = 0 => DayCounted(q))
    /\ q.pc = "done" /\ Claimed(q) => q.must \subseteq q.got

AnswersInv ==
    /\ CopiesInv /\ WindowWhole /\ FreshRollups
    /\ \A r \in Reader : Right(query[r])

\* For which queries completeness is claimed.
LEMMA ClaimedKinds ==
    ASSUME NEW q, q.kind \in Kinds
    PROVE  /\ q.kind = "turns" => Claimed(q)
           /\ q.kind = "detail" => (Claimed(q) <=> ~q.mixed)
           /\ q.kind \in {"daily", "project", "aggregate"} =>
                 (Claimed(q) <=> faults = 0)
BY DEF Claimed, Kinds

LEMMA StepWindow ==
    ASSUME ~Prune, WindowWhole, [Next]_vars
    PROVE  WindowWhole'
BY DEF WindowWhole, Next, Compactor, CompactDays, RebuildIndex, PruneHotWindow,
       AppendFact, Midnight, StartSweep, SkipDay, ReadDay, PutDayRollup,
       PutTurns, DaysDone, AfterIndex, ReadPartitions, PutRollup,
       IndexPublished, ListHotWindow, PruneSkip, Verify, Drop, PruneDone,
       SweepFails, Crash, SweepEnds, vars, stored, sweep

LEMMA StepFresh ==
    ASSUME ~LateArrivals, ~ShortWrites, RollupsInv, FreshRollups, [Next]_vars
    PROVE  FreshRollups'
<1> SUFFICES ASSUME faults' = 0, NEW d \in Day, NEW n \in Rollup,
                    part'[d][n].stored
             PROVE  part'[d][n].rows = IngestedOf(d)' /\ ~Settled(d)'
  BY DEF FreshRollups
<1>1. faults = 0
  <2>1. faults \in Nat
    BY ConstantsAssumption DEF RollupsInv, ServedInv, KeptInv, TypeOK
  <2>2. faults' = faults \/ faults' = faults + 1
    BY DEF Next, Compactor, CompactDays, RebuildIndex, PruneHotWindow,
           AppendFact, Midnight, StartSweep, SkipDay, ReadDay, PutDayRollup,
           PutTurns, DaysDone, ReadPartitions, PutRollup, IndexPublished,
           ListHotWindow, PruneSkip, Verify, Drop, PruneDone, SweepFails,
           Crash, Probe, vars, stored, sweep
  <2>3. QED
    BY <2>1, <2>2
<1>2. part[d][n].stored => part[d][n].rows = IngestedOf(d) /\ ~Settled(d)
  BY <1>1 DEF FreshRollups
<1>3. n \in PartFile /\ n # "turns" /\ "turns" \in PartFile
  BY FileNames DEF PartFile
<1>4. CASE \E f \in Fact : AppendFact(f)
  <2>1. PICK f \in Fact : AppendFact(f)
    BY <1>4
  <2>2. /\ Settled(DayOf[f]) /\ ingested' = ingested \cup {f}
        /\ UNCHANGED <<part, pc, day>>
    BY <2>1 DEF AppendFact, sweep
  <2>3. DayOf[f] # d
    BY <1>2, <2>2
  <2>4. QED
    BY <1>2, <2>2, <2>3 DEF IngestedOf, Settled, IsCompacted
<1>5. CASE PutDayRollup
  <2>1. UNCHANGED <<pc, day>> /\ pc = "write"
    BY <1>5 DEF PutDayRollup
  <2>2. part'[d]["turns"] = part[d]["turns"]
    BY <1>3, <1>5, PutDayRollupEffect, FileNames
  <2>3. CASE d = day /\ n = PartFiles[file]
    BY <1>3, <1>5, <2>1, <2>3, PutDayRollupEffect DEF Settled, Stored, IngestedOf
  <2>4. CASE ~(d = day /\ n = PartFiles[file])
    <3>1. part'[d][n] = part[d][n]
      BY <1>3, <1>5, <2>4, PutDayRollupEffect
    <3>2. IngestedOf(d)' = IngestedOf(d) /\ Settled(d)' = Settled(d)
      BY <1>5, <2>1, <2>2, PutDayRollupEffect DEF IngestedOf, Settled, IsCompacted
    <3>3. QED
      BY <1>2, <3>1, <3>2
  <2>5. QED
    BY <2>3, <2>4
<1>6. CASE PutTurns
  <2>1. part'[d][n] = part[d][n]
    BY <1>3, <1>6, PutTurnsEffect
  <2>2. IngestedOf(d)' = IngestedOf(d)
    BY <1>6, PutTurnsEffect DEF IngestedOf
  <2>3. IsCompacted(d)'
    <3>1. CASE d = day
      <4>1. part'[d]["turns"] = Stored(snap)
        BY <1>3, <1>6, <3>1, PutTurnsEffect
      <4>2. QED
        BY <4>1 DEF IsCompacted, Stored
    <3>2. CASE d # day
      BY <1>2, <1>3, <1>6, <2>1, <3>2, PutTurnsEffect DEF IsCompacted, Settled
    <3>3. QED
      BY <3>1, <3>2
  <2>4. QED
    BY <1>2, <2>1, <2>2, <2>3 DEF Settled
<1>7. CASE UNCHANGED <<part, ingested>>
  <2>1. part'[d][n].rows = IngestedOf(d)' /\ ~Settled(d)
    BY <1>2, <1>7 DEF IngestedOf
  <2>2. IsCompacted(d)' = IsCompacted(d)
    BY <1>7 DEF IsCompacted
  <2>3. ASSUME pc = "write" PROVE PutDayRollup \/ PutTurns \/ UNCHANGED <<pc, day>>
    BY <1>1, <2>3
       DEF Next, Compactor, CompactDays, RebuildIndex, PruneHotWindow,
           AppendFact, Midnight, StartSweep, SkipDay, ReadDay, DaysDone,
           ReadPartitions, PutRollup, IndexPublished, ListHotWindow, PruneSkip,
           Verify, Drop, PruneDone, SweepFails, Crash, vars, stored, sweep
  <2>4. QED
    BY <1>5, <1>6, <2>1, <2>2, <2>3 DEF Settled
<1>8. QED
  BY <1>4, <1>5, <1>6, <1>7, StepKinds

\* What each place a query reads says of a day.
LEMMA Places ==
    ASSUME AnswersInv, NEW d \in Day
    PROVE  /\ HotOf(d) = IngestedOf(d)
           /\ part[d]["turns"].stored => part[d]["turns"].rows = IngestedOf(d)
           /\ faults = 0 => \A n \in Rollup : part[d][n].rows \in {IngestedOf(d), {}}
           /\ IngestedOf(d) \subseteq ingested
<1>1. HotOf(d) = IngestedOf(d) /\ IngestedOf(d) \subseteq ingested
  BY DEF AnswersInv, WindowWhole, HotOf, IngestedOf
<1>2. part[d]["turns"].stored => part[d]["turns"].rows = IngestedOf(d)
  BY DEF AnswersInv, CopiesInv, RollupsInv, ServedInv, PartitionWhole, Rows, IsCompacted
<1>3. ASSUME faults = 0, NEW n \in Rollup
      PROVE  part[d][n].rows \in {IngestedOf(d), {}}
  BY <1>3 DEF AnswersInv, FreshRollups, CopiesInv, RollupsInv, FilesProper, PartFile
<1>4. QED
  BY <1>1, <1>2, <1>3

\* Counting a day: what is counted was ingested, and the day has no more.
LEMMA CountedRight ==
    ASSUME AnswersInv, NEW q \in QueryRecord, Right(q), q.pc \in Reading,
           NEW d \in Day, NEW facts, NEW split,
           Claimed(q) => facts \subseteq ingested /\ split \subseteq ingested,
           Claimed(q) => \A f \in q.must : DayOf[f] = d => f \in facts \cup q.got
    PROVE  Right(CountedApart(q, d, facts, split)) /\ Right(Counted(q, d, facts))
<1>1. ASSUME NEW sp, Claimed(q) => sp \subseteq ingested
      PROVE  Right(CountedApart(q, d, facts, sp))
  <2> DEFINE c == CountedApart(q, d, facts, sp)
  <2>1. /\ c.pc = "day" /\ c.must = q.must /\ c.kind = q.kind
        /\ c.hotDays = q.hotDays /\ c.mixed = q.mixed
        /\ c.want = q.want \ {d} /\ c.got = q.got \cup facts
        /\ c.split = q.split \cup sp
    BY DEF CountedApart, QueryRecord
  <2> HIDE DEF c
  <2>2. Claimed(c) <=> Claimed(q)
    BY <2>1 DEF Claimed
  <2>3. Claimed(q) => Accounted(c) /\ c.got \cup c.split \subseteq ingested
    BY <1>1, <2>1 DEF Right, Accounted
  <2>4. Right(c)
    BY <2>1, <2>2, <2>3 DEF Right, Reading, Loading
  <2>5. QED
    BY <2>4 DEF c
<1>2. ASSUME Claimed(q)
      PROVE  (IF q.kind = "aggregate" THEN facts ELSE {}) \subseteq ingested
  BY <1>2
<1>3. QED
  BY <1>1, <1>2 DEF Counted

\* Going on to another place that is not the breakdown.
LEMMA MovesRight ==
    ASSUME AnswersInv, NEW q \in QueryRecord, Right(q), NEW p \in Phase,
           \/ q.pc \in Loading /\ p \in Loading
           \/ q.pc \in Reading /\ p \in Reading \ {"breakdown"}
    PROVE  Right([q EXCEPT !.pc = p])
<1> DEFINE m == [q EXCEPT !.pc = p]
<1>1. /\ m.pc = p /\ m.must = q.must /\ m.kind = q.kind /\ m.mixed = q.mixed
      /\ m.hotDays = q.hotDays /\ m.want = q.want /\ m.got = q.got
      /\ m.split = q.split
  BY DEF QueryRecord
<1> HIDE DEF m
<1>2. Claimed(m) <=> Claimed(q)
  BY <1>1 DEF Claimed
<1>3. Accounted(m) <=> Accounted(q)
  BY <1>1 DEF Accounted
<1>4. Right(m)
  BY <1>1, <1>2, <1>3 DEF Right, Reading, Loading
<1>5. QED
  BY <1>4 DEF m

LEMMA LoadRight ==
    ASSUME AnswersInv, NEW r \in Reader,
           \/ \E k \in Kind : Begin(r, k)
           \/ LoadCached(r) \/ ReadFirstObject(r) \/ ReadNextObject(r)
           \/ InstallIndex(r)
    PROVE  \E q : Becomes(r, q) /\ Right(q)
<1> DEFINE q0 == query[r]
<1>1. q0 \in QueryRecord /\ Right(q0)
  BY DEF AnswersInv, CopiesInv
<1>2. ASSUME NEW q, q.must = q0.must, q.got = q0.got, q.split = q0.split,
             q0.pc \in Loading, q.pc \in Loading
      PROVE  Right(q)
  BY <1>1, <1>2 DEF Right, Loading, Reading
<1>3. ASSUME NEW k \in Kind, Begin(r, k) PROVE \E q : Becomes(r, q) /\ Right(q)
  <2>1. PICK w \in WholeDays(k) :
            Becomes(r, [Idle EXCEPT !.pc = "load", !.kind = k, !.whole = w,
                                    !.must = ingested])
    BY <1>3 DEF Begin
  <2> DEFINE q1 == [Idle EXCEPT !.pc = "load", !.kind = k, !.whole = w,
                                !.must = ingested]
  <2>2. q1.pc = "load" /\ q1.must = ingested /\ q1.got = {} /\ q1.split = {}
    BY DEF Idle
  <2> HIDE DEF q1
  <2>3. Right(q1)
    BY <2>2 DEF Right, Loading, Reading
  <2>4. QED
    BY <2>1, <2>3 DEF q1
<1>4. CASE LoadCached(r)
  <2> DEFINE q1 == [q0 EXCEPT !.idx = cache, !.pc = "choose"]
  <2>1. Becomes(r, q1) /\ q0.pc = "load"
    BY <1>4 DEF LoadCached, At
  <2>2. q1.must = q0.must /\ q1.got = q0.got /\ q1.split = q0.split /\ q1.pc = "choose"
    BY <1>1 DEF QueryRecord
  <2> HIDE DEF q1, q0
  <2>3. QED
    BY <1>2, <2>1, <2>2 DEF Loading
<1>5. CASE ReadFirstObject(r)
  <2> DEFINE q1 == [q0 EXCEPT !.idx["day"] = rollup["day"], !.file = 2,
                              !.pc = IF rollup["day"] = NoIndex["day"]
                                     THEN "install" ELSE "objects"]
  <2>1. Becomes(r, q1) /\ q0.pc = "load"
    BY <1>5 DEF ReadFirstObject, At
  <2>2. /\ q1.must = q0.must /\ q1.got = q0.got /\ q1.split = q0.split
        /\ q1.pc \in {"install", "objects"}
    BY <1>1 DEF QueryRecord
  <2> HIDE DEF q1, q0
  <2>3. QED
    BY <1>2, <2>1, <2>2 DEF Loading
<1>6. CASE ReadNextObject(r)
  <2> DEFINE f == q0.file
             q1 == [q0 EXCEPT !.idx[RollupFiles[f]] = rollup[RollupFiles[f]],
                              !.file = f + 1,
                              !.pc = IF f = Len(RollupFiles)
                                     THEN "install" ELSE "objects"]
  <2>1. Becomes(r, q1) /\ q0.pc = "objects"
    BY <1>6 DEF ReadNextObject, At
  <2>2. /\ q1.must = q0.must /\ q1.got = q0.got /\ q1.split = q0.split
        /\ q1.pc \in {"install", "objects"}
    BY <1>1 DEF QueryRecord
  <2> HIDE DEF q1, q0
  <2>3. QED
    BY <1>2, <2>1, <2>2 DEF Loading
<1>7. CASE InstallIndex(r)
  <2>1. Becomes(r, [q0 EXCEPT !.pc = "choose"]) /\ q0.pc = "install"
    BY <1>7 DEF InstallIndex, At
  <2>2. Right([q0 EXCEPT !.pc = "choose"])
    BY <1>1, <2>1, MovesRight DEF Phase, Loading
  <2>3. QED
    BY <2>1, <2>2
<1>8. QED
  BY <1>3, <1>4, <1>5, <1>6, <1>7

\* A session's days: those left out have none of its turns, unless the index
\* was read while it was being published.
LEMMA DaysLeftOut ==
    ASSUME AnswersInv, NEW idx \in Index, RightAbout(idx), ~Mixed(idx),
           NEW f \in ingested
    PROVE  DayOf[f] \in DaysHolding(idx)
<1> DEFINE d == DayOf[f]
<1>1. d \in Day /\ f \in IngestedOf(d)
  BY ConstantsAssumption
     DEF AnswersInv, CopiesInv, RollupsInv, ServedInv, KeptInv, TypeOK, IngestedOf
<1>2. SUFFICES ASSUME idx # NoIndex, IsCompacted(d), Covers(idx, d),
                      idx["by_session"][d].rows = {}
               PROVE  FALSE
  BY <1>1 DEF DaysHolding
<1>3. idx["by_session"][d].stored
  BY <1>1, <1>2 DEF Mixed
<1>4. idx["by_session"][d].rows = IngestedOf(d)
  BY <1>1, <1>3 DEF RightAbout, Rollup
<1>5. QED
  BY <1>1, <1>2, <1>4

LEMMA ChooseRight ==
    ASSUME AnswersInv, NEW r \in Reader, ChooseDays(r)
    PROVE  \E q : Becomes(r, q) /\ Right(q)
<1> DEFINE q0 == query[r]
           q1 == [q0 EXCEPT !.want = DaysHolding(q0.idx), !.pc = "day",
                            !.mixed = Mixed(q0.idx)]
           q2 == [q0 EXCEPT !.want = Day, !.hotDays = HotDays, !.pc = "day"]
<1>1. /\ q0 \in QueryRecord /\ Right(q0) /\ RightAbout(q0.idx) /\ q0.idx \in Index
      /\ q0.pc = "choose"
  BY DEF AnswersInv, CopiesInv, ChooseDays, At, QueryRecord
<1>2. /\ q0.got = {} /\ q0.split = {} /\ q0.must \subseteq ingested
      /\ \A f \in ingested : DayOf[f] \in Day
  BY <1>1, ConstantsAssumption
     DEF Right, Loading, AnswersInv, CopiesInv, RollupsInv, ServedInv, KeptInv, TypeOK
<1>3. CASE q0.kind = "detail"
  <2>1. Becomes(r, q1)
    BY <1>3 DEF ChooseDays
  <2>2. /\ q1.pc = "day" /\ q1.must = q0.must /\ q1.got = {} /\ q1.split = {}
        /\ q1.kind = "detail" /\ q1.mixed = Mixed(q0.idx)
        /\ q1.want = DaysHolding(q0.idx)
    BY <1>1, <1>2, <1>3 DEF QueryRecord
  <2> HIDE DEF q1
  <2>3. Claimed(q1) => ~Mixed(q0.idx)
    BY <2>2 DEF Claimed
  <2>4. Claimed(q1) => Accounted(q1)
    BY <1>1, <1>2, <2>2, <2>3, DaysLeftOut DEF Accounted
  <2>5. Right(q1)
    BY <1>2, <2>2, <2>4 DEF Right, Loading, Reading
  <2>6. QED
    BY <2>1, <2>5
<1>4. CASE q0.kind # "detail"
  <2>1. Becomes(r, q2)
    BY <1>4 DEF ChooseDays
  <2>2. /\ q2.pc = "day" /\ q2.must = q0.must /\ q2.got = {} /\ q2.split = {}
        /\ q2.kind = q0.kind /\ q2.want = Day /\ q2.hotDays = HotDays
    BY <1>1, <1>2 DEF QueryRecord
  <2>3. \A f \in ingested : DayOf[f] \in HotDays
    BY DEF AnswersInv, WindowWhole, HotDays
  <2> HIDE DEF q2
  <2>4. Accounted(q2) /\ \A f \in q2.must : DayOf[f] \in q2.hotDays
    BY <1>2, <2>2, <2>3 DEF Accounted
  <2>5. Right(q2)
    BY <1>2, <2>2, <2>4 DEF Right, Loading, Reading
  <2>6. QED
    BY <2>1, <2>5
<1>5. QED
  BY <1>3, <1>4

LEMMA IdleAnswers == Right(Idle)
BY DEF Idle, Right, Loading, Reading

\* Reading the next day.  Where nothing is claimed, nothing has to be shown; a
\* day known to be empty is one no hot object was listed for.
LEMMA ReadRight ==
    ASSUME AnswersInv, NEW r \in Reader,
           \/ Finish(r) \/ Answer(r)
           \/ \E d \in Day : \/ StartDay(r, d) \/ ReadDayRollup(r, d)
                             \/ ReadBreakdown(r, d) \/ ReadTurns(r, d)
                             \/ ReadEvents(r, d)
    PROVE  \E q : Becomes(r, q) /\ Right(q)
<1> DEFINE q0 == query[r]
<1>1. /\ q0 \in QueryRecord /\ Right(q0) /\ RightAbout(q0.idx) /\ Named(q0)
      /\ q0.kind \in Kinds /\ q0.must \subseteq ingested
  BY DEF AnswersInv, CopiesInv, QueryRecord, Right
<1>2. \A d \in Day, f \in q0.must : DayOf[f] = d => f \in IngestedOf(d)
  BY <1>1 DEF IngestedOf
<1>3. CASE Finish(r)
  <2> DEFINE q1 == [q0 EXCEPT !.pc = "done", !.idx = NoIndex, !.hotDays = {}]
  <2>1. Becomes(r, q1) /\ q0.pc = "day" /\ q0.want = {}
    BY <1>3 DEF Finish, At
  <2>2. /\ q1.pc = "done" /\ q1.must = q0.must /\ q1.got = q0.got
        /\ q1.split = q0.split /\ q1.kind = q0.kind /\ q1.mixed = q0.mixed
    BY <1>1 DEF QueryRecord
  <2> HIDE DEF q1, q0
  <2>3. Claimed(q1) <=> Claimed(q0)
    BY <2>2 DEF Claimed
  <2>4. Claimed(q0) => Accounted(q0) /\ q0.got \cup q0.split \subseteq ingested
    BY <1>1, <2>1 DEF Right, Reading
  <2>5. Right(q1)
    BY <1>1, <2>1, <2>2, <2>3, <2>4 DEF Right, Accounted, Reading, Loading
  <2>6. QED
    BY <2>1, <2>5
<1>4. ASSUME NEW d \in Day, StartDay(r, d) PROVE \E q : Becomes(r, q) /\ Right(q)
  <2> DEFINE p1 == IF UsesRollup(q0, d) THEN "rollup" ELSE "turns"
  <2>1. q0.pc = "day" /\ q0.pc \in Reading
    BY <1>4 DEF StartDay, At, Reading
  <2>2. \/ InIndex(q0, d) /\ Becomes(r, FromIndex(q0, d))
        \/ q0.kind # "detail" /\ KnownEmpty(q0, d) /\ Becomes(r, Counted(q0, d, {}))
        \/ Becomes(r, [q0 EXCEPT !.pc = p1])
    BY <1>4 DEF StartDay
  <2>3. ASSUME InIndex(q0, d) PROVE Right(FromIndex(q0, d))
    <3> DEFINE n == RollupOf[q0.kind]
               facts == q0.idx[n][d].rows
               split == IF q0.kind = "aggregate" THEN q0.idx["by_project"][d].rows
                                                 ELSE {}
    <3>1. n \in Rollup /\ facts # {} /\ "by_project" \in Rollup
      BY <2>3, RollupOfKind DEF InIndex, UsesRollup, Rollup
    <3>2. \A m \in Rollup : q0.idx[m][d].rows \in {IngestedOf(d), {}}
      BY <1>1 DEF RightAbout
    <3>3. facts = IngestedOf(d)
      BY <3>1, <3>2
    <3>4. split \subseteq IngestedOf(d)
      BY <3>1, <3>2
    <3>5. IngestedOf(d) \subseteq ingested
      BY Places
    <3>6. FromIndex(q0, d) = CountedApart(q0, d, facts, split)
      BY DEF FromIndex
    <3> HIDE DEF facts, split, q0, n
    <3>7. \A f \in q0.must : DayOf[f] = d => f \in facts \cup q0.got
      BY <1>2, <3>3
    <3>8. facts \subseteq ingested /\ split \subseteq ingested
      BY <3>3, <3>4, <3>5
    <3>9. QED
      BY <1>1, <2>1, <3>6, <3>7, <3>8, CountedRight
  <2>4. ASSUME q0.kind # "detail", KnownEmpty(q0, d)
        PROVE  Right(Counted(q0, d, {}))
    <3>1. d \notin q0.hotDays
      BY <2>4 DEF KnownEmpty
    <3>2. \A f \in q0.must : DayOf[f] \in q0.hotDays
      BY <1>1, <2>1, <2>4 DEF Right
    <3> HIDE DEF q0
    <3>3. QED
      BY <1>1, <2>1, <3>1, <3>2, CountedRight
  <2>5. Right([q0 EXCEPT !.pc = p1])
    <3>1. p1 \in Phase /\ p1 \in Reading \ {"breakdown"}
      BY DEF Phase, Reading
    <3> HIDE DEF p1, q0
    <3>2. QED
      BY <1>1, <2>1, <3>1, MovesRight
  <2>6. QED
    BY <2>2, <2>3, <2>4, <2>5
<1>5. ASSUME NEW d \in Day, ReadDayRollup(r, d)
      PROVE  \E q : Becomes(r, q) /\ Right(q)
  <2> DEFINE rows == part[d][RollupOf[q0.kind]].rows
             q1 == [q0 EXCEPT !.got = @ \cup rows, !.pc = "breakdown"]
  <2>1. q0.pc = "rollup" /\ q0.pc \in Reading /\ NextDay(q0, d)
    <3>1. At(r, "rollup") /\ NextDay(query[r], d)
      BY <1>5, Zenon DEF ReadDayRollup
    <3>2. QED
      BY <3>1 DEF At, Reading
  <2>2. \/ Becomes(r, [q0 EXCEPT !.pc = "turns"])
        \/ rows # {} /\ q0.kind = "aggregate" /\ Becomes(r, q1)
        \/ rows # {} /\ Becomes(r, Counted(q0, d, rows))
    <3>1. CASE rows = {}
      BY <1>5, <3>1 DEF ReadDayRollup
    <3>2. CASE rows # {} /\ q0.kind = "aggregate"
      BY <1>5, <3>2 DEF ReadDayRollup
    <3>3. CASE rows # {} /\ q0.kind # "aggregate"
      BY <1>5, <3>3 DEF ReadDayRollup
    <3>4. QED
      BY <3>1, <3>2, <3>3
  <2>3. RollupOf[q0.kind] \in Rollup /\ (Claimed(q0) <=> faults = 0)
    <3>1. q0.kind \in DOMAIN RollupOf
      BY <1>1, <2>1 DEF Named
    <3>2. q0.kind \in {"daily", "project", "aggregate"}
      BY <3>1 DEF RollupOf
    <3> HIDE DEF q0
    <3>3. QED
      BY <1>1, <3>1, <3>2, ClaimedKinds, RollupOfKind
  <2>4. Claimed(q0) /\ rows # {} => rows = IngestedOf(d)
    BY <2>3, Places
  <2>5. IngestedOf(d) \subseteq ingested
    BY Places
  <2>6. "turns" \in Phase /\ "turns" \in Reading \ {"breakdown"}
    BY DEF Phase, Reading
  <2>7. ASSUME rows # {}, q0.kind = "aggregate" PROVE Right(q1)
    <3>1. /\ q1.pc = "breakdown" /\ q1.must = q0.must /\ q1.got = q0.got \cup rows
          /\ q1.split = q0.split /\ q1.kind = "aggregate" /\ q1.mixed = q0.mixed
          /\ q1.want = q0.want /\ q1.hotDays = q0.hotDays
      BY <1>1, <2>7 DEF QueryRecord
    <3>2. q0.must \subseteq ingested /\ q0.want \subseteq Day
      BY <1>1 DEF QueryRecord
    <3> HIDE DEF q1, q0, rows
    <3>3. Claimed(q1) <=> Claimed(q0)
      BY <2>7, <3>1 DEF Claimed
    <3>4. Claimed(q0) => Accounted(q0) /\ q0.got \cup q0.split \subseteq ingested
      BY <1>1, <2>1 DEF Right
    <3>5. Claimed(q0) => Accounted(q1) /\ q1.got \cup q1.split \subseteq ingested
      BY <2>4, <2>5, <2>7, <3>1, <3>4 DEF Accounted
    <3>6. \A e : NextDay(q1, e) => e = d
      <4>1. \A e \in Day : e \in Int
        BY DEF Day
      <4>2. QED
        BY <2>1, <3>1, <3>2, <4>1 DEF NextDay
    <3>7. Claimed(q0) => DayCounted(q1)
      <4>1. ASSUME Claimed(q0), NEW f \in q1.must, NextDay(q1, DayOf[f])
            PROVE  f \in q1.got
        <5>1. DayOf[f] = d
          BY <3>6, <4>1
        <5>2. f \in IngestedOf(d)
          BY <1>2, <3>1, <4>1, <5>1
        <5>3. QED
          BY <2>4, <2>7, <3>1, <4>1, <5>2
      <4>2. QED
        BY <4>1 DEF DayCounted
    <3>8. q0.kind # "detail" => \A f \in q0.must : DayOf[f] \in q0.hotDays
      BY <1>1, <2>1 DEF Right
    <3>9. QED
      BY <2>3, <2>7, <3>1, <3>2, <3>3, <3>5, <3>7, <3>8
         DEF Right, Reading, Loading
  <2>8. ASSUME rows # {} PROVE Right(Counted(q0, d, rows))
    <3> HIDE DEF q0, rows
    <3>1. Claimed(q0) => rows \subseteq ingested
      BY <2>4, <2>5, <2>8
    <3>2. Claimed(q0) => \A f \in q0.must : DayOf[f] = d => f \in rows \cup q0.got
      BY <1>2, <2>4, <2>8
    <3>3. QED
      BY <1>1, <2>1, <3>1, <3>2, CountedRight
  <2> HIDE DEF q0, q1, rows
  <2>9. Right([q0 EXCEPT !.pc = "turns"])
    BY <1>1, <2>1, <2>6, MovesRight
  <2>10. QED
    BY <2>2, <2>7, <2>8, <2>9
<1>6. ASSUME NEW d \in Day, ReadBreakdown(r, d)
      PROVE  \E q : Becomes(r, q) /\ Right(q)
  <2> DEFINE sp == part[d]["by_project"].rows
  <2>1. q0.pc = "breakdown" /\ q0.pc \in Reading /\ NextDay(q0, d)
    BY <1>6 DEF ReadBreakdown, At, Reading
  <2>2. Becomes(r, CountedApart(q0, d, {}, sp))
    BY <1>6 DEF ReadBreakdown
  <2>3. q0.kind = "aggregate" /\ (faults = 0 => DayCounted(q0))
    BY <1>1, <2>1 DEF Right
  <2>4. Claimed(q0) <=> faults = 0
    <3> HIDE DEF q0
    <3>1. QED
      BY <1>1, <2>3, ClaimedKinds
  <2>5. faults = 0 => sp \subseteq ingested
    BY Places DEF Rollup
  <2> HIDE DEF sp, q0
  <2>6. Claimed(q0) => \A f \in q0.must : DayOf[f] = d => f \in {} \cup q0.got
    <3>1. ASSUME Claimed(q0), NEW f \in q0.must, DayOf[f] = d PROVE f \in q0.got
      BY <2>1, <2>3, <2>4, <3>1 DEF DayCounted, NextDay
    <3>2. QED
      BY <3>1
  <2>7. Right(CountedApart(q0, d, {}, sp))
    BY <1>1, <2>1, <2>4, <2>5, <2>6, CountedRight
  <2>8. QED
    BY <2>2, <2>7
<1>7. ASSUME NEW d \in Day, ReadTurns(r, d) PROVE \E q : Becomes(r, q) /\ Right(q)
  <2> DEFINE rows == part[d]["turns"].rows
  <2>1. q0.pc = "turns" /\ q0.pc \in Reading
    BY <1>7 DEF ReadTurns, At, Reading
  <2>2. \/ rows = IngestedOf(d) /\ Becomes(r, Counted(q0, d, rows))
        \/ Becomes(r, [q0 EXCEPT !.pc = "events"])
    BY <1>7, Places DEF ReadTurns
  <2>3. IngestedOf(d) \subseteq ingested
    BY Places
  <2>4. "events" \in Phase /\ "events" \in Reading \ {"breakdown"}
    BY DEF Phase, Reading
  <2> HIDE DEF q0, rows
  <2>5. rows = IngestedOf(d) => Right(Counted(q0, d, rows))
    BY <1>1, <1>2, <2>1, <2>3, CountedRight
  <2>6. Right([q0 EXCEPT !.pc = "events"])
    BY <1>1, <2>1, <2>4, MovesRight
  <2>7. QED
    BY <2>2, <2>5, <2>6
<1>8. ASSUME NEW d \in Day, ReadEvents(r, d) PROVE \E q : Becomes(r, q) /\ Right(q)
  <2>1. q0.pc = "events" /\ q0.pc \in Reading
    BY <1>8 DEF ReadEvents, At, Reading
  <2>2. Becomes(r, Counted(q0, d, HotOf(d)))
    BY <1>8 DEF ReadEvents
  <2>3. HotOf(d) = IngestedOf(d) /\ IngestedOf(d) \subseteq ingested
    BY Places
  <2> HIDE DEF q0
  <2>4. Right(Counted(q0, d, HotOf(d)))
    BY <1>1, <1>2, <2>1, <2>3, CountedRight
  <2>5. QED
    BY <2>2, <2>4
<1>9. CASE Answer(r)
  BY <1>9, IdleAnswers DEF Answer
<1>10. QED
  BY <1>3, <1>4, <1>5, <1>6, <1>7, <1>8, <1>9

LEMMA QueryRight ==
    ASSUME AnswersInv, NEW r \in Reader, Query(r)
    PROVE  \E q : Becomes(r, q) /\ Right(q)
BY LoadRight, ChooseRight, ReadRight DEF Query

\* More facts and more failures take nothing from a query that is right.
LEMMA RightLater ==
    ASSUME NEW q, Right(q), ingested \subseteq ingested', faults' = 0 => faults = 0
    PROVE  Right(q)'
<1>1. Claimed(q)' => Claimed(q)
  BY DEF Claimed
<1>2. Accounted(q)' = Accounted(q) /\ DayCounted(q)' = DayCounted(q)
  BY DEF Accounted, DayCounted, NextDay
<1>3. QED
  BY <1>1, <1>2 DEF Right

\* Facts are only ever added, and failures only ever counted.
LEMMA StepGrows ==
    ASSUME RollupsInv, [Next]_vars
    PROVE  ingested \subseteq ingested' /\ (faults' = 0 => faults = 0)
<1>1. faults \in Nat
  BY ConstantsAssumption DEF RollupsInv, ServedInv, KeptInv, TypeOK
<1>2. faults' = faults \/ faults' = faults + 1
  BY DEF Next, Compactor, CompactDays, RebuildIndex, PruneHotWindow,
         AppendFact, Midnight, StartSweep, SkipDay, ReadDay, PutDayRollup,
         PutTurns, DaysDone, ReadPartitions, PutRollup, IndexPublished,
         ListHotWindow, PruneSkip, Verify, Drop, PruneDone, SweepFails,
         Crash, Probe, vars, stored, sweep
<1>3. ingested \subseteq ingested'
  BY DEF Next, Compactor, CompactDays, RebuildIndex, PruneHotWindow,
         AppendFact, Midnight, StartSweep, SkipDay, ReadDay, PutDayRollup,
         PutTurns, DaysDone, ReadPartitions, PutRollup, IndexPublished,
         ListHotWindow, PruneSkip, Verify, Drop, PruneDone, SweepFails,
         Crash, Probe, vars, stored, sweep
<1>4. QED
  BY <1>1, <1>2, <1>3

LEMMA StepAnswers ==
    ASSUME ~LateArrivals, ~ShortWrites, ~Prune, AnswersInv, [ReadNext]_readVars
    PROVE  AnswersInv'
<1>1. CopiesInv'
  BY StepCopies DEF AnswersInv
<1>2. CopiesInv /\ RollupsInv /\ WindowWhole /\ FreshRollups
      /\ query \in [Reader -> QueryRecord]
  BY DEF AnswersInv, CopiesInv
<1>3. CASE ArchiveStep
  <2>1. WindowWhole' /\ FreshRollups'
    BY <1>2, <1>3, ArchiveStepIsNext, StepWindow, StepFresh
  <2>2. ingested \subseteq ingested' /\ (faults' = 0 => faults = 0)
    BY <1>2, <1>3, ArchiveStepIsNext, StepGrows
  <2>3. ASSUME NEW r \in Reader PROVE Right(query[r])'
    <3>1. PICK q : query'[r] = q /\ Right(q)
      BY <1>2, <1>3, ArchiveStepIsNext, IdleAnswers DEF AnswersInv
    <3>2. Right(q)'
      BY <2>2, <3>1, RightLater
    <3>3. QED
      BY <3>1, <3>2 DEF Right, Claimed, Accounted, DayCounted, NextDay
  <2>4. QED
    BY <1>1, <2>1, <2>3 DEF AnswersInv
<1>4. ASSUME NEW r \in Reader, Query(r) PROVE AnswersInv'
  <2>1. PICK q : Becomes(r, q) /\ Right(q)
    BY <1>4, QueryRight
  <2>2. UNCHANGED <<today, hot, part, rollup, published, ingested, faults,
                    rebuild, sweep>>
    BY <1>2, <1>4, QueryLeaves DEF Leaves
  <2>3. ingested \subseteq ingested' /\ (faults' = 0 => faults = 0)
    BY <2>2
  <2>4. WindowWhole' /\ FreshRollups'
    BY <1>2, <2>2
       DEF WindowWhole, FreshRollups, IngestedOf, Settled, IsCompacted, sweep
  <2>5. ASSUME NEW s \in Reader PROVE Right(query[s])'
    <3>1. PICK p : query'[s] = p /\ Right(p)
      BY <1>2, <2>1 DEF Becomes, AnswersInv
    <3>2. Right(p)'
      BY <2>3, <3>1, RightLater
    <3>3. QED
      BY <3>1, <3>2 DEF Right, Claimed, Accounted, DayCounted, NextDay
  <2>6. QED
    BY <1>1, <2>4, <2>5 DEF AnswersInv
<1>5. CASE UNCHANGED readVars
  <2>1. UNCHANGED vars /\ query' = query
    BY <1>5 DEF readVars
  <2>2. WindowWhole' /\ FreshRollups'
    BY <1>2, <2>1, StepWindow, StepFresh
  <2>3. ingested' = ingested /\ faults' = faults
    BY <2>1 DEF vars
  <2>4. QED
    BY <1>1, <2>1, <2>2, <2>3
       DEF AnswersInv, Right, Claimed, Accounted, DayCounted, NextDay
<1>6. QED
  BY <1>3, <1>4, <1>5 DEF ReadNext

LEMMA InitAnswers == ReadInit => AnswersInv
<1> SUFFICES ASSUME ReadInit PROVE AnswersInv
  OBVIOUS
<1>1. CopiesInv
  BY InitCopies
<1>2. WindowWhole
  BY DEF ReadInit, Init, IdleLocals, WindowWhole
<1>3. FreshRollups
  BY DEF ReadInit, Init, FreshRollups, PartFile, Absent
<1>4. \A r \in Reader : Right(query[r])
  BY IdleAnswers DEF ReadInit
<1>5. QED
  BY <1>1, <1>2, <1>3, <1>4 DEF AnswersInv

\* A query over everything answers with all that was ingested when it was
\* asked, and with nothing else, however its reads interleave with the
\* compactor's writes and with other queries, and whatever failed before:
\* always for turns, for a session's detail when its index was not read while
\* being published, and for the rollup queries while nothing has failed.
THEOREM AnswersAreComplete ==
    ASSUME ~LateArrivals, ~ShortWrites, ~Prune
    PROVE  ReadSpec => []QueryComplete
<1>1. ReadInit => AnswersInv
  BY InitAnswers
<1>2. AnswersInv /\ [ReadNext]_readVars => AnswersInv'
  BY StepAnswers
<1>3. AnswersInv => QueryComplete
  BY DEF AnswersInv, Right, QueryComplete, At, Reading
<1>4. QED
  BY <1>1, <1>2, <1>3, PTL DEF ReadSpec
=============================================================================
