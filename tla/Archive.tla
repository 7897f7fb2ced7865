------------------------------- MODULE Archive -------------------------------
(***************************************************************************)
(* One tenant's archive: the hot window events are appended to, the daily  *)
(* Parquet partitions, the consolidated rollup over them, its in-memory    *)
(* copy, and the background compactor that moves days from the first to    *)
(* the others (internal/compact, with the store behind it).                *)
(*                                                                         *)
(* A fact is what one event contributes: a turn's measurements, or one     *)
(* piece of captured content of that turn.  Appending the same event twice *)
(* adds nothing, which is what BuildTurns makes of a duplicate.  A file is *)
(* the set of facts its rows were computed from, or Absent.                *)
(*                                                                         *)
(* The compactor is a single goroutine (runCompaction), so its local       *)
(* variables are plain variables here and pc is the step it is at.         *)
(* Appends, the clock, failures and crashes interleave with its steps.     *)
(***************************************************************************)
EXTENDS Integers, Sequences, FiniteSets

CONSTANTS
    Fact,          \* the facts that can be ingested
    DayOf,         \* the UTC day of a fact's timestamp
    TurnOf,        \* the turn a fact belongs to
    Content,       \* the facts that are captured content
    MaxDay,        \* bound: the last day the clock reaches
    MaxFaults,     \* bound: failed sweeps and crashes
    Prune,         \* a Postgres window, released after compaction
    Recapture,     \* the process may be started with -recapture
    LateArrivals,  \* events may land on a day already compacted
    ShortWrites    \* a turns.parquet may be stored short without an error

Day == 1..MaxDay

ASSUME ConstantsAssumption ==
    /\ MaxDay \in Nat \ {0} /\ MaxFaults \in Nat
    /\ IsFiniteSet(Fact)
    /\ DayOf \in [Fact -> Day]
    /\ DOMAIN TurnOf = Fact
    /\ Content \subseteq Fact
    /\ Prune \in BOOLEAN /\ Recapture \in BOOLEAN
    /\ LateArrivals \in BOOLEAN /\ ShortWrites \in BOOLEAN

RollupFiles == <<"day", "by_model", "by_tool", "by_project", "by_session">>
PartFiles ==  \* in the order they are written
    <<"day", "by_model", "by_tool", "by_project", "by_session", "turns">>

Rollup == {"day", "by_model", "by_tool", "by_project", "by_session"}
PartFile == Rollup \cup {"turns"}

VARIABLES
    today,      \* the current UTC day
    hot,        \* facts whose events the hot window holds
    part,       \* day -> file -> the facts stored in it
    rollup,     \* the rows of the rollup/ objects: file -> day -> facts
    published,  \* the rollup/ objects that exist
    cache,      \* Compactor.index, NoIndex when nil
    ingested,   \* history: every fact an Append has returned nil for
    faults,     \* failures and crashes so far
    rebuild,    \* the next sweep is RecompactAll
    \* the locals of the sweep
    pc, force, todo, day, snap, file, wrote, draft

stored == <<today, hot, part, rollup, published, cache, ingested>>
sweep == <<pc, force, todo, day, snap, file, wrote, draft>>
vars == <<today, hot, part, rollup, published, cache, ingested, faults, rebuild,
          pc, force, todo, day, snap, file, wrote, draft>>

-----------------------------------------------------------------------------
(* Reading the stored state.                                               *)

File == [stored : BOOLEAN, rows : SUBSET Fact]
Absent == [stored |-> FALSE, rows |-> {}]
Stored(S) == [stored |-> TRUE, rows |-> S]

Index == [Rollup -> [Day -> File]]
NoIndex == [r \in Rollup |-> [d \in Day |-> Absent]]

HotOf(d) == {f \in hot : DayOf[f] = d}
IngestedOf(d) == {f \in ingested : DayOf[f] = d}

\* store.Days: the days the hot window holds anything for.
HotDays == {DayOf[f] : f \in hot}

\* Mutant: completeness tested on the file written first.
IsCompactedByFirstFile(d) == part[d]["day"].stored
IsCompacted(d) == part[d]["turns"].stored

\* hasIndex: both objects exist.
HasIndex == {"day", "by_session"} \subseteq published

\* What query.BuildTurns makes of a set of events, as pruneDay counts it.
TurnCount(S) == Cardinality({TurnOf[f] : f \in S})
ContentRefs(S) == Cardinality(S \cap Content)

\* turnsForDay: the partition when there is one, else the raw events.
Served(d) == IF IsCompacted(d) THEN part[d]["turns"].rows ELSE HotOf(d)

\* An existence check that may fail, which both callers read as "absent".
Probe(exists, seen) ==
    \/ seen = exists /\ UNCHANGED faults
    \/ exists /\ ~seen /\ faults < MaxFaults /\ faults' = faults + 1

Oldest(d) == d \in todo /\ \A e \in todo : d <= e

\* No partition of the day exists or is being written.  Without LateArrivals
\* every event of a day is appended while this holds.
Settled(d) == ~IsCompacted(d) /\ ~(pc = "write" /\ day = d)

-----------------------------------------------------------------------------
IdleLocals ==
    /\ pc = "idle" /\ force = FALSE /\ todo = {} /\ day = 1 /\ snap = {}
    /\ file = 1 /\ wrote = FALSE
    /\ draft = NoIndex

Init ==
    /\ today = 1
    /\ hot = {} /\ ingested = {}
    /\ part = [d \in Day |-> [p \in PartFile |-> Absent]]
    /\ rollup = NoIndex
    /\ published = {}
    /\ cache = NoIndex
    /\ faults = 0
    /\ rebuild \in {FALSE, Recapture}
    /\ IdleLocals

(* The end of a sweep, whether it returned an error or not: run() clears   *)
(* the recompaction flag either way and nothing local survives.            *)
SweepEnds ==
    /\ pc' = "idle" /\ force' = FALSE /\ todo' = {} /\ day' = 1 /\ snap' = {}
    /\ file' = 1 /\ wrote' = FALSE
    /\ draft' = NoIndex

\* Once the index stands: on to pruning when it is on.
AfterIndex ==
    \/ /\ Prune
       /\ pc' = "list"
       /\ UNCHANGED <<force, todo, day, snap, file, wrote, draft>>
    \/ ~Prune /\ SweepEnds

-----------------------------------------------------------------------------
(* The environment: ingestion, the clock.                                  *)

\* store.Append / the collector's handler, for an event of today or earlier.
AppendFact(f) ==
    /\ DayOf[f] <= today
    /\ LateArrivals \/ Settled(DayOf[f])
    /\ hot' = hot \cup {f}
    /\ ingested' = ingested \cup {f}
    /\ UNCHANGED <<today, part, rollup, published, cache, faults, rebuild, sweep>>

Midnight ==
    /\ today < MaxDay
    /\ today' = today + 1
    /\ UNCHANGED <<hot, part, rollup, published, cache, ingested, faults, rebuild, sweep>>

-----------------------------------------------------------------------------
(* CompactAll and RecompactAll: every day the window lists, oldest first.  *)

StartSweep ==
    /\ pc = "idle"
    /\ pc' = "compact"
    /\ todo' = HotDays
    /\ force' = rebuild
    /\ rebuild' = FALSE
    /\ UNCHANGED <<stored, faults, day, snap, file, wrote, draft>>

\* CompactDay goes on to write: a finished day, not compacted as far as the
\* probe tells (or forced), with events.
Compactable(d, seen) == d < today /\ (force \/ ~seen) /\ HotOf(d) # {}

\* CompactDay returning without writing.
SkipDay(d) ==
    /\ pc = "compact" /\ Oldest(d)
    /\ \/ d >= today /\ UNCHANGED faults  \* before the day is looked up
       \/ /\ d < today
          /\ \E seen \in BOOLEAN :
                Probe(IsCompacted(d), seen) /\ ~Compactable(d, seen)
    /\ todo' = todo \ {d}
    /\ UNCHANGED <<stored, rebuild, pc, force, day, snap, file, wrote, draft>>

\* CompactDay reading the day's events.
ReadDay(d) ==
    /\ pc = "compact" /\ Oldest(d)
    /\ \E seen \in BOOLEAN : Probe(IsCompacted(d), seen) /\ Compactable(d, seen)
    /\ snap' = HotOf(d)
    /\ day' = d
    /\ file' = 1
    /\ pc' = "write"
    /\ UNCHANGED <<stored, rebuild, force, todo, wrote, draft>>

\* Mutant: one Put too many.
PutDayRollupOffByOne ==
    /\ pc = "write" /\ file <= Len(PartFiles)
    /\ part' = [part EXCEPT ![day][PartFiles[file]] = Stored(snap)]
    /\ file' = file + 1
    /\ UNCHANGED <<today, hot, rollup, published, cache, ingested, faults, rebuild, pc,
                   force, todo, day, snap, wrote, draft>>

\* One Put of a rollup of the day being compacted.
PutDayRollup ==
    /\ pc = "write" /\ file < Len(PartFiles)
    /\ part' = [part EXCEPT ![day][PartFiles[file]] = Stored(snap)]
    /\ file' = file + 1
    /\ UNCHANGED <<today, hot, rollup, published, cache, ingested, faults, rebuild, pc,
                   force, todo, day, snap, wrote, draft>>

\* What a Put of turns.parquet may leave behind: all the rows, or fewer.
StoredTurns(S) ==
    {S} \cup IF ShortWrites
             THEN {{f \in S : TurnOf[f] \in K} :
                       K \in SUBSET {TurnOf[f] : f \in S}}
             ELSE {}

\* Mutant: turns.parquet is put in no particular order among the six.
PutTurnsUnordered ==
    /\ pc = "write"
    /\ part' = [part EXCEPT ![day]["turns"] = Stored(snap)]
    /\ todo' = todo \ {day}
    /\ wrote' = TRUE
    /\ pc' = "compact"
    /\ UNCHANGED <<today, hot, rollup, published, cache, ingested, faults, rebuild,
                   force, day, snap, file, draft>>

\* The last Put, which publishes the partition.
PutTurns ==
    /\ pc = "write" /\ file = Len(PartFiles)
    /\ \E rows \in StoredTurns(snap) :
          part' = [part EXCEPT ![day]["turns"] = Stored(rows)]
    /\ todo' = todo \ {day}
    /\ wrote' = TRUE
    /\ pc' = "compact"
    /\ UNCHANGED <<today, hot, rollup, published, cache, ingested, faults, rebuild,
                   force, day, snap, file, draft>>

\* Mutant: the index is only rebuilt when it is missing.
DaysDoneIndexOnce ==
    /\ pc = "compact" /\ todo = {}
    /\ \E seen \in BOOLEAN :
          /\ Probe(HasIndex, seen)
          /\ IF ~seen
             THEN /\ pc' = "index"
                  /\ UNCHANGED <<force, todo, day, snap, file, wrote, draft>>
             ELSE AfterIndex
    /\ UNCHANGED <<stored, rebuild>>

\* The day loop is over: rebuild the index, or prune, or stop.
DaysDone ==
    /\ pc = "compact" /\ todo = {}
    /\ \E seen \in BOOLEAN :
          /\ Probe(HasIndex, seen)
          /\ IF force \/ wrote \/ ~seen
             THEN /\ pc' = "index"
                  /\ UNCHANGED <<force, todo, day, snap, file, wrote, draft>>
             ELSE AfterIndex
    /\ UNCHANGED <<stored, rebuild>>

-----------------------------------------------------------------------------
(* RebuildIndex.  Only the compactor writes partitions, so reading them    *)
(* one by one and reading them at once are the same.                       *)

\* Mutant: a day without a partition is filled in from the hot window.
RollupRowFromWindow(d, r) ==
    IF ~part[d][r].stored THEN Stored(HotOf(d)) ELSE part[d][r]

RollupRow(d, r) ==
    IF r = "by_session" /\ ~part[d][r].stored
    THEN part[d]["turns"]  \* derived from the turns (older partitions)
    ELSE part[d][r]

ReadPartitions ==
    /\ pc = "index"
    /\ draft' = [r \in Rollup |-> [d \in Day |-> RollupRow(d, r)]]
    /\ file' = 1
    /\ pc' = "publish"
    /\ UNCHANGED <<stored, faults, rebuild, force, todo, day, snap, wrote>>

\* One of the five Puts of the consolidated rollup.
PutRollup ==
    /\ pc = "publish" /\ file <= Len(RollupFiles)
    /\ rollup' = [rollup EXCEPT ![RollupFiles[file]] = draft[RollupFiles[file]]]
    /\ published' = published \cup {RollupFiles[file]}
    /\ file' = file + 1
    /\ UNCHANGED <<today, hot, part, cache, ingested, faults, rebuild, pc,
                   force, todo, day, snap, wrote, draft>>

\* invalidateIndex after the last Put.
IndexPublished ==
    /\ pc = "publish" /\ file > Len(RollupFiles)
    /\ cache' = NoIndex
    /\ AfterIndex
    /\ UNCHANGED <<today, hot, part, rollup, published, ingested, faults, rebuild>>

-----------------------------------------------------------------------------
(* pruneHotWindow and pruneDay.                                            *)

\* Mutant: yesterday is left in the window.
ListHotWindowOffByOne ==
    /\ pc = "list"
    /\ todo' = {d \in HotDays : d < today - 1}
    /\ pc' = "prune"
    /\ UNCHANGED <<stored, faults, rebuild, force, day, snap, file, wrote,
                   draft>>

\* today is read once, when the window is listed.
ListHotWindow ==
    /\ pc = "list"
    /\ todo' = {d \in HotDays : d < today}
    /\ pc' = "prune"
    /\ UNCHANGED <<stored, faults, rebuild, force, day, snap, file, wrote,
                   draft>>

PruneSkip(d) ==
    /\ pc = "prune" /\ Oldest(d)
    /\ Probe(IsCompacted(d), FALSE)
    /\ todo' = todo \ {d}
    /\ UNCHANGED <<stored, rebuild, pc, force, day, snap, file, wrote, draft>>

\* Mutant: the partition is not compared with the window.
AgreesAlways(d) == TRUE

\* The partition read back holds as many turns, and as much content, as the
\* window does now.
Agrees(d) ==
    /\ TurnCount(part[d]["turns"].rows) = TurnCount(HotOf(d))
    /\ ContentRefs(part[d]["turns"].rows) = ContentRefs(HotOf(d))

Verify(d) ==
    /\ pc = "prune" /\ Oldest(d)
    /\ IsCompacted(d)
    /\ \/ /\ Agrees(d)
          /\ day' = d
          /\ pc' = "drop"
          /\ UNCHANGED <<force, todo, snap, file, wrote, draft>>
       \/ /\ ~Agrees(d)  \* an error, which ends the whole sweep
          /\ SweepEnds
    /\ UNCHANGED <<stored, faults, rebuild>>

\* Mutant: the delete is not limited to the day.
DropEverything ==
    /\ pc = "drop"
    /\ hot' = {}
    /\ todo' = todo \ {day}
    /\ pc' = "prune"
    /\ UNCHANGED <<today, part, rollup, published, cache, ingested, faults, rebuild,
                   force, day, snap, file, wrote, draft>>

\* DropDay deletes whatever the window holds for the day by then.
Drop ==
    /\ pc = "drop"
    /\ hot' = hot \ HotOf(day)
    /\ todo' = todo \ {day}
    /\ pc' = "prune"
    /\ UNCHANGED <<today, part, rollup, published, cache, ingested, faults, rebuild,
                   force, day, snap, file, wrote, draft>>

PruneDone ==
    /\ pc = "prune" /\ todo = {}
    /\ SweepEnds
    /\ UNCHANGED <<stored, faults, rebuild>>

-----------------------------------------------------------------------------
(* Failures.                                                               *)

\* Any read or Put of the sweep returns an error: logged, retried on the next
\* tick.  A failed Put of the rollup still drops the cached copy.
SweepFails ==
    /\ pc # "idle" /\ faults < MaxFaults
    /\ faults' = faults + 1
    /\ cache' = IF pc = "publish" THEN NoIndex ELSE cache
    /\ SweepEnds
    /\ UNCHANGED <<today, hot, part, rollup, published, ingested, rebuild>>

\* The process stops anywhere and is started again, with or without
\* -recapture.
Crash ==
    /\ faults < MaxFaults
    /\ faults' = faults + 1
    /\ cache' = NoIndex
    /\ rebuild' \in {FALSE, Recapture}
    /\ SweepEnds
    /\ UNCHANGED <<today, hot, part, rollup, published, ingested>>

-----------------------------------------------------------------------------
CompactDays == DaysDone \/ StartSweep \/ PutDayRollup \/ PutTurns
                   \/ \E d \in Day : SkipDay(d) \/ ReadDay(d)
RebuildIndex == ReadPartitions \/ PutRollup \/ IndexPublished
PruneHotWindow == ListHotWindow \/ Drop \/ PruneDone
                   \/ \E d \in Day : PruneSkip(d) \/ Verify(d)

Compactor == CompactDays \/ RebuildIndex \/ PruneHotWindow

Next ==
    \/ \E f \in Fact : AppendFact(f)
    \/ Midnight
    \/ Compactor
    \/ SweepFails
    \/ Crash

Spec == Init /\ [][Next]_vars

\* The ticker keeps starting sweeps and a started sweep keeps running.
FairSpec == Spec /\ WF_vars(Compactor)

-----------------------------------------------------------------------------
(* Properties.                                                             *)

TypeOK ==
    /\ today \in Day /\ faults \in 0..MaxFaults
    /\ hot \subseteq Fact /\ ingested \subseteq Fact
    /\ part \in [Day -> [PartFile -> File]]
    /\ rollup \in Index /\ published \subseteq Rollup /\ cache \in Index
    /\ rebuild \in BOOLEAN
    /\ pc \in {"idle", "compact", "write", "index", "publish", "list",
               "prune", "drop"}
    /\ force \in BOOLEAN /\ wrote \in BOOLEAN
    /\ todo \subseteq Day /\ day \in Day
    /\ snap \subseteq Fact
    /\ file \in 1..Len(PartFiles)
    /\ draft \in Index

\* README.md:228, "Nothing here ever deletes an ingested trace": whatever was
\* ingested is in the hot window or in the turns file of its day, whatever the
\* compactor, its failures and crashes, and a short write have done.
NoFactLost ==
    \A f \in ingested :
        \/ f \in hot
        \/ f \in part[DayOf[f]]["turns"].rows

\* Reading a day -- its partition if there is one, else the hot window --
\* returns exactly what was ingested for it, at every step of a sweep.
ServesIngested == \A d \in Day : Served(d) = IngestedOf(d)

\* compact.go:143-147: turns.parquet is the last file written, so "its
\* presence still means the whole partition landed".
TurnsFileMeansWholePartition ==
    \A d \in Day : IsCompacted(d) =>
        \A r \in Rollup : part[d][r] = part[d]["turns"]

\* index.go:129-131, "every row in every rollup is keyed by day and is
\* independently correct": a published row counts the whole day, although
\* RebuildIndex also reads days whose partition was left half written.
RollupRowsWhole ==
    \A r \in Rollup, d \in Day :
        rollup[r][d].stored => rollup[r][d].rows = IngestedOf(d)

\* README.md:203, "A day covered by neither the rollup nor the write-ahead
\* window is known to be empty": knownEmpty, on the stored rollup.
KnownEmptyIsEmpty ==
    rollup["day"] # NoIndex["day"] =>
        \A d \in Day : ~rollup["day"][d].stored /\ d \notin HotDays
                            => IngestedOf(d) = {}

\* compact.go:111, a partition is not "built from a partial day": once no
\* sweep is writing, a compacted day's partition has all the window has.
PartitionNotPartial ==
    \A d \in Day : IsCompacted(d) /\ pc = "idle"
        => HotOf(d) \subseteq part[d]["turns"].rows

\* compact.go:197, the prune sweep is "self-healing": every finished day is
\* eventually released from a window that can be pruned.
WindowDrains == \A d \in Day : (d < today) ~> (HotOf(d) = {})

\* A published index catches up with the partitions.
IndexCatchesUp == \A d \in Day : IsCompacted(d) ~> rollup["day"][d].stored

\* The archive is a ledger: moving days from the window to partitions and
\* releasing them neither adds to nor takes from what is served.
Ledger == INSTANCE TurnLedger WITH ledger <- UNION {Served(d) : d \in Day}
LedgerSpec == Ledger!Spec
=============================================================================
