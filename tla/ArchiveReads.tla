---------------------------- MODULE ArchiveReads ----------------------------
(***************************************************************************)
(* Queries over an archive while it is compacted: the read path of         *)
(* internal/compact (TurnsRange, DailyRange, ProjectDaily, AggregateRange, *)
(* SessionDetail), composed with the compactor of module Archive.          *)
(*                                                                         *)
(* A query runs on its own goroutine and takes no lock against the         *)
(* compactor: the in-memory rollup, each object and each listing are read  *)
(* in steps of their own.  Every query here is over every fact; what it    *)
(* returns is the set of facts its rows were computed from, and for an     *)
(* aggregate also the set its breakdown was computed from.                 *)
(***************************************************************************)
EXTENDS Archive

CONSTANTS
    Reader,  \* goroutines serving queries
    Kind     \* the kinds of query they are asked

Kinds == {"turns", "daily", "project", "detail", "aggregate"}

ASSUME KindsAssumption == Kind \subseteq Kinds

VARIABLE query  \* reader -> the query it is running

Idle == [pc |-> "idle", kind |-> "turns", idx |-> NoIndex, file |-> 1,
         hotDays |-> {}, want |-> {}, whole |-> {}, got |-> {}, split |-> {},
         must |-> {}, mixed |-> FALSE]

readVars == <<vars, query>>

ReadInit == Init /\ query = [r \in Reader |-> Idle]

At(r, step) == query[r].pc = step
Becomes(r, q) == query' = [query EXCEPT ![r] = q]

\* A step of a query that writes nothing.
Reads == UNCHANGED vars

-----------------------------------------------------------------------------
(* loadIndex.                                                              *)

\* The days inside an aggregate's window, which may begin in the middle of the
\* first one and ends today: only these can be answered by a rollup.
WholeDays(k) ==
    IF k = "aggregate" THEN {2..(today - 1)} ELSE {{}}

Begin(r, k) ==
    /\ At(r, "idle")
    /\ \E w \in WholeDays(k) :
          Becomes(r, [Idle EXCEPT !.pc = "load", !.kind = k, !.whole = w,
                                  !.must = ingested])
    /\ Reads

LoadCached(r) ==
    /\ At(r, "load") /\ cache # NoIndex
    /\ Becomes(r, [query[r] EXCEPT !.idx = cache, !.pc = "choose"])
    /\ Reads

\* readIndex: nil when there are no day rows, else the other four objects.
ReadFirstObject(r) ==
    /\ At(r, "load") /\ cache = NoIndex
    /\ Becomes(r, [query[r] EXCEPT
                      !.idx["day"] = rollup["day"], !.file = 2,
                      !.pc = IF rollup["day"] = NoIndex["day"]
                             THEN "install" ELSE "objects"])
    /\ Reads

ReadNextObject(r) ==
    /\ At(r, "objects")
    /\ LET f == query[r].file
           name == RollupFiles[f]
       IN Becomes(r, [query[r] EXCEPT
                         !.idx[name] = rollup[name], !.file = f + 1,
                         !.pc = IF f = Len(RollupFiles)
                                THEN "install" ELSE "objects"])
    /\ Reads

\* The copy just read becomes the cached one, whatever happened meanwhile.
InstallIndex(r) ==
    /\ At(r, "install")
    /\ cache' = query[r].idx
    /\ Becomes(r, [query[r] EXCEPT !.pc = "choose"])
    /\ UNCHANGED <<today, hot, part, rollup, published, ingested, faults,
                   rebuild, sweep>>

-----------------------------------------------------------------------------
(* Which days to read.                                                     *)

Covers(idx, d) == idx["day"][d].stored

\* Mutant: a day the rollup does not cover is empty.
KnownEmptyByIndexAlone(q, d) == q.idx # NoIndex /\ ~Covers(q.idx, d)

KnownEmpty(q, d) ==
    /\ q.idx # NoIndex
    /\ ~Covers(q.idx, d)
    /\ d \notin q.hotDays

\* daysHolding, for a session on every day that has any fact.
DaysHolding(idx) ==
    {d \in Day : \/ idx = NoIndex
                 \/ ~IsCompacted(d)
                 \/ ~Covers(idx, d)
                 \/ idx["by_session"][d].rows # {}}

\* An index read, or cached, while RebuildIndex was publishing: it covers a day
\* whose sessions it does not have yet.
Mixed(idx) == \E d \in Day : Covers(idx, d) /\ ~idx["by_session"][d].stored

ChooseDays(r) ==
    /\ At(r, "choose")
    /\ Becomes(r,
          IF query[r].kind = "detail"
          THEN [query[r] EXCEPT !.want = DaysHolding(query[r].idx), !.pc = "day",
                                  !.mixed = Mixed(query[r].idx)]
          ELSE [query[r] EXCEPT !.want = Day, !.hotDays = HotDays, !.pc = "day"])
    /\ Reads

-----------------------------------------------------------------------------
(* Reading one day, oldest first.                                          *)

\* The rollup a query of this kind is answered from.
RollupOf == [daily |-> "day", project |-> "by_project", aggregate |-> "day"]

UsesRollup(q, d) ==
    q.kind \in DOMAIN RollupOf /\ (q.kind = "aggregate" => d \in q.whole)

InIndex(q, d) == UsesRollup(q, d) /\ q.idx[RollupOf[q.kind]][d].rows # {}

\* The day the query reads next.
NextDay(q, d) == d \in q.want /\ \A e \in q.want : d <= e

\* The query after its next day contributed these facts to its totals, and
\* these to its breakdown.
CountedApart(q, d, facts, split) ==
    [q EXCEPT !.got = @ \cup facts, !.split = @ \cup split,
              !.want = @ \ {d}, !.pc = "day"]

Counted(q, d, facts) ==
    CountedApart(q, d, facts, IF q.kind = "aggregate" THEN facts ELSE {})

\* index.add for an aggregate, one row for the others.
FromIndex(q, d) ==
    CountedApart(q, d, q.idx[RollupOf[q.kind]][d].rows,
        IF q.kind = "aggregate" THEN q.idx["by_project"][d].rows ELSE {})

StartDay(r, d) ==
    /\ At(r, "day") /\ NextDay(query[r], d)
    /\ LET q == query[r]
       IN Becomes(r,
             IF InIndex(q, d) /\ (q.kind = "aggregate" => ~KnownEmpty(q, d))
             THEN FromIndex(q, d)
             ELSE IF q.kind # "detail" /\ KnownEmpty(q, d) THEN Counted(q, d, {})
             ELSE [q EXCEPT !.pc = IF UsesRollup(q, d) THEN "rollup" ELSE "turns"])
    /\ Reads

\* ReadDay or ReadProjects: the day's own rollup, if there is one.
ReadDayRollup(r, d) ==
    /\ At(r, "rollup") /\ NextDay(query[r], d)
    /\ LET q == query[r]
           f == part[d][RollupOf[q.kind]]
       IN Becomes(r, IF f.rows = {} THEN [q EXCEPT !.pc = "turns"]
                     ELSE IF q.kind = "aggregate"
                     THEN [q EXCEPT !.got = @ \cup f.rows, !.pc = "breakdown"]
                     ELSE Counted(q, d, f.rows))
    /\ Reads

\* aggregateFromRollup after the day's row: by_project stands for the three
\* breakdowns.  One that is not there yet is read as empty.
ReadBreakdown(r, d) ==
    /\ At(r, "breakdown") /\ NextDay(query[r], d)
    /\ Becomes(r, CountedApart(query[r], d, {}, part[d]["by_project"].rows))
    /\ Reads

\* Mutant: a day without a partition is taken for an empty one.
ReadTurnsOrNothing(r, d) ==
    /\ At(r, "turns") /\ NextDay(query[r], d)
    /\ Becomes(r, Counted(query[r], d, part[d]["turns"].rows))
    /\ Reads

\* turnsForDay, first half: the partition.
ReadTurns(r, d) ==
    /\ At(r, "turns") /\ NextDay(query[r], d)
    /\ LET q == query[r]
           f == part[d]["turns"]
       IN Becomes(r, IF f.stored THEN Counted(q, d, f.rows)
                                 ELSE [q EXCEPT !.pc = "events"])
    /\ Reads

\* turnsForDay, second half: the raw events.
ReadEvents(r, d) ==
    /\ At(r, "events") /\ NextDay(query[r], d)
    /\ Becomes(r, Counted(query[r], d, HotOf(d)))
    /\ Reads

Finish(r) ==
    /\ At(r, "day") /\ query[r].want = {}
    /\ Becomes(r, [query[r] EXCEPT !.pc = "done", !.idx = NoIndex,
                                   !.hotDays = {}])
    /\ Reads

\* The answer is written, and the goroutine is through with it.
Answer(r) ==
    /\ At(r, "done")
    /\ Becomes(r, Idle)
    /\ Reads

-----------------------------------------------------------------------------
Query(r) ==
    \/ \E k \in Kind : Begin(r, k)
    \/ LoadCached(r) \/ ReadFirstObject(r) \/ ReadNextObject(r)
    \/ InstallIndex(r) \/ ChooseDays(r)
    \/ \E d \in Day :
          \/ StartDay(r, d) \/ ReadDayRollup(r, d) \/ ReadBreakdown(r, d)
          \/ ReadTurns(r, d) \/ ReadEvents(r, d)
    \/ Finish(r) \/ Answer(r)

\* The archive's own steps; a crash takes the queries with it.
ArchiveStep ==
    \/ /\ \/ \E f \in Fact : AppendFact(f)
          \/ Midnight
          \/ Compactor
          \/ SweepFails
       /\ UNCHANGED query
    \/ Crash /\ query' = [r \in Reader |-> Idle]

ReadNext == ArchiveStep \/ \E r \in Reader : Query(r)

ReadSpec == ReadInit /\ [][ReadNext]_readVars

-----------------------------------------------------------------------------
(* Properties.                                                             *)

\* source.go:12-14, daily.go:37-38: a query over everything returns all that had
\* been ingested when it was asked and nothing else, whatever part of it came
\* from the index, from a partition or from raw events, and whatever the
\* compactor did between its reads or left half done before.  A day rollup is
\* used without asking whether its partition was finished, so for the queries
\* that are answered from rollups this is claimed while nothing failed; a
\* session's days are taken from the index, so there it is claimed of an index
\* that is not a mix of two.
Claimed(q) ==
    CASE q.kind = "turns" -> TRUE
      [] q.kind = "detail" -> ~q.mixed
      [] OTHER -> faults = 0

QueryComplete ==
    \A r \in Reader : At(r, "done") /\ Claimed(query[r]) =>
        /\ query[r].must \subseteq query[r].got
        /\ query[r].got \cup query[r].split \subseteq ingested

\* index.go:129-134, "That is harmless here ... The worst observable outcome is
\* a just-compacted day appearing in the totals a moment before it appears in
\* the model split": a session's detail has all of its turns.
DetailComplete ==
    \A r \in Reader : At(r, "done") /\ query[r].kind = "detail" =>
        query[r].must \subseteq query[r].got

\* An aggregate's breakdown is of the turns its totals count.
BreakdownAgrees ==
    \A r \in Reader :
        At(r, "done") /\ query[r].kind = "aggregate" =>
            query[r].split = query[r].got

\* index.go:181-185, "there is no expiry to tune and no staleness window to
\* reason about, because there is no other writer to race": while the rollup is
\* not being written, a cached copy is the stored one.
CacheFresh == pc # "publish" /\ cache # NoIndex => cache = rollup

\* Whatever races, a cached rollup row is right about its day: rows cached
\* before a rebuild and rows cached after it never disagree.
CachedRowsWhole ==
    \A f \in Rollup, d \in Day :
        cache[f][d].stored => cache[f][d].rows = IngestedOf(d)
=============================================================================
