------------------------------- MODULE Ingest -------------------------------
(***************************************************************************)
(* The tailer: the Ingester of internal/ingest reading transcripts through *)
(* a source (internal/source) into the store, with its checkpoint.         *)
(*                                                                         *)
(* Run is one goroutine: it loads the checkpoint and makes a pass over     *)
(* every file, then a pass per tick.  On shutdown it saves the checkpoint, *)
(* and so does the deferred Close of the main goroutine, which then ends   *)
(* the process whatever Run is doing.  Close also runs when the start of   *)
(* the process fails, before there is a Run.                               *)
(*                                                                         *)
(* A transcript is a number of complete lines, all of one length, and a    *)
(* generation: a new one when the file is replaced.  A trailing partial    *)
(* line is never consumed and is left out.                                 *)
(***************************************************************************)
EXTENDS Integers, FiniteSets

CONSTANTS
    File,        \* the transcripts
    MaxLines,    \* bound: lines in a transcript
    MaxGen,      \* bound: times a transcript is replaced
    EventsOf,    \* how many events the source makes of a record
    MaxStops,    \* bound: times the process ends
    MaxFailures, \* bound: events and checkpoints that cannot be written
    Recapture    \* the process may be started with -recapture

\* A line of a transcript.
Record == [file : File, gen : 0..MaxGen, line : 1..MaxLines]

ASSUME IngestAssumption ==
    /\ MaxLines \in Nat /\ MaxGen \in Nat
    /\ EventsOf \in [Record -> Nat]
    /\ MaxStops \in Nat /\ MaxFailures \in Nat
    /\ Recapture \in BOOLEAN

VARIABLES
    file,      \* transcript -> its generation and number of lines
    stored,    \* record -> event -> times the store holds it
    disk, tmp, \* ingest.json and ingest.json.tmp
    offsets,   \* how far each transcript was read, and of which generation
    live,      \* record -> times the source has counted it in this run
    total,     \* record -> times it is counted in the persisted coverage
    pc,        \* where Run is
    todo,      \* transcripts still to visit in this pass
    cur, pos, event,  \* the transcript being parsed, the lines consumed and the
                      \* events emitted of the next one
    got,       \* the pass has ingested something
    saver,     \* Run's save and Close's
    stopping,  \* the process was told to stop
    stops, failures,
    failedAt,  \* history: record -> failures to append one of its events
    exact      \* history: no shutdown and no -recapture so far

pass == <<pc, todo, cur, pos, event, got>>
memory == <<offsets, live, total, pc, todo, cur, pos, event, got, saver>>
vars == <<file, stored, disk, tmp, offsets, live, total, pc, todo, cur, pos,
          event, got, saver, stopping, stops, failures, failedAt, exact>>

Position == [gen : 0..MaxGen, n : 0..MaxLines]
Beginning == [gen |-> 0, n |-> 0]
Counts == [Record -> Nat]
NoCounts == [r \in Record |-> 0]
Event == UNION {{r} \X (1..EventsOf[r]) : r \in Record}

\* What a checkpoint file holds: nothing yet, a document, or part of one.
NoFile == [whole |-> TRUE, offsets |-> [f \in File |-> Beginning], coverage |-> NoCounts]
Truncated == [NoFile EXCEPT !.whole = FALSE]
Document == [whole |-> TRUE, offsets |-> offsets, coverage |-> total]

Saver == {"run", "close"}
NotSaving == [pc |-> "no", doc |-> NoFile, renamed |-> FALSE]

-----------------------------------------------------------------------------
Init ==
    /\ file = [f \in File |-> Beginning]
    /\ stored = [e \in Event |-> 0]
    /\ disk = NoFile /\ tmp = NoFile
    /\ offsets = [f \in File |-> Beginning]
    /\ live = NoCounts /\ total = NoCounts
    /\ pc = "loading" /\ todo = {} /\ cur \in File /\ pos = 0 /\ event = 1 /\ got = FALSE
    /\ saver = [t \in Saver |-> NotSaving]
    /\ stopping = FALSE
    /\ stops = 0 /\ failures = 0
    /\ failedAt = NoCounts
    /\ exact = TRUE

\* The offsets the process has or would start from, now or after a save that
\* is under way.
Known(f) == {offsets[f], disk.offsets[f], tmp.offsets[f]}
                \cup {saver[t].doc.offsets[f] : t \in Saver}

\* A transcript that was replaced is shorter than it was read before: it is
\* visited again before it has grown past that.
Recognisable(f, t) == \A p \in Known(f) : p.n = 0 \/ p.gen = t.gen \/ t.n < p.n

\* The agent completes another line.
WriteLine(f) ==
    /\ file[f].n < MaxLines
    /\ LET t == [file[f] EXCEPT !.n = @ + 1]
       IN Recognisable(f, t) /\ file' = [file EXCEPT ![f] = t]
    /\ UNCHANGED <<stored, disk, tmp, memory, stopping, stops, failures, failedAt, exact>>

\* A transcript is replaced by an empty one, while it is not being parsed.
Replace(f) ==
    /\ file[f].gen < MaxGen
    /\ ~(pc = "parse" /\ cur = f)
    /\ LET t == [gen |-> file[f].gen + 1, n |-> 0]
       IN Recognisable(f, t) /\ file' = [file EXCEPT ![f] = t]
    /\ UNCHANGED <<stored, disk, tmp, memory, stopping, stops, failures, failedAt, exact>>

-----------------------------------------------------------------------------
(* Pass.                                                                   *)

\* The first pass, or the ticker's: it may win against a cancelled context.
StartPass ==
    /\ pc = "idle"
    /\ pc' = "pass" /\ todo' = File /\ got' = FALSE
    /\ UNCHANGED <<file, stored, disk, tmp, offsets, live, total, cur, pos, event,
                   saver, stopping, stops, failures, failedAt, exact>>

\* Mutant: a transcript shorter than what was read of it has not grown.
UnchangedIfShorter(f) == file[f].n <= offsets[f].n

\* The transcript has the size it was read to.
Unchanged(f) == file[f].n = offsets[f].n

SkipFile(f) ==
    /\ pc = "pass" /\ f \in todo
    /\ Unchanged(f)
    /\ todo' = todo \ {f}
    /\ UNCHANGED <<file, stored, disk, tmp, offsets, live, total, pc, cur, pos,
                   event, got, saver, stopping, stops, failures, failedAt, exact>>

\* Parse opens the transcript: from the offset, or from the start of one
\* that has shrunk.
OpenFile(f) ==
    /\ pc = "pass" /\ f \in todo
    /\ ~Unchanged(f)
    /\ cur' = f
    /\ pos' = IF file[f].n < offsets[f].n THEN 0 ELSE offsets[f].n
    /\ event' = 1
    /\ pc' = "parse"
    /\ UNCHANGED <<file, stored, disk, tmp, offsets, live, total, todo, got, saver,
                   stopping, stops, failures, failedAt, exact>>

\* The record on the next line.
Current == [file |-> cur, gen |-> file[cur].gen, line |-> pos + 1]

\* Mutant: one line more than there are.
MoreLinesOffByOne == pc = "parse" /\ pos <= file[cur].n

MoreLines == pc = "parse" /\ pos < file[cur].n

\* The source counts a record when it starts on it.
Seen == live' = IF event = 1 THEN [live EXCEPT ![Current] = @ + 1] ELSE live

SkipRecord ==
    /\ MoreLines /\ EventsOf[Current] = 0
    /\ Seen
    /\ pos' = pos + 1
    /\ UNCHANGED <<file, stored, disk, tmp, offsets, total, pc, todo, cur, event,
                   got, saver, stopping, stops, failures, failedAt, exact>>

\* The next event of the record is appended to the store.
AppendEvent ==
    /\ MoreLines /\ event <= EventsOf[Current]
    /\ Seen
    /\ stored' = [stored EXCEPT ![<<Current, event>>] = @ + 1]
    /\ IF event = EventsOf[Current]
       THEN event' = 1 /\ pos' = pos + 1
       ELSE event' = event + 1 /\ UNCHANGED pos
    /\ got' = TRUE
    /\ UNCHANGED <<file, disk, tmp, offsets, total, pc, todo, cur, saver, stopping,
                   stops, failures, failedAt, exact>>

\* The pass is through with the transcript, having consumed n lines.
CloseFileAt(n) ==
    /\ offsets' = [offsets EXCEPT ![cur] = [gen |-> file[cur].gen, n |-> n]]
    /\ todo' = todo \ {cur}
    /\ pos' = 0 /\ event' = 1
    /\ pc' = "pass"
    /\ UNCHANGED cur

\* Mutant: the record that failed is taken as consumed.
AppendFailsConsumed ==
    /\ MoreLines /\ event <= EventsOf[Current]
    /\ failures < MaxFailures /\ failures' = failures + 1
    /\ Seen
    /\ failedAt' = [failedAt EXCEPT ![Current] = @ + 1]
    /\ CloseFileAt(pos + 1)
    /\ UNCHANGED <<file, stored, disk, tmp, total, got, saver, stopping, stops, exact>>

\* Mutant: an offset is only recorded when the whole transcript was read.
AppendFailsForgets ==
    /\ MoreLines /\ event <= EventsOf[Current]
    /\ failures < MaxFailures /\ failures' = failures + 1
    /\ Seen
    /\ failedAt' = [failedAt EXCEPT ![Current] = @ + 1]
    /\ todo' = todo \ {cur} /\ pos' = 0 /\ event' = 1 /\ pc' = "pass"
    /\ UNCHANGED <<file, stored, disk, tmp, offsets, cur, total, got, saver, stopping,
                   stops, exact>>

\* The blob or the event cannot be written: the transcript is left at the
\* record that failed.
AppendFails ==
    /\ MoreLines /\ event <= EventsOf[Current]
    /\ failures < MaxFailures /\ failures' = failures + 1
    /\ Seen
    /\ failedAt' = [failedAt EXCEPT ![Current] = @ + 1]
    /\ CloseFileAt(pos)
    /\ UNCHANGED <<file, stored, disk, tmp, total, got, saver, stopping, stops, exact>>

EndOfFile ==
    /\ pc = "parse" /\ pos = file[cur].n
    /\ CloseFileAt(pos)
    /\ UNCHANGED <<file, stored, disk, tmp, live, total, got, saver, stopping,
                   stops, failures, failedAt, exact>>

\* The checkpoint is saved when the pass ingested anything.
EndPass ==
    /\ pc = "pass" /\ todo = {}
    /\ IF got
       THEN /\ pc' = "saving"
            /\ saver' = [saver EXCEPT !["run"].pc = "merge"]
       ELSE pc' = "idle" /\ UNCHANGED saver
    /\ got' = FALSE
    /\ UNCHANGED <<file, stored, disk, tmp, offsets, live, total, todo, cur, pos,
                   event, stopping, stops, failures, failedAt, exact>>

-----------------------------------------------------------------------------
(* saveCheckpoint, by Run or by Close.                                     *)

At(t, where) == saver[t].pc = where
Goes(t, where) == saver' = [saver EXCEPT ![t].pc = where]

SaveRest == <<file, stored, offsets, todo, cur, pos, event, got, stopping, stops,
              failedAt, exact>>

\* snapshotCoverage folds this run's counts into the total ...
SaveMerge(t) ==
    /\ At(t, "merge") /\ Goes(t, "reset")
    /\ total' = [r \in Record |-> total[r] + live[r]]
    /\ UNCHANGED <<SaveRest, disk, tmp, live, pc, failures>>

\* Mutant: the counts are left in place.
SaveResetForgotten(t) ==
    /\ At(t, "reset") /\ Goes(t, "marshal")
    /\ UNCHANGED <<SaveRest, disk, tmp, live, total, pc, failures>>

\* ... and then clears them.
SaveReset(t) ==
    /\ At(t, "reset") /\ Goes(t, "marshal")
    /\ live' = NoCounts
    /\ UNCHANGED <<SaveRest, disk, tmp, total, pc, failures>>

SaveMarshal(t) ==
    /\ At(t, "marshal")
    /\ saver' = [saver EXCEPT ![t].pc = "open", ![t].doc = Document]
    /\ UNCHANGED <<SaveRest, disk, tmp, live, total, pc, failures>>

\* Mutant: the checkpoint is written in place.
SaveOpenInPlace(t) ==
    /\ At(t, "open")
    /\ saver' = [saver EXCEPT ![t].pc = "write", ![t].renamed = TRUE]
    /\ disk' = Truncated
    /\ UNCHANGED <<SaveRest, tmp, live, total, pc, failures>>

\* WriteFile truncates the temporary file, then writes it.
SaveOpen(t) ==
    /\ At(t, "open") /\ Goes(t, "write")
    /\ tmp' = Truncated
    /\ UNCHANGED <<SaveRest, disk, live, total, pc, failures>>

\* The file opened may have been renamed by the other save meanwhile.
SaveWrite(t) ==
    /\ At(t, "write") /\ Goes(t, "rename")
    /\ IF saver[t].renamed
       THEN disk' = saver[t].doc /\ UNCHANGED tmp
       ELSE tmp' = saver[t].doc /\ UNCHANGED disk
    /\ UNCHANGED <<SaveRest, live, total, pc, failures>>

\* The save is over: Run goes on, Close ends the process.
Saved(t) == /\ saver' = [s \in Saver |->
                  IF s = t THEN [NotSaving EXCEPT !.pc = IF t = "close" THEN "done" ELSE "no"]
                  ELSE IF saver[s].pc \in {"write", "rename"}
                       THEN [saver[s] EXCEPT !.renamed = TRUE]
                  ELSE saver[s]]
            /\ pc' = IF t = "run" THEN (IF pc = "last" THEN "returned" ELSE "idle") ELSE pc

SaveRename(t) ==
    /\ At(t, "rename")
    /\ disk' = IF saver[t].renamed THEN disk ELSE tmp
    /\ tmp' = NoFile
    /\ Saved(t)
    /\ UNCHANGED <<SaveRest, live, total, failures>>

\* The file cannot be written or renamed.
SaveFails(t) ==
    /\ saver[t].pc \in {"open", "write", "rename"}
    /\ failures < MaxFailures /\ failures' = failures + 1
    /\ saver' = [saver EXCEPT ![t] = [NotSaving EXCEPT !.pc =
                                         IF t = "close" THEN "done" ELSE "no"]]
    /\ pc' = IF t = "run" THEN (IF pc = "last" THEN "returned" ELSE "idle") ELSE pc
    /\ UNCHANGED <<SaveRest, disk, tmp, live, total>>

-----------------------------------------------------------------------------
(* The process stops and starts.                                           *)

\* Everything in memory is gone.
Restart ==
    /\ offsets' = [f \in File |-> Beginning]
    /\ total' = NoCounts /\ live' = NoCounts
    /\ pc' = "loading" /\ todo' = {} /\ pos' = 0 /\ event' = 1 /\ got' = FALSE
    /\ saver' = [t \in Saver |-> NotSaving]
    /\ tmp' = NoFile
    /\ stopping' = FALSE
    /\ stops' = stops + 1
    /\ UNCHANGED <<file, stored, disk, cur, failures, failedAt, exact>>

\* Run starts with loadCheckpoint.  A checkpoint that cannot be read is as good
\* as none, and with -recapture every transcript is read from its first line.
LoadCheckpoint ==
    /\ pc = "loading" /\ pc' = "idle"
    /\ \/ /\ disk.whole
          /\ offsets' = disk.offsets /\ total' = disk.coverage
          /\ UNCHANGED exact
       \/ /\ disk.whole /\ disk # NoFile /\ Recapture
          /\ offsets' = [f \in File |-> Beginning] /\ total' = disk.coverage
          /\ exact' = FALSE
       \/ ~disk.whole /\ UNCHANGED <<offsets, total, exact>>
    /\ UNCHANGED <<file, stored, disk, tmp, live, todo, cur, pos, event, got, saver,
                   stopping, stops, failures, failedAt>>

\* The process is killed and started again.
Killed == stops < MaxStops /\ Restart

\* The start of the process fails, at signing in to the identity provider for
\* one: there will be no Run, but the deferred Close is in place.
StartFails ==
    /\ pc = "loading" /\ ~stopping /\ stops < MaxStops
    /\ pc' = "failed" /\ stopping' = TRUE
    /\ saver' = [saver EXCEPT !["close"].pc = "merge"]
    /\ UNCHANGED <<file, stored, disk, tmp, offsets, live, total, todo, cur, pos,
                   event, got, stops, failures, failedAt, exact>>

\* The context is cancelled, or the server cannot listen: the main goroutine
\* goes on to its Close.
Interrupt ==
    /\ ~stopping /\ stops < MaxStops
    /\ stopping' = TRUE /\ exact' = FALSE
    /\ saver' = [saver EXCEPT !["close"].pc = "merge"]
    /\ UNCHANGED <<file, stored, disk, tmp, offsets, live, total, pass, stops,
                   failures, failedAt>>

\* Run notices, between two passes.
RunStops ==
    /\ pc = "idle" /\ stopping
    /\ pc' = "last"
    /\ saver' = [saver EXCEPT !["run"].pc = "merge"]
    /\ UNCHANGED <<file, stored, disk, tmp, offsets, live, total, todo, cur, pos,
                   event, got, stopping, stops, failures, failedAt, exact>>

\* main returns after Close, and the process is started again.
Exit == At("close", "done") /\ Restart

-----------------------------------------------------------------------------
Save(t) == SaveMerge(t) \/ SaveReset(t) \/ SaveMarshal(t) \/ SaveOpen(t)
               \/ SaveWrite(t) \/ SaveRename(t)

Run == LoadCheckpoint \/ StartPass \/ SkipRecord \/ AppendEvent \/ EndOfFile \/ EndPass \/ RunStops
           \/ Save("run") \/ \E f \in File : SkipFile(f) \/ OpenFile(f)

Main == Save("close") \/ Exit

Next ==
    \/ \E f \in File : WriteLine(f) \/ Replace(f)
    \/ Run \/ Main
    \/ AppendFails
    \/ \E t \in Saver : SaveFails(t)
    \/ Killed \/ StartFails \/ Interrupt

Spec == Init /\ [][Next]_vars

\* The ticker fires, and a process told to stop does.
FairSpec == Spec /\ WF_vars(Run) /\ WF_vars(Main)

-----------------------------------------------------------------------------
(* Properties.                                                             *)

Checkpoint == [whole : BOOLEAN, offsets : [File -> Position], coverage : Counts]

TypeOK ==
    /\ file \in [File -> Position] /\ offsets \in [File -> Position]
    /\ stored \in [Event -> Nat]
    /\ disk \in Checkpoint /\ tmp \in Checkpoint
    /\ live \in Counts /\ total \in Counts /\ failedAt \in Counts
    /\ pc \in {"loading", "idle", "pass", "parse", "saving", "last", "returned",
           "failed"}
    /\ todo \subseteq File /\ cur \in File /\ pos \in 0..file[cur].n
    /\ event \in Nat \ {0} /\ got \in BOOLEAN
    /\ saver \in [Saver -> [pc : {"no", "merge", "reset", "marshal", "open", "write",
                                  "rename", "done"},
                            doc : Checkpoint, renamed : BOOLEAN]]
    /\ stopping \in BOOLEAN /\ exact \in BOOLEAN
    /\ stops \in 0..MaxStops /\ failures \in 0..MaxFailures

Before(r, p) == r.gen = p.gen /\ r.line <= p.n

\* ingest.go:273-274 and :347-348: no record is stepped over.  Every event of a
\* record before an offset, the one in memory or the one a restart would start
\* from, is in the store, whatever failed or was killed on the way.
NothingSkipped ==
    \A e \in Event : LET r == e[1] IN
        (\E p \in Known(r.file) : Before(r, p)) => stored[e] > 0

\* ingest.go:273-274, "so the next pass resumes there rather than replaying":
\* an event is stored once, and once more for a process that ended or an append
\* of the same record that failed.
ReplayedOnlyAfterFailure ==
    \A e \in Event : stored[e] <= 1 + stops + failedAt[e[1]]

\* ingest.go:347-348, an interrupted save "cannot leave a truncated
\* checkpoint", as long as the process is killed rather than shut down.
CheckpointWhole == exact => disk.whole

\* ingest.go:133-134, a save cannot "count the same records twice": the
\* persisted coverage counts every record before the persisted offsets once,
\* and no other, but for appends that failed.
CountsOnce(r) ==
    LET once == IF Before(r, disk.offsets[r.file]) THEN 1 ELSE 0
    IN disk.coverage[r] \in once..(once + failedAt[r])

CountedOnce == exact => \A r \in Record : r.gen = file[r.file].gen => CountsOnce(r)

\* The same sentence, of a process that may also be shut down: no record is
\* counted twice in the persisted coverage, but for appends that failed.
NotCountedTwice == \A r \in Record : disk.coverage[r] <= 1 + failedAt[r]

\* ingest.go:71, the checkpoint "is what survives a restart": a start that fails
\* leaves it as it was.
FailedStartHarmless == [][pc = "failed" => disk' = disk]_vars

\* The archive keeps catching up with the transcripts: whatever failed, was
\* killed, shut down or replaced, there is always a later time at which every
\* line that is there has been stored.
Written(r) == r.gen = file[r.file].gen /\ r.line <= file[r.file].n
EverythingIngested == []<>(\A e \in Event : Written(e[1]) => stored[e] > 0)
=============================================================================
