---------------------------- MODULE IngestProofs ----------------------------
(***************************************************************************)
(* Theorems about module Ingest, for every set of transcripts, whatever    *)
(* their lines are made of, and every bound: its run's four invariants,    *)
(* from one inductive invariant.                                           *)
(***************************************************************************)
EXTENDS Ingest, TLAPS

\* Where Run is decides whether it saves; a process that is loading, or that
\* never came to load, knows nothing; only a stopping one runs Close.
ProcessInv ==
    /\ pc # "parse" => pos = 0 /\ event = 1
    /\ saver["run"].pc # "done"
    /\ pc \notin {"saving", "last"} => saver["run"].pc = "no"
    /\ ~stopping => saver["close"].pc = "no"
    /\ stopping => stops < MaxStops
    /\ pc = "failed" => stopping
    /\ pc \in {"loading", "failed"} =>
          offsets = [f \in File |-> Beginning] /\ live = NoCounts /\ total = NoCounts

\* Every event of the transcript's records before the position is stored.
Safe(f, p) ==
    \A e \in Event : e[1].file = f /\ Before(e[1], p) => stored[e] > 0

\* A position is of the transcript as it is, or of one it has replaced.
Behind(f, p) ==
    /\ p.gen <= file[f].gen
    /\ p.gen = file[f].gen => p.n <= file[f].n
    /\ p.n = 0 \/ p.gen = file[f].gen \/ file[f].n < p.n

\* That of every offset there is; and while a transcript is parsed, of where
\* that has got, to the event.
OffsetsInv ==
    \A f \in File : \A p \in Known(f) : Safe(f, p) /\ Behind(f, p)

Reached == [gen |-> file[cur].gen, n |-> pos]

ParseInv ==
    pc = "parse" =>
        /\ Safe(cur, Reached)
        /\ event = 1 \/ (MoreLines /\ event <= EventsOf[Current])
        /\ \A e \in Event : e[1] = Current /\ e[2] < event => stored[e] > 0

\* This process appends the event no more, unless an append fails.
Passed(e) ==
    LET r == e[1]
    IN \/ r.gen < file[r.file].gen
       \/ IF pc = "parse" /\ r.file = cur
          THEN /\ r.gen = file[cur].gen
               /\ r.line <= pos \/ (r.line = pos + 1 /\ e[2] < event)
          ELSE Before(r, offsets[r.file])

ReplayInv ==
    \A e \in Event :
        stored[e] <= stops + failedAt[e[1]] + (IF Passed(e) THEN 1 ELSE 0)

\* The source has counted the record, in this process or an earlier one.
Counted(r) ==
    IF pc = "parse" /\ r.file = cur
    THEN r.line <= pos \/ (r.line = pos + 1 /\ event > 1)
    ELSE Before(r, offsets[r.file])

\* The counts of a record: what is persisted next, once it is folded in.
CountOf(r) ==
    IF \E t \in Saver : At(t, "reset") THEN total[r] ELSE total[r] + live[r]

Fits(n, counted, failed) ==
    LET once == IF counted THEN 1 ELSE 0
    IN once <= n /\ n <= once + failed

\* Coverage and offsets that belong together.
AgreeWith(doc, files, failed) ==
    /\ doc.whole
    /\ \A r \in Record :
          /\ r.gen = files[r.file].gen =>
                Fits(doc.coverage[r], Before(r, doc.offsets[r.file]), failed[r])
          /\ r.gen > files[r.file].gen => doc.coverage[r] = 0

Agree(doc) == AgreeWith(doc, file, failedAt)

\* One save at a time, of a document that agrees.
SaversInv ==
    /\ saver["close"].pc # "no" => pc = "failed"
    /\ \A t \in Saver :
          /\ ~saver[t].renamed
          /\ saver[t].pc \in {"open", "write", "rename"} => Agree(saver[t].doc)
          /\ At(t, "rename") => tmp = saver[t].doc
          /\ At(t, "marshal") => live = NoCounts

Tallied(r) ==
    /\ r.gen = file[r.file].gen => Fits(CountOf(r), Counted(r), failedAt[r])
    /\ r.gen > file[r.file].gen => total[r] = 0 /\ live[r] = 0

\* Of a process that is only ever killed: what is saved, being saved and to be
\* saved counts every record as far as its offsets go.
CountInv ==
    exact => Agree(disk) /\ SaversInv /\ \A r \in Record : Tallied(r)

IngestInv ==
    /\ TypeOK /\ ProcessInv /\ OffsetsInv /\ ParseInv /\ ReplayInv /\ CountInv

-----------------------------------------------------------------------------
LEMMA EventParts ==
    /\ \A e \in Event : /\ e[1] \in Record /\ e[2] \in Nat /\ e[2] >= 1
                        /\ e[2] <= EventsOf[e[1]] /\ e = <<e[1], e[2]>>
    /\ \A r \in Record : \A k \in 1..EventsOf[r] : <<r, k>> \in Event
    /\ \A r \in Record : EventsOf[r] \in Nat
<1>1. \A r \in Record : EventsOf[r] \in Nat
  BY IngestAssumption
<1>2. ASSUME NEW e \in Event
      PROVE  /\ e[1] \in Record /\ e[2] \in Nat /\ e[2] >= 1
             /\ e[2] <= EventsOf[e[1]] /\ e = <<e[1], e[2]>>
  <2>1. PICK r \in Record : e \in {r} \X (1..EventsOf[r])
    BY DEF Event
  <2>2. e[1] = r /\ e[2] \in 1..EventsOf[r] /\ e = <<e[1], e[2]>>
    BY <2>1
  <2>3. QED
    BY <1>1, <2>2
<1>3. \A r \in Record : \A k \in 1..EventsOf[r] : <<r, k>> \in Event
  BY DEF Event
<1>4. QED
  BY <1>1, <1>2, <1>3

LEMMA RecordParts ==
    \A r \in Record : r.file \in File /\ r.gen \in Nat /\ r.line \in Nat /\ r.line >= 1
BY IngestAssumption DEF Record

LEMMA NothingYet ==
    /\ Beginning \in Position /\ NoCounts \in Counts
    /\ NoFile \in Checkpoint /\ Truncated \in Checkpoint
    /\ NoFile.whole /\ NoFile.coverage = NoCounts
    /\ NoFile.offsets = [f \in File |-> Beginning]
    /\ Truncated.offsets = [f \in File |-> Beginning]
    /\ NotSaving.pc = "no" /\ NotSaving.doc = NoFile /\ ~NotSaving.renamed
<1>1. Beginning \in Position /\ NoCounts \in Counts
  BY IngestAssumption DEF Beginning, Position, NoCounts, Counts
<1>2. /\ NoFile \in Checkpoint /\ NoFile.whole /\ NoFile.coverage = NoCounts
      /\ NoFile.offsets = [f \in File |-> Beginning]
  BY <1>1 DEF NoFile, Checkpoint
<1>3. Truncated \in Checkpoint /\ Truncated.offsets = [f \in File |-> Beginning]
  BY <1>2 DEF Truncated, Checkpoint
<1>4. NotSaving.pc = "no" /\ NotSaving.doc = NoFile /\ ~NotSaving.renamed
  BY DEF NotSaving
<1>5. QED
  BY <1>1, <1>2, <1>3, <1>4

SaverStep == {"no", "merge", "reset", "marshal", "open", "write", "rename", "done"}
SaverState == [pc : SaverStep, doc : Checkpoint, renamed : BOOLEAN]

LEMMA TypeFacts ==
    ASSUME TypeOK
    PROVE  /\ saver \in [Saver -> SaverState] /\ Document \in Checkpoint
           /\ \A f \in File : /\ file[f].gen \in Nat /\ file[f].n \in Nat
                              /\ file[f].n <= MaxLines /\ file[f] \in Position
                              /\ Known(f) \subseteq Position
           /\ pos \in Nat /\ event \in Nat /\ event >= 1 /\ cur \in File
           /\ stops \in Nat /\ failures \in Nat
<1>1. saver \in [Saver -> SaverState]
  BY DEF TypeOK, SaverState, SaverStep
<1>2. Document \in Checkpoint
  BY DEF TypeOK, Document, Checkpoint
<1>3. ASSUME NEW f \in File
      PROVE  /\ file[f].gen \in Nat /\ file[f].n \in Nat
             /\ file[f].n <= MaxLines /\ file[f] \in Position
  BY <1>3, IngestAssumption DEF TypeOK, Position
<1>4. ASSUME NEW f \in File PROVE Known(f) \subseteq Position
  BY <1>1, <1>4 DEF TypeOK, Known, Checkpoint, SaverState
<1>5. /\ pos \in Nat /\ event \in Nat /\ event >= 1 /\ cur \in File
      /\ stops \in Nat /\ failures \in Nat
  <2>1. pos \in 0..file[cur].n /\ cur \in File
    BY DEF TypeOK
  <2>2. file[cur].n \in Nat
    BY <1>3, <2>1
  <2>3. QED
    BY <2>1, <2>2, IngestAssumption DEF TypeOK
<1>6. QED
  BY <1>1, <1>2, <1>3, <1>4, <1>5

LEMMA CurrentIsRecord ==
    ASSUME TypeOK, MoreLines
    PROVE  /\ Current \in Record /\ pos + 1 \in 1..MaxLines
           /\ pos + 1 \in 0..file[cur].n
           /\ Current.line = pos + 1 /\ Current.file = cur
           /\ Current.gen = file[cur].gen
<1>1. pos \in Nat /\ cur \in File /\ file[cur] \in Position /\ file[cur].n \in Nat
      /\ file[cur].n <= MaxLines
  BY TypeFacts
<1>2. pos < file[cur].n
  BY DEF MoreLines
<1>3. pos + 1 \in 1..MaxLines /\ pos + 1 \in 0..file[cur].n
  BY <1>1, <1>2, IngestAssumption
<1>4. QED
  BY <1>1, <1>3 DEF Current, Record, Position

LEMMA CurrentEvent ==
    ASSUME TypeOK, MoreLines, event <= EventsOf[Current]
    PROVE  <<Current, event>> \in Event
<1>1. Current \in Record /\ Current.line = pos + 1 /\ pos + 1 \in 1..MaxLines
  BY CurrentIsRecord
<1>2. event \in 1..EventsOf[Current]
  BY <1>1, TypeFacts, EventParts
<1>3. QED
  BY <1>1, <1>2, EventParts

LEMMA InitInv == Init => IngestInv
<1> SUFFICES ASSUME Init PROVE IngestInv
  OBVIOUS
<1>1. TypeOK
  <2>1. file \in [File -> Position] /\ offsets \in [File -> Position]
    BY NothingYet DEF Init
  <2>2. pos \in 0..file[cur].n
    BY IngestAssumption DEF Init, Beginning
  <2>3. saver \in [Saver -> SaverState]
    BY NothingYet DEF Init, SaverState, SaverStep, NotSaving
  <2>4. stored \in [Event -> Nat] /\ disk \in Checkpoint /\ tmp \in Checkpoint
    BY NothingYet DEF Init
  <2>5. live \in Counts /\ total \in Counts /\ failedAt \in Counts
    BY NothingYet DEF Init
  <2>6. /\ pc = "loading" /\ todo \subseteq File /\ cur \in File /\ event = 1
        /\ got \in BOOLEAN /\ stopping \in BOOLEAN /\ exact \in BOOLEAN
    BY DEF Init
  <2>7. stops \in 0..MaxStops /\ failures \in 0..MaxFailures
    BY IngestAssumption DEF Init
  <2>8. QED
    BY <2>1, <2>2, <2>3, <2>4, <2>5, <2>6, <2>7 DEF TypeOK, SaverState, SaverStep
<1>2. ProcessInv
  BY DEF Init, ProcessInv, Saver, NotSaving
<1>3. \A f \in File : Known(f) = {Beginning}
  BY NothingYet DEF Init, Known, Saver
<1>4. OffsetsInv
  <2>1. ASSUME NEW f \in File PROVE Safe(f, Beginning) /\ Behind(f, Beginning)
    <3>1. file[f] = Beginning /\ Beginning.n = 0 /\ Beginning.gen = 0
      BY DEF Init, Beginning
    <3>2. QED
      BY <3>1, EventParts, RecordParts DEF Safe, Behind, Before
  <2>2. QED
    BY <1>3, <2>1 DEF OffsetsInv
<1>5. ParseInv
  BY DEF Init, ParseInv
<1>6. ReplayInv
  BY EventParts, IngestAssumption DEF Init, ReplayInv, NoCounts
<1>7. ~\E t \in Saver : At(t, "reset")
  BY NothingYet DEF Init, At
<1>8. ASSUME NEW r \in Record
      PROVE  ~Before(r, Beginning) /\ NoCounts[r] = 0 /\ failedAt[r] = 0
  BY <1>8, RecordParts DEF Init, Before, Beginning, NoCounts
<1>9. Agree(NoFile)
  BY <1>8, NothingYet, RecordParts DEF Agree, AgreeWith, Fits
<1>10. CountInv
  <2>1. ASSUME NEW r \in Record
        PROVE  Tallied(r)
    <3>1. total[r] = 0 /\ live[r] = 0 /\ ~Counted(r)
      BY <1>8, <2>1, RecordParts DEF Init, Counted
    <3>2. CountOf(r) = 0
      BY <1>7, <3>1 DEF CountOf
    <3>3. QED
      BY <1>8, <3>1, <3>2 DEF Tallied, Fits
  <2>2. SaversInv
    BY NothingYet DEF Init, SaversInv, At, Saver
  <2>3. QED
    BY <1>9, <2>1, <2>2 DEF Init, CountInv
<1>11. QED
  BY <1>1, <1>2, <1>4, <1>5, <1>6, <1>10 DEF IngestInv

-----------------------------------------------------------------------------
\* The definitions that only name groups of variables.
LEMMA Frames ==
    /\ UNCHANGED memory => UNCHANGED <<offsets, live, total, pass, saver>>
    /\ UNCHANGED pass => UNCHANGED <<pc, todo, cur, pos, event, got>>
    /\ UNCHANGED SaveRest => UNCHANGED <<file, stored, offsets, todo, cur, pos, event,
                                        got, stopping, stops, failedAt, exact>>
BY DEF memory, pass, SaveRest

LEMMA StepTypeOK ==
    ASSUME TypeOK, ProcessInv, [Next]_vars
    PROVE  TypeOK'
<1> USE DEF SaverState, SaverStep
<1>0. /\ saver \in [Saver -> SaverState] /\ Document \in Checkpoint
      /\ pos \in Nat /\ event \in Nat /\ event >= 1 /\ cur \in File
      /\ stops \in Nat /\ failures \in Nat
      /\ MaxStops \in Nat /\ MaxFailures \in Nat /\ MaxGen \in Nat /\ MaxLines \in Nat
      /\ "run" \in Saver /\ "close" \in Saver
  BY TypeFacts, IngestAssumption DEF Saver
<1>1. ASSUME NEW f \in File, WriteLine(f) PROVE TypeOK'
  <2>1. [file[f] EXCEPT !.n = @ + 1] \in Position
    BY <1>0, <1>1, TypeFacts DEF WriteLine, Position
  <2>2. file' \in [File -> Position] /\ file'[cur].n >= file[cur].n
    BY <1>0, <1>1, <2>1, TypeFacts DEF WriteLine, TypeOK
  <2>3. pos' \in 0..file'[cur].n
    BY <1>0, <1>1, <2>2, TypeFacts DEF WriteLine, memory, TypeOK, Position
  <2>4. QED
    BY <1>1, <2>2, <2>3 DEF WriteLine, memory, TypeOK
<1>2. ASSUME NEW f \in File, Replace(f) PROVE TypeOK'
  <2>1. [gen |-> file[f].gen + 1, n |-> 0] \in Position
    BY <1>0, <1>2, TypeFacts DEF Replace, Position
  <2>2. file' \in [File -> Position]
    BY <1>0, <1>2, <2>1 DEF Replace, TypeOK
  <2>3. pos' \in 0..file'[cur].n
    BY <1>0, <1>2, <2>1, TypeFacts DEF Replace, memory, TypeOK, ProcessInv
  <2>4. QED
    BY <1>2, <2>2, <2>3 DEF Replace, memory, TypeOK
<1>3. CASE StartPass
  BY <1>3 DEF StartPass, TypeOK
<1>4. ASSUME NEW f \in File, SkipFile(f) PROVE TypeOK'
  BY <1>4 DEF SkipFile, TypeOK
<1>5. ASSUME NEW f \in File, OpenFile(f) PROVE TypeOK'
  <2>1. pos' \in 0..file[f].n
    BY <1>0, <1>5, TypeFacts DEF OpenFile, TypeOK, Position
  <2>2. QED
    BY <1>5, <2>1 DEF OpenFile, TypeOK
<1>6. CASE SkipRecord
  <2>1. live' \in Counts /\ pos' \in 0..file[cur].n
    BY <1>6, CurrentIsRecord DEF SkipRecord, Seen, TypeOK, Counts
  <2>2. pc' = pc /\ cur' = cur
    BY <1>6 DEF SkipRecord
  <2>3. QED
    BY <1>6, <2>1, <2>2 DEF SkipRecord, TypeOK
<1>7. CASE AppendEvent
  <2>1. live' \in Counts /\ pos + 1 \in 0..file[cur].n
    BY <1>7, CurrentIsRecord DEF AppendEvent, Seen, TypeOK, Counts
  <2>2. pos' \in 0..file[cur].n /\ event' \in Nat \ {0}
    BY <1>0, <1>7, <2>1 DEF AppendEvent, TypeOK
  <2>3. stored' \in [Event -> Nat]
    <3>1. <<Current, event>> \in Event
      BY <1>7, CurrentEvent DEF AppendEvent
    <3>2. stored[<<Current, event>>] + 1 \in Nat /\ stored \in [Event -> Nat]
      BY <3>1 DEF TypeOK
    <3>3. stored' = [stored EXCEPT ![<<Current, event>>] = @ + 1]
      BY <1>7 DEF AppendEvent
    <3>4. QED
      BY <3>2, <3>3
  <2>4. QED
    BY <1>7, <2>1, <2>2, <2>3 DEF AppendEvent, TypeOK
<1>8. ASSUME NEW n \in 0..file[cur].n, CloseFileAt(n), UNCHANGED file
      PROVE  /\ offsets' \in [File -> Position] /\ todo' \subseteq File
             /\ pos' \in 0..file'[cur'].n /\ event' = 1 /\ pc' = "pass" /\ cur' = cur
  <2>1. [gen |-> file[cur].gen, n |-> n] \in Position
    BY <1>0, <1>8, TypeFacts DEF Position
  <2>2. QED
    BY <1>0, <1>8, <2>1, TypeFacts DEF CloseFileAt, TypeOK
<1>9. CASE EndOfFile
  <2>1. CloseFileAt(pos) /\ pos \in 0..file[cur].n /\ file' = file
    BY <1>9 DEF EndOfFile, TypeOK
  <2>2. QED
    BY <1>8, <1>9, <2>1 DEF EndOfFile, TypeOK
<1>10. CASE AppendFails
  <2>1. /\ CloseFileAt(pos) /\ pos \in 0..file[cur].n /\ file' = file
        /\ MoreLines /\ Seen /\ failures' \in 0..MaxFailures
        /\ failedAt' = [failedAt EXCEPT ![Current] = @ + 1]
    BY <1>0, <1>10 DEF AppendFails, TypeOK
  <2>2. live' \in Counts /\ failedAt' \in Counts
    BY <2>1, CurrentIsRecord DEF Seen, TypeOK, Counts
  <2>3. /\ offsets' \in [File -> Position] /\ todo' \subseteq File
        /\ pos' \in 0..file'[cur'].n /\ event' = 1 /\ pc' = "pass" /\ cur' = cur
    BY <1>8, <2>1
  <2>4. QED
    BY <1>10, <2>1, <2>2, <2>3 DEF AppendFails, TypeOK
<1>11. CASE EndPass
  <2>1. saver' \in [Saver -> SaverState]
    BY <1>0, <1>11 DEF EndPass
  <2>2. pc' \in {"idle", "saving"}
    BY <1>11 DEF EndPass
  <2>3. QED
    BY <1>11, <2>1, <2>2 DEF EndPass, TypeOK
<1>12. CASE RunStops
  BY <1>0, <1>12 DEF RunStops, TypeOK
<1>13. CASE StartFails
  BY <1>0, <1>13 DEF StartFails, TypeOK
<1>14. CASE Interrupt
  BY <1>0, <1>14 DEF Interrupt, pass, TypeOK
<1>15. ASSUME NEW t \in Saver, SaveMerge(t) PROVE TypeOK'
  <2>1. total' \in Counts
    BY <1>15 DEF SaveMerge, TypeOK, Counts
  <2>2. QED
    BY <1>0, <1>15, <2>1 DEF SaveMerge, Goes, SaveRest, TypeOK
<1>16. ASSUME NEW t \in Saver, SaveReset(t) PROVE TypeOK'
  BY <1>0, <1>16, NothingYet DEF SaveReset, Goes, SaveRest, TypeOK
<1>17. ASSUME NEW t \in Saver, SaveMarshal(t) PROVE TypeOK'
  <2>1. saver' \in [Saver -> SaverState]
    BY <1>0, <1>17 DEF SaveMarshal
  <2>2. QED
    BY <1>17, <2>1 DEF SaveMarshal, SaveRest, TypeOK
<1>18. ASSUME NEW t \in Saver, SaveOpen(t) PROVE TypeOK'
  BY <1>0, <1>18, NothingYet DEF SaveOpen, Goes, SaveRest, TypeOK
<1>19. ASSUME NEW t \in Saver, SaveWrite(t) PROVE TypeOK'
  <2>1. saver[t].doc \in Checkpoint
    BY <1>0, <1>19
  <2>2. QED
    BY <1>0, <1>19, <2>1 DEF SaveWrite, Goes, SaveRest, TypeOK
<1>20. ASSUME NEW step \in SaverStep PROVE [NotSaving EXCEPT !.pc = step] \in SaverState
  BY <1>20, NothingYet DEF NotSaving
<1>21. ASSUME NEW t \in Saver, SaveRename(t) PROVE TypeOK'
  <2>1. saver' \in [Saver -> SaverState]
    <3>1. ASSUME NEW s \in Saver PROVE saver'[s] \in SaverState
      <4>1. CASE s = t
        BY <1>20, <1>21, <4>1 DEF SaveRename, Saved
      <4>2. CASE s # t
        BY <1>0, <1>21, <4>2 DEF SaveRename, Saved
      <4>3. QED
        BY <4>1, <4>2
    <3>2. saver' = [s \in Saver |-> saver'[s]]
      BY <1>21 DEF SaveRename, Saved
    <3>3. QED
      BY <3>1, <3>2
  <2>2. disk' \in Checkpoint /\ tmp' \in Checkpoint
    BY <1>21, NothingYet DEF SaveRename, TypeOK
  <2>3. QED
    BY <1>21, <2>1, <2>2 DEF SaveRename, Saved, SaveRest, TypeOK
<1>22. ASSUME NEW t \in Saver, SaveFails(t) PROVE TypeOK'
  <2>1. saver' \in [Saver -> SaverState]
    BY <1>0, <1>20, <1>22 DEF SaveFails
  <2>2. failures' \in 0..MaxFailures
    BY <1>0, <1>22 DEF SaveFails
  <2>3. QED
    BY <1>22, <2>1, <2>2 DEF SaveFails, SaveRest, TypeOK
<1>23. ASSUME Restart, stops < MaxStops PROVE TypeOK'
  <2>1. saver' \in [Saver -> SaverState]
    BY <1>23, NothingYet DEF Restart, NotSaving
  <2>2. /\ offsets' \in [File -> Position] /\ total' \in Counts /\ live' \in Counts
        /\ tmp' \in Checkpoint
    BY <1>23, NothingYet DEF Restart
  <2>3. stops' \in 0..MaxStops /\ pos' \in 0..file'[cur'].n
    BY <1>0, <1>23, TypeFacts DEF Restart
  <2>4. /\ pc' = "loading" /\ todo' = {} /\ event' = 1 /\ got' = FALSE /\ stopping' = FALSE
        /\ UNCHANGED <<file, stored, disk, cur, failures, failedAt, exact>>
    BY <1>23 DEF Restart
  <2>5. got' \in BOOLEAN /\ stopping' \in BOOLEAN /\ exact' \in BOOLEAN
    BY <2>4 DEF TypeOK
  <2>6. /\ file' \in [File -> Position] /\ stored' \in [Event -> Nat] /\ disk' \in Checkpoint
        /\ cur' \in File /\ failures' \in 0..MaxFailures /\ failedAt' \in Counts
    BY <2>4 DEF TypeOK
  <2>7. QED
    BY <2>1, <2>2, <2>3, <2>4, <2>5, <2>6 DEF TypeOK
<1>24. CASE LoadCheckpoint
  <2>1. disk.offsets \in [File -> Position] /\ disk.coverage \in Counts
    BY DEF TypeOK, Checkpoint
  <2>2. offsets' \in [File -> Position] /\ total' \in Counts /\ exact' \in BOOLEAN
    BY <1>24, <2>1, NothingYet DEF LoadCheckpoint, TypeOK
  <2>3. QED
    BY <1>24, <2>2 DEF LoadCheckpoint, TypeOK
<1>25. CASE Killed
  BY <1>23, <1>25 DEF Killed
<1>26. CASE Exit
  <2>1. stops < MaxStops
    BY <1>26 DEF Exit, At, ProcessInv
  <2>2. QED
    BY <1>23, <1>26, <2>1 DEF Exit
<1>27. CASE UNCHANGED vars
  BY <1>27 DEF vars, TypeOK
<1>28. QED
  BY <1>0, <1>1, <1>2, <1>3, <1>4, <1>5, <1>6, <1>7, <1>9, <1>10, <1>11, <1>12, <1>13,
     <1>14, <1>15, <1>16, <1>17, <1>18, <1>19, <1>21, <1>22, <1>24, <1>25, <1>26, <1>27
     DEF Next, Run, Main, Save

-----------------------------------------------------------------------------
\* What a step of a save leaves alone, and how it moves on.
LEMMA SaveParts ==
    ASSUME TypeOK, ProcessInv, NEW t \in Saver, Save(t) \/ SaveFails(t)
    PROVE  /\ UNCHANGED <<file, stored, offsets, todo, cur, pos, event, got, stopping,
                          stops, failedAt, exact>>
           /\ saver[t].pc \notin {"no", "done"}
           /\ t = "run" => pc \in {"saving", "last"}
           /\ t = "close" => stopping
           /\ pc' = pc \/ (pc' # "parse" /\ pc # "parse")
           /\ \/ pc' = pc /\ saver'[t].pc \notin {"no", "done"}
              \/ t = "close" /\ pc' = pc /\ saver'[t].pc = "done"
              \/ t = "run" /\ pc' \in {"idle", "returned"} /\ saver'[t].pc = "no"
           /\ \A s \in Saver : s # t => saver'[s].pc = saver[s].pc /\ saver'[s].doc = saver[s].doc
<1>0. /\ saver \in [Saver -> SaverState] /\ (t = "run" \/ t = "close")
      /\ UNCHANGED <<file, stored, offsets, todo, cur, pos, event, got, stopping,
                     stops, failedAt, exact>>
  BY TypeFacts DEF Saver, Save, SaveMerge, SaveReset, SaveMarshal, SaveOpen, SaveWrite,
     SaveRename, SaveFails, SaveRest
<1>1. saver[t].pc \notin {"no", "done"}
  BY DEF Save, SaveMerge, SaveReset, SaveMarshal, SaveOpen, SaveWrite, SaveRename,
     SaveFails, At
<1>2. /\ t = "run" => pc \in {"saving", "last"}
      /\ t = "close" => stopping
  BY <1>0, <1>1 DEF ProcessInv
<1>3. CASE SaveMerge(t)
  BY <1>0, <1>1, <1>2, <1>3 DEF SaveMerge, Goes, SaverState
<1>4. CASE SaveReset(t)
  BY <1>0, <1>1, <1>2, <1>4 DEF SaveReset, Goes, SaverState
<1>5. CASE SaveMarshal(t)
  BY <1>0, <1>1, <1>2, <1>5 DEF SaveMarshal, SaverState
<1>6. CASE SaveOpen(t)
  BY <1>0, <1>1, <1>2, <1>6 DEF SaveOpen, Goes, SaverState
<1>7. CASE SaveWrite(t)
  BY <1>0, <1>1, <1>2, <1>7 DEF SaveWrite, Goes, SaverState
<1>8. ASSUME NEW s \in Saver, SaveRename(t), s # t
      PROVE  saver'[s].pc = saver[s].pc /\ saver'[s].doc = saver[s].doc
  BY <1>0, <1>8 DEF SaveRename, Saved, SaverState
<1>9. CASE SaveRename(t)
  <2>1. /\ saver'[t].pc = IF t = "close" THEN "done" ELSE "no"
        /\ pc' = IF t = "run" THEN (IF pc = "last" THEN "returned" ELSE "idle") ELSE pc
    BY <1>9 DEF SaveRename, Saved, NotSaving
  <2>2. QED
    BY <1>0, <1>1, <1>2, <1>8, <1>9, <2>1
<1>10. CASE SaveFails(t)
  <2>1. /\ saver'[t].pc = IF t = "close" THEN "done" ELSE "no"
        /\ pc' = IF t = "run" THEN (IF pc = "last" THEN "returned" ELSE "idle") ELSE pc
        /\ \A s \in Saver : s # t => saver'[s] = saver[s]
    BY <1>0, <1>10 DEF SaveFails, NotSaving
  <2>2. QED
    BY <1>0, <1>1, <1>2, <1>10, <2>1
<1>11. QED
  BY <1>3, <1>4, <1>5, <1>6, <1>7, <1>9, <1>10 DEF Save

LEMMA StepProcess ==
    ASSUME TypeOK, ProcessInv, [Next]_vars
    PROVE  ProcessInv'
<1>0. /\ saver \in [Saver -> SaverState] /\ "run" \in Saver /\ "close" \in Saver
      /\ stops \in Nat /\ MaxStops \in Nat
  BY TypeFacts, IngestAssumption DEF Saver
<1>1. ASSUME NEW f \in File, WriteLine(f) \/ Replace(f) PROVE ProcessInv'
  BY <1>1 DEF WriteLine, Replace, memory, ProcessInv
<1>2. ASSUME NEW f \in File, SkipFile(f) \/ OpenFile(f) PROVE ProcessInv'
  BY <1>2 DEF SkipFile, OpenFile, ProcessInv
<1>3. CASE StartPass
  BY <1>3 DEF StartPass, ProcessInv
<1>4. CASE SkipRecord \/ AppendEvent
  BY <1>4 DEF SkipRecord, AppendEvent, MoreLines, ProcessInv
<1>5. CASE EndOfFile \/ AppendFails
  BY <1>5 DEF EndOfFile, AppendFails, CloseFileAt, MoreLines, ProcessInv
<1>6. CASE EndPass
  BY <1>0, <1>6 DEF EndPass, ProcessInv, SaverState
<1>7. CASE RunStops
  BY <1>0, <1>7 DEF RunStops, ProcessInv, SaverState
<1>8. CASE StartFails
  BY <1>0, <1>8 DEF StartFails, ProcessInv, SaverState
<1>9. CASE Interrupt
  BY <1>0, <1>9 DEF Interrupt, pass, ProcessInv, SaverState
<1>10. ASSUME NEW t \in Saver, Save(t) \/ SaveFails(t) PROVE ProcessInv'
  <2>1. pc \in {"loading", "failed"} => live' = NoCounts /\ total' = NoCounts
    <3>1. CASE pc \in {"loading", "failed"} /\ SaveMerge(t)
      <4>1. \A r \in Record : total[r] + live[r] = 0
        BY <3>1 DEF ProcessInv, NoCounts
      <4>2. QED
        BY <3>1, <4>1 DEF SaveMerge, NoCounts, ProcessInv
    <3>2. QED
      BY <1>10, <3>1 DEF Save, SaveReset, SaveMarshal, SaveOpen, SaveWrite, SaveRename,
         SaveFails, ProcessInv
  <2>2. t = "run" \/ t = "close"
    BY DEF Saver
  <2>3. QED
    BY <1>0, <1>10, <2>1, <2>2, SaveParts DEF ProcessInv
<1>11. CASE Killed \/ Exit
  <2>1. Restart
    BY <1>11 DEF Killed, Exit
  <2>2. QED
    BY <1>0, <2>1, NothingYet DEF Restart, ProcessInv
<1>12. CASE LoadCheckpoint
  BY <1>12 DEF LoadCheckpoint, ProcessInv
<1>13. CASE UNCHANGED vars
  BY <1>13 DEF vars, ProcessInv
<1>14. QED
  BY <1>0, <1>1, <1>2, <1>3, <1>4, <1>5, <1>6, <1>7, <1>8, <1>9, <1>10, <1>11, <1>12, <1>13
     DEF Next, Run, Main

-----------------------------------------------------------------------------
\* Nothing is ever taken out of the store, and a step makes one position known
\* at most: where the transcript being parsed has got.
LEMMA StoredGrows ==
    ASSUME TypeOK, [Next]_vars
    PROVE  /\ \A e \in Event : stored'[e] = stored[e] \/
                 (AppendEvent /\ e = <<Current, event>> /\ stored'[e] = stored[e] + 1)
           /\ \A e \in Event : stored[e] \in Nat /\ (stored[e] > 0 => stored'[e] > 0)
<1>1. CASE AppendEvent
  <2>1. <<Current, event>> \in Event /\ stored \in [Event -> Nat]
    BY <1>1, CurrentEvent DEF AppendEvent, TypeOK
  <2>2. stored' = [stored EXCEPT ![<<Current, event>>] = @ + 1]
    BY <1>1 DEF AppendEvent
  <2>3. QED
    BY <1>1, <2>1, <2>2
<1>2. CASE ~AppendEvent
  <2>1. stored' = stored
    BY <1>2 DEF Next, Run, Main, Save, vars, WriteLine, Replace, LoadCheckpoint, StartPass,
       SkipFile, OpenFile, SkipRecord, EndOfFile, EndPass, RunStops, SaveMerge, SaveReset,
       SaveMarshal, SaveOpen, SaveWrite, SaveRename, SaveFails, SaveRest, AppendFails,
       Killed, Exit, Restart, StartFails, Interrupt
  <2>2. QED
    BY <2>1 DEF TypeOK
<1>3. QED
  BY <1>1, <1>2

LEMMA StepKnown ==
    ASSUME TypeOK, [Next]_vars, NEW f \in File, NEW p \in Known(f)'
    PROVE  \/ p \in Known(f) \/ p = Beginning
           \/ (EndOfFile \/ AppendFails) /\ f = cur /\ p = Reached
<1>0. saver \in [Saver -> SaverState] /\ "run" \in Saver /\ "close" \in Saver
  BY TypeFacts DEF Saver
<1>1. CASE UNCHANGED <<disk, tmp, saver>> /\ UNCHANGED offsets
  BY <1>1 DEF Known
<1>2. CASE EndOfFile \/ AppendFails
  <2>1. UNCHANGED <<disk, tmp, saver>> /\ offsets \in [File -> Position] /\ cur \in File
        /\ offsets' = [offsets EXCEPT ![cur] = Reached]
    BY <1>2 DEF EndOfFile, AppendFails, CloseFileAt, Reached, TypeOK
  <2>2. QED
    BY <1>2, <2>1 DEF Known
<1>3. ASSUME UNCHANGED <<disk, tmp, offsets>>,
             \A s \in Saver : saver'[s].doc = saver[s].doc \/ saver'[s].doc = NoFile
      PROVE  p \in Known(f) \/ p = Beginning
  BY <1>3, NothingYet DEF Known
<1>4. CASE EndPass \/ RunStops \/ StartFails \/ Interrupt
  <2>1. \A s \in Saver : saver'[s].doc = saver[s].doc
    BY <1>0, <1>4 DEF EndPass, RunStops, StartFails, Interrupt, SaverState
  <2>2. QED
    BY <1>3, <1>4, <2>1 DEF EndPass, RunStops, StartFails, Interrupt, pass
<1>5. ASSUME NEW t \in Saver, SaveMerge(t) \/ SaveReset(t) \/ SaveFails(t)
      PROVE  p \in Known(f) \/ p = Beginning
  <2>1. \A s \in Saver : saver'[s].doc = saver[s].doc \/ saver'[s].doc = NoFile
    BY <1>0, <1>5, NothingYet DEF SaveMerge, SaveReset, SaveFails, Goes, SaverState, NotSaving
  <2>2. QED
    BY <1>3, <1>5, <2>1 DEF SaveMerge, SaveReset, SaveFails, SaveRest
<1>6. ASSUME NEW t \in Saver, SaveMarshal(t) PROVE p \in Known(f)
  <2>1. /\ \A s \in Saver : saver'[s].doc = saver[s].doc \/ saver'[s].doc.offsets = offsets
        /\ UNCHANGED <<disk, tmp, offsets>>
    BY <1>0, <1>6 DEF SaveMarshal, SaverState, Document, SaveRest
  <2>2. QED
    BY <2>1 DEF Known
<1>7. ASSUME NEW t \in Saver, SaveOpen(t) PROVE p \in Known(f) \/ p = Beginning
  <2>1. /\ \A s \in Saver : saver'[s].doc = saver[s].doc
        /\ UNCHANGED <<disk, offsets>> /\ tmp' = Truncated
    BY <1>0, <1>7 DEF SaveOpen, Goes, SaverState, SaveRest
  <2>2. QED
    BY <2>1, NothingYet DEF Known
<1>8. ASSUME NEW t \in Saver, SaveWrite(t) PROVE p \in Known(f)
  <2>1. /\ \A s \in Saver : saver'[s].doc = saver[s].doc
        /\ UNCHANGED offsets
        /\ disk' \in {disk, saver[t].doc} /\ tmp' \in {tmp, saver[t].doc}
    BY <1>0, <1>8 DEF SaveWrite, Goes, SaverState, SaveRest
  <2>2. QED
    BY <2>1 DEF Known
<1>9. ASSUME NEW t \in Saver, SaveRename(t) PROVE p \in Known(f) \/ p = Beginning
  <2>1. /\ UNCHANGED offsets /\ disk' \in {disk, tmp} /\ tmp' = NoFile
        /\ saver'[t].doc = NoFile
    BY <1>0, <1>9, NothingYet DEF SaveRename, Saved, SaveRest, NotSaving
  <2>2. \A s \in Saver : s # t => saver'[s].doc = saver[s].doc
    BY <1>0, <1>9 DEF SaveRename, Saved, SaverState
  <2>3. QED
    BY <2>1, <2>2, NothingYet DEF Known
<1>10. CASE Killed \/ Exit
  <2>1. /\ UNCHANGED disk /\ tmp' = NoFile /\ offsets' = [g \in File |-> Beginning]
        /\ \A s \in Saver : saver'[s].doc = NoFile
    BY <1>10, NothingYet DEF Killed, Exit, Restart
  <2>2. QED
    BY <2>1, NothingYet DEF Known
<1>11. CASE LoadCheckpoint
  <2>1. /\ UNCHANGED <<disk, tmp, saver>>
        /\ offsets' \in {offsets, disk.offsets, [g \in File |-> Beginning]}
    BY <1>11 DEF LoadCheckpoint
  <2>2. QED
    BY <2>1 DEF Known
<1>12. ASSUME NEW g \in File, WriteLine(g) \/ Replace(g) \/ SkipFile(g) \/ OpenFile(g)
       PROVE  UNCHANGED <<disk, tmp, saver>> /\ UNCHANGED offsets
  BY <1>12, Frames DEF WriteLine, Replace, SkipFile, OpenFile
<1>13. CASE StartPass \/ SkipRecord \/ AppendEvent \/ UNCHANGED vars
  BY <1>1, <1>13 DEF StartPass, SkipRecord, AppendEvent, vars
<1>14. QED
  BY <1>0, <1>1, <1>2, <1>4, <1>5, <1>6, <1>7, <1>8, <1>9, <1>10, <1>11, <1>12, <1>13
     DEF Next, Run, Main, Save

LEMMA StepOffsets ==
    ASSUME TypeOK, TypeOK', OffsetsInv, ParseInv, [Next]_vars
    PROVE  OffsetsInv'
<1> SUFFICES ASSUME NEW f \in File, NEW p \in Known(f)' PROVE (Safe(f, p) /\ Behind(f, p))'
  BY DEF OffsetsInv
<1>1. /\ p.gen \in Nat /\ p.n \in Nat
      /\ file[f].gen \in Nat /\ file[f].n \in Nat
  <2>0. Reached \in Position
    <3>1. file[cur] \in Position /\ pos \in Nat /\ pos <= MaxLines
      BY TypeFacts, IngestAssumption DEF TypeOK
    <3>2. QED
      BY <3>1, IngestAssumption DEF Reached, Position
  <2>1. p \in Position
    BY <2>0, StepKnown, TypeFacts, NothingYet
  <2>2. QED
    BY <2>1, TypeFacts, IngestAssumption DEF Position
<1>2. ASSUME Safe(f, p) PROVE Safe(f, p)'
  BY <1>2, StoredGrows DEF Safe, Before
<1>3. p = Beginning => Safe(f, p) /\ Behind(f, p)
  BY <1>1, EventParts, RecordParts DEF Beginning, Safe, Behind, Before
<1>4. p = Reached /\ f = cur /\ pc = "parse" => Safe(f, p) /\ Behind(f, p)
  BY <1>1 DEF ParseInv, Reached, Behind, TypeOK
<1>5. Safe(f, p) /\ Behind(f, p)
  BY <1>3, <1>4, StepKnown DEF OffsetsInv, EndOfFile, AppendFails, MoreLines
<1>6. ASSUME WriteLine(f) \/ Replace(f) PROVE Behind(f, p)'
  <2>1. p \in Known(f)
    BY <1>6, Frames DEF WriteLine, Replace, Known
  <2>2. CASE WriteLine(f)
    <3>1. /\ file'[f].gen = file[f].gen /\ file'[f].n = file[f].n + 1
          /\ p.n = 0 \/ p.gen = file'[f].gen \/ file'[f].n < p.n
      BY <1>1, <2>1, <2>2, TypeFacts DEF WriteLine, Recognisable, Position, TypeOK
    <3>2. QED
      BY <1>1, <1>5, <3>1 DEF Behind
  <2>3. CASE Replace(f)
    <3>1. /\ file'[f].gen = file[f].gen + 1 /\ file'[f].n = 0
          /\ p.n = 0 \/ p.gen = file'[f].gen \/ file'[f].n < p.n
      BY <1>1, <2>1, <2>3, TypeFacts DEF Replace, Recognisable, Position, TypeOK
    <3>2. QED
      BY <1>1, <1>5, <3>1 DEF Behind
  <2>4. QED
    BY <1>6, <2>2, <2>3
<1>7. ASSUME file'[f] = file[f] PROVE Behind(f, p)'
  BY <1>5, <1>7 DEF Behind
<1>8. file'[f] = file[f] \/ WriteLine(f) \/ Replace(f)
  <2>1. ASSUME NEW g \in File, WriteLine(g) \/ Replace(g), g # f PROVE file'[f] = file[f]
    BY <2>1 DEF WriteLine, Replace, TypeOK
  <2>2. QED
    BY <2>1 DEF Next, Run, Main, Save, vars, LoadCheckpoint, StartPass,
       SkipFile, OpenFile, SkipRecord, AppendEvent, EndOfFile, EndPass, RunStops, SaveMerge,
       SaveReset, SaveMarshal, SaveOpen, SaveWrite, SaveRename, SaveFails, SaveRest,
       AppendFails, Killed, Exit, Restart, StartFails, Interrupt
<1>9. QED
  BY <1>2, <1>5, <1>6, <1>7, <1>8

-----------------------------------------------------------------------------
\* While a transcript is parsed it can only grow.
LEMMA ParsedGrows ==
    ASSUME TypeOK, pc = "parse", [Next]_vars
    PROVE  file'[cur].gen = file[cur].gen /\ file[cur].n <= file'[cur].n
<1>1. ASSUME NEW f \in File, WriteLine(f)
      PROVE  file'[cur].gen = file[cur].gen /\ file[cur].n <= file'[cur].n
  BY <1>1, TypeFacts DEF WriteLine, TypeOK, Position
<1>2. ASSUME NEW f \in File, Replace(f) PROVE file'[cur] = file[cur]
  BY <1>2 DEF Replace, TypeOK
<1>3. (\E f \in File : WriteLine(f) \/ Replace(f)) \/ file' = file
  BY DEF Next, Run, Main, Save, vars, LoadCheckpoint, StartPass,
     SkipFile, OpenFile, SkipRecord, AppendEvent, EndOfFile, EndPass, RunStops, SaveMerge,
     SaveReset, SaveMarshal, SaveOpen, SaveWrite, SaveRename, SaveFails, SaveRest,
     AppendFails, Killed, Exit, Restart, StartFails, Interrupt
<1>4. QED
  BY <1>1, <1>2, <1>3, TypeFacts

\* What a step that goes on parsing the same transcript leaves alone.
LEMMA StillParsing ==
    ASSUME TypeOK, ProcessInv, pc' = "parse", [Next]_vars
    PROVE  \/ pc = "parse" /\ UNCHANGED <<cur, pos, event, offsets>>
           \/ SkipRecord \/ AppendEvent \/ \E f \in File : OpenFile(f)
<1>1. ASSUME NEW t \in Saver, Save(t) \/ SaveFails(t)
      PROVE  pc = "parse" /\ UNCHANGED <<cur, pos, event, offsets>>
  BY <1>1, SaveParts
<1>2. ~(LoadCheckpoint \/ StartPass \/ EndOfFile \/ AppendFails \/ EndPass \/ RunStops
          \/ Killed \/ Exit \/ StartFails)
  BY DEF LoadCheckpoint, StartPass, EndOfFile, AppendFails, CloseFileAt, EndPass, RunStops,
     Killed, Exit, Restart, StartFails
<1>3. ASSUME NEW f \in File, WriteLine(f) \/ Replace(f) \/ SkipFile(f)
      PROVE  pc = "parse" /\ UNCHANGED <<cur, pos, event, offsets>>
  BY <1>3 DEF WriteLine, Replace, SkipFile, memory
<1>4. CASE Interrupt \/ UNCHANGED vars
  BY <1>4 DEF Interrupt, pass, vars
<1>5. QED
  BY <1>1, <1>2, <1>3, <1>4 DEF Next, Run, Main, Saver

LEMMA StepParse ==
    ASSUME TypeOK, ProcessInv, OffsetsInv, ParseInv, [Next]_vars
    PROVE  ParseInv'
<1> SUFFICES ASSUME pc' = "parse" PROVE ParseInv'
  BY DEF ParseInv
<1>0. /\ pos \in Nat /\ event \in Nat /\ event >= 1 /\ cur \in File
      /\ file[cur].gen \in Nat /\ file[cur].n \in Nat
  BY TypeFacts
<1>1. CASE pc = "parse" /\ UNCHANGED <<cur, pos, event, offsets>>
  <2>1. Reached' = Reached /\ Current' = Current
    BY <1>1, ParsedGrows DEF Reached, Current
  <2>2. Safe(cur, Reached)'
    BY <1>1, <2>1, StoredGrows DEF ParseInv, Safe, Before
  <2>3. (event = 1 \/ (MoreLines /\ event <= EventsOf[Current]))'
    <3>1. file'[cur].n \in Int
      BY <1>0, <1>1, StepTypeOK, ParsedGrows DEF TypeOK, Position
    <3>2. QED
      BY <1>0, <1>1, <2>1, <3>1, ParsedGrows DEF ParseInv, MoreLines
  <2>4. (\A e \in Event : e[1] = Current /\ e[2] < event => stored[e] > 0)'
    BY <1>1, <2>1, StoredGrows DEF ParseInv
  <2>5. QED
    BY <2>2, <2>3, <2>4 DEF ParseInv
<1>2. ASSUME MoreLines, ParseInv,
             UNCHANGED <<pc, cur, file>>, pos' = pos + 1, event' = 1,
             \A e \in Event : e[1] = Current => stored'[e] > 0
      PROVE  ParseInv'
  <2>1. ASSUME NEW e \in Event, e[1].file = cur, Before(e[1], Reached')
        PROVE  stored'[e] > 0
    <3>1. e[1] \in Record /\ e[1].gen = file[cur].gen /\ e[1].line <= pos + 1
          /\ e[1].line \in Nat
      BY <1>2, <2>1, EventParts, RecordParts DEF Before, Reached
    <3>2. CASE e[1].line <= pos
      BY <1>2, <2>1, <3>1, <3>2, StoredGrows DEF ParseInv, MoreLines, Safe, Before, Reached
    <3>3. CASE e[1].line = pos + 1
      <4>1. e[1] = Current
        BY <2>1, <3>1, <3>3 DEF Record, Current
      <4>2. QED
        BY <1>2, <4>1
    <3>4. QED
      BY <1>0, <3>1, <3>2, <3>3
  <2>2. Safe(cur, Reached)'
    BY <1>2, <2>1 DEF Safe, Before, Reached
  <2>3. \A e \in Event : ~(e[2] < event')
    BY <1>2, EventParts
  <2>4. QED
    BY <1>2, <2>2, <2>3 DEF ParseInv
<1>3. CASE SkipRecord
  <2>1. \A e \in Event : e[1] # Current
    BY <1>3, CurrentIsRecord, EventParts DEF SkipRecord
  <2>2. event = 1
    BY <1>0, <1>3, <2>1 DEF SkipRecord, ParseInv, MoreLines
  <2>3. QED
    BY <1>2, <1>3, <2>1, <2>2 DEF SkipRecord
<1>4. CASE AppendEvent
  <2>0. /\ MoreLines /\ pc = "parse" /\ event <= EventsOf[Current] /\ UNCHANGED <<pc, cur, file>>
        /\ EventsOf[Current] \in Nat /\ Current.line = pos + 1
        /\ <<Current, event>> \in Event /\ stored \in [Event -> Nat]
        /\ stored' = [stored EXCEPT ![<<Current, event>>] = @ + 1]
    BY <1>4, CurrentIsRecord, CurrentEvent, EventParts DEF AppendEvent, MoreLines, TypeOK
  <2>1. ASSUME NEW e \in Event, e[1] = Current, e[2] <= event PROVE stored'[e] > 0
    <3>1. CASE e[2] < event
      BY <2>1, <2>0, <3>1, StoredGrows DEF ParseInv
    <3>2. CASE e[2] = event
      <4>1. e = <<Current, event>>
        BY <2>1, <3>2, EventParts
      <4>2. QED
        BY <2>0, <4>1
    <3>3. QED
      BY <1>0, <2>1, <3>1, <3>2, EventParts
  <2>2. CASE event = EventsOf[Current]
    <3>1. \A e \in Event : e[1] = Current => stored'[e] > 0
      BY <2>0, <2>1, <2>2, EventParts
    <3>2. event' = 1 /\ pos' = pos + 1
      BY <1>4, <2>2 DEF AppendEvent
    <3>3. QED
      BY <1>2, <2>0, <3>1, <3>2
  <2>3. CASE event # EventsOf[Current]
    <3>1. event' = event + 1 /\ pos' = pos
      BY <1>4, <2>3 DEF AppendEvent
    <3>2. Reached' = Reached /\ Current' = Current
      BY <2>0, <3>1 DEF Reached, Current
    <3>3. Safe(cur, Reached)'
      BY <2>0, <3>2, StoredGrows DEF ParseInv, Safe, Before
    <3>4. (MoreLines /\ event <= EventsOf[Current])'
      BY <1>0, <2>0, <2>3, <3>1, <3>2 DEF MoreLines
    <3>5. (\A e \in Event : e[1] = Current /\ e[2] < event => stored[e] > 0)'
      BY <1>0, <2>1, <3>1, <3>2, EventParts
    <3>6. QED
      BY <3>3, <3>4, <3>5 DEF ParseInv
  <2>4. QED
    BY <2>2, <2>3
<1>5. ASSUME NEW f \in File, OpenFile(f) PROVE ParseInv'
  <2>1. /\ cur' = f /\ event' = 1 /\ UNCHANGED <<file, stored>>
        /\ pos' = IF file[f].n < offsets[f].n THEN 0 ELSE offsets[f].n
    BY <1>5 DEF OpenFile
  <2>2. Safe(f, offsets[f]) /\ Behind(f, offsets[f])
    BY DEF OffsetsInv, Known
  <2>3. ASSUME NEW e \in Event, e[1].file = f, Before(e[1], Reached')
        PROVE  stored[e] > 0
    <3>1. /\ e[1].gen = file[f].gen /\ e[1].line <= pos'
          /\ e[1].line \in Nat /\ e[1].line >= 1
      BY <2>1, <2>3, EventParts, RecordParts DEF Before, Reached
    <3>2. pos' = offsets[f].n /\ ~(file[f].n < offsets[f].n)
      BY <2>1, <3>1
    <3>3. offsets[f].gen = file[f].gen
      <4>1. offsets[f].n # 0
        BY <3>1, <3>2
      <4>2. QED
        BY <2>2, <3>2, <4>1 DEF Behind
    <3>4. QED
      BY <2>2, <2>3, <3>1, <3>2, <3>3 DEF Safe, Before
  <2>4. Safe(cur, Reached)'
    BY <2>1, <2>3 DEF Safe, Before
  <2>5. \A e \in Event : ~(e[2] < event')
    BY <2>1, EventParts
  <2>6. QED
    BY <2>1, <2>4, <2>5 DEF ParseInv
<1>6. QED
  BY <1>1, <1>3, <1>4, <1>5, StillParsing

-----------------------------------------------------------------------------
\* What is passed stays passed, but for the record an append of which fails,
\* and for a new process.
LEMMA PassedStays ==
    ASSUME TypeOK, ProcessInv, OffsetsInv, ParseInv, [Next]_vars, ~Killed, ~Exit,
           NEW e \in Event, Passed(e), ~(AppendFails /\ e[1] = Current)
    PROVE  Passed(e)'
<1> DEFINE r == e[1]
<1>0. /\ r \in Record /\ r.file \in File /\ r.gen \in Nat /\ r.line \in Nat /\ r.line >= 1
      /\ e[2] \in Nat /\ e[2] >= 1
      /\ pos \in Nat /\ event \in Nat /\ event >= 1 /\ cur \in File
      /\ \A f \in File : file[f].gen \in Nat /\ file[f].n \in Nat
      /\ \A f \in File : offsets[f].gen \in Nat /\ offsets[f].n \in Nat
      /\ file \in [File -> Position] /\ offsets \in [File -> Position]
  <2>1. \A f \in File : offsets[f].gen \in Nat /\ offsets[f].n \in Nat
    BY IngestAssumption DEF TypeOK, Position
  <2>2. QED
    BY <2>1, EventParts, RecordParts, TypeFacts DEF TypeOK
<1> HIDE DEF r
<1>1. ASSUME UNCHANGED <<file, cur, pos, event, offsets>>,
             pc' = pc \/ (pc' # "parse" /\ pc # "parse")
      PROVE  Passed(e)'
  BY <1>1 DEF Passed, Before, r
<1>2. ASSUME NEW f \in File, WriteLine(f) \/ Replace(f) PROVE Passed(e)'
  <2>1. UNCHANGED <<pc, cur, pos, event, offsets>>
    BY <1>2, Frames DEF WriteLine, Replace
  <2>2. file[r.file].gen <= file'[r.file].gen
    <3>1. CASE WriteLine(f)
      BY <1>0, <3>1 DEF WriteLine, Position
    <3>2. CASE Replace(f)
      BY <1>0, <3>2 DEF Replace, Position
    <3>3. QED
      BY <1>2, <3>1, <3>2
  <2>3. pc = "parse" => file'[cur].gen = file[cur].gen
    BY ParsedGrows
  <2>4. file'[r.file].gen \in Nat
    <3>1. file'[r.file] \in Position
      BY StepTypeOK, <1>0 DEF TypeOK
    <3>2. QED
      BY <3>1, IngestAssumption DEF Position
  <2>5. QED
    BY <1>0, <2>1, <2>2, <2>3, <2>4 DEF Passed, Before, r
<1>3. ASSUME NEW f \in File, OpenFile(f) PROVE Passed(e)'
  <2>1. /\ pc # "parse" /\ pc' = "parse" /\ cur' = f /\ event' = 1 /\ UNCHANGED <<file, offsets>>
        /\ pos' = IF file[f].n < offsets[f].n THEN 0 ELSE offsets[f].n
    BY <1>3 DEF OpenFile
  <2>2. Behind(f, offsets[f])
    BY DEF OffsetsInv, Known
  <2>3. QED
    BY <1>0, <2>1, <2>2 DEF Passed, Before, Behind, r
<1>4. CASE SkipRecord
  <2>1. pc = "parse" /\ EventsOf[Current] = 0 /\ pos' = pos + 1
        /\ UNCHANGED <<pc, cur, event, file, offsets>>
    BY <1>4 DEF SkipRecord, MoreLines
  <2>2. event = 1
    BY <1>0, <2>1 DEF ParseInv
  <2>3. QED
    BY <1>0, <2>1, <2>2 DEF Passed, Before, r
<1>5. CASE AppendEvent
  <2>1. pc = "parse" /\ UNCHANGED <<pc, cur, file, offsets>>
        /\ \/ event' = 1 /\ pos' = pos + 1
           \/ event' = event + 1 /\ pos' = pos
    BY <1>5 DEF AppendEvent, MoreLines
  <2>2. QED
    BY <1>0, <2>1 DEF Passed, Before, r
<1>6. CASE EndOfFile \/ AppendFails
  <2>1. /\ pc = "parse" /\ pc' = "pass" /\ cur' = cur /\ file' = file
        /\ offsets' = [offsets EXCEPT ![cur] = Reached]
    BY <1>6 DEF EndOfFile, AppendFails, MoreLines, CloseFileAt, Reached
  <2>2. offsets'[cur] = Reached /\ (r.file # cur => offsets'[r.file] = offsets[r.file])
    BY <1>0, <2>1
  <2>3. r.file = cur /\ ~(r.gen < file[cur].gen) => r.gen = file[cur].gen /\ r.line <= pos
    <3>1. CASE EndOfFile
      <4>1. event = 1
        BY <1>0, <2>1, <3>1 DEF EndOfFile, ParseInv, MoreLines
      <4>2. QED
        BY <1>0, <2>1, <4>1 DEF Passed, r
    <3>2. CASE AppendFails
      <4>1. r.file = cur /\ r.gen = file[cur].gen /\ r.line = pos + 1 => r = Current
        BY <1>0 DEF Record, Current
      <4>2. QED
        BY <1>0, <2>1, <3>2, <4>1 DEF Passed, r
    <3>3. QED
      BY <1>6, <3>1, <3>2
  <2>4. QED
    BY <1>0, <2>1, <2>2, <2>3 DEF Passed, Before, Reached, r
<1>7. CASE LoadCheckpoint
  <2>1. /\ pc = "loading" /\ pc' = "idle" /\ UNCHANGED <<file, cur, pos, event>>
        /\ offsets = [f \in File |-> Beginning]
    BY <1>7 DEF LoadCheckpoint, ProcessInv
  <2>2. ~Before(r, offsets[r.file])
    BY <1>0, <2>1 DEF Before, Beginning
  <2>3. QED
    BY <2>1, <2>2 DEF Passed, r
<1>8. ASSUME NEW t \in Saver, Save(t) \/ SaveFails(t) PROVE Passed(e)'
  BY <1>1, <1>8, SaveParts
<1>9. CASE StartPass \/ EndPass \/ RunStops \/ StartFails
  BY <1>1, <1>9 DEF StartPass, EndPass, RunStops, StartFails
<1>10. ASSUME NEW f \in File, SkipFile(f) PROVE Passed(e)'
  BY <1>1, <1>10 DEF SkipFile
<1>11. CASE Interrupt \/ UNCHANGED vars
  BY <1>1, <1>11 DEF Interrupt, pass, vars
<1>12. QED
  BY <1>2, <1>3, <1>4, <1>5, <1>6, <1>7, <1>8, <1>9, <1>10, <1>11
     DEF Next, Run, Main, Saver

\* The failures only go up, a process that ends and a failed append counting
\* one each.
LEMMA Failures ==
    ASSUME TypeOK, [Next]_vars, NEW r \in Record
    PROVE  /\ stops' \in Nat /\ stops <= stops' /\ failedAt[r] \in Nat /\ failedAt'[r] \in Nat
           /\ failedAt[r] <= failedAt'[r]
           /\ Killed \/ Exit => stops' = stops + 1
           /\ AppendFails /\ r = Current => failedAt'[r] = failedAt[r] + 1
           /\ ~AppendFails => failedAt' = failedAt
<1>0. stops \in Nat /\ failedAt[r] \in Nat
  BY TypeFacts DEF TypeOK, Counts
<1>1. CASE AppendFails
  <2>1. /\ UNCHANGED stops /\ failedAt \in [Record -> Nat]
        /\ failedAt' = [failedAt EXCEPT ![Current] = @ + 1]
    BY <1>1 DEF AppendFails, TypeOK, Counts
  <2>2. ~(Killed \/ Exit)
    BY <1>0, <1>1, <2>1 DEF AppendFails, Killed, Exit, Restart
  <2>3. QED
    BY <1>0, <1>1, <2>1, <2>2
<1>2. CASE ~AppendFails /\ (Killed \/ Exit)
  <2>1. stops' = stops + 1 /\ failedAt' = failedAt
    BY <1>2 DEF Killed, Exit, Restart
  <2>2. QED
    BY <1>0, <1>2, <2>1
<1>3. CASE ~(AppendFails \/ Killed \/ Exit)
  <2>1. UNCHANGED <<stops, failedAt>>
    BY <1>3 DEF Next, Run, Main, Save, vars, WriteLine, Replace, LoadCheckpoint, StartPass,
       SkipFile, OpenFile, SkipRecord, AppendEvent, EndOfFile, EndPass, RunStops, SaveMerge,
       SaveReset, SaveMarshal, SaveOpen, SaveWrite, SaveRename, SaveFails, SaveRest,
       StartFails, Interrupt
  <2>2. QED
    BY <1>0, <1>3, <2>1
<1>4. QED
  BY <1>1, <1>2, <1>3

LEMMA StepReplay ==
    ASSUME TypeOK, ProcessInv, OffsetsInv, ParseInv, ReplayInv, [Next]_vars
    PROVE  ReplayInv'
<1> SUFFICES ASSUME NEW e \in Event
             PROVE  stored'[e] <= stops' + failedAt'[e[1]] + (IF Passed(e)' THEN 1 ELSE 0)
  BY DEF ReplayInv
<1>0. /\ e[1] \in Record /\ stored[e] \in Nat /\ stops \in Nat
      /\ stored[e] <= stops + failedAt[e[1]] + (IF Passed(e) THEN 1 ELSE 0)
  BY EventParts, StoredGrows, TypeFacts DEF ReplayInv
<1>1. /\ stops' \in Nat /\ stops <= stops' /\ failedAt[e[1]] \in Nat /\ failedAt'[e[1]] \in Nat
      /\ failedAt[e[1]] <= failedAt'[e[1]]
      /\ Killed \/ Exit => stops' = stops + 1
      /\ AppendFails /\ e[1] = Current => failedAt'[e[1]] = failedAt[e[1]] + 1
  BY <1>0, Failures
<1>2. CASE AppendEvent /\ e = <<Current, event>>
  <2>1. /\ pc = "parse" /\ UNCHANGED <<pc, cur, file>>
        /\ e[1].file = cur /\ e[1].gen = file[cur].gen /\ e[1].line = pos + 1 /\ e[2] = event
        /\ \/ event' = 1 /\ pos' = pos + 1
           \/ event' = event + 1 /\ pos' = pos
    BY <1>2, CurrentIsRecord DEF AppendEvent, MoreLines
  <2>2. pos \in Nat /\ event \in Nat /\ file[cur].gen \in Nat
    BY TypeFacts
  <2>3. ~Passed(e)
    BY <2>1, <2>2 DEF Passed
  <2>4. Passed(e)'
    BY <2>1, <2>2 DEF Passed
  <2>5. stored'[e] <= stored[e] + 1
    BY <1>0, StoredGrows
  <2>6. stored'[e] \in Nat
    BY StepTypeOK DEF TypeOK
  <2>7. QED
    BY <1>0, <1>1, <2>3, <2>4, <2>5, <2>6
<1>3. CASE ~(AppendEvent /\ e = <<Current, event>>)
  <2>1. stored'[e] = stored[e]
    BY <1>3, StoredGrows
  <2>2. CASE Killed \/ Exit \/ (AppendFails /\ e[1] = Current)
    BY <1>0, <1>1, <2>1, <2>2
  <2>3. CASE ~(Killed \/ Exit \/ (AppendFails /\ e[1] = Current))
    <3>1. Passed(e) => Passed(e)'
      BY <2>3, PassedStays
    <3>2. QED
      BY <1>0, <1>1, <2>1, <3>1
  <2>4. QED
    BY <2>2, <2>3
<1>4. QED
  BY <1>2, <1>3

-----------------------------------------------------------------------------
\* A killed process never ran two saves at once.
LEMMA OneSaver ==
    ASSUME TypeOK, ProcessInv, SaversInv
    PROVE  /\ \A s, t \in Saver : saver[s].pc # "no" /\ saver[t].pc # "no" => s = t
           /\ pc \notin {"saving", "last", "failed"} => \A t \in Saver : saver[t].pc = "no"
BY DEF ProcessInv, SaversInv, Saver

\* How the transcripts change.
LEMMA FileSteps ==
    ASSUME TypeOK, [Next]_vars, NEW f \in File
    PROVE  /\ file[f].gen \in Nat /\ file'[f].gen \in Nat
           /\ file'[f].gen = file[f].gen \/ (Replace(f) /\ file'[f].gen = file[f].gen + 1)
<1>1. CASE WriteLine(f)
  BY <1>1, TypeFacts DEF WriteLine, TypeOK, Position
<1>2. CASE Replace(f)
  BY <1>2, TypeFacts DEF Replace, TypeOK, Position
<1>3. ASSUME NEW g \in File, g # f, WriteLine(g) \/ Replace(g) PROVE file'[f] = file[f]
  BY <1>3 DEF WriteLine, Replace, TypeOK
<1>4. (\E g \in File : WriteLine(g) \/ Replace(g)) \/ file' = file
  BY DEF Next, Run, Main, Save, vars, LoadCheckpoint, StartPass,
     SkipFile, OpenFile, SkipRecord, AppendEvent, EndOfFile, EndPass, RunStops, SaveMerge,
     SaveReset, SaveMarshal, SaveOpen, SaveWrite, SaveRename, SaveFails, SaveRest,
     AppendFails, Killed, Exit, Restart, StartFails, Interrupt
<1>5. QED
  BY <1>1, <1>2, <1>3, <1>4, TypeFacts

\* Nothing that happens to the transcripts, and no failure, makes coverage and
\* offsets that agree disagree.
LEMMA AgreeStays ==
    ASSUME TypeOK, [Next]_vars, NEW doc, doc \in Checkpoint, Agree(doc),
           \A f \in File : Behind(f, doc.offsets[f])
    PROVE  AgreeWith(doc, file', failedAt')
<1>1. ASSUME NEW r \in Record, r.gen = file'[r.file].gen
      PROVE  Fits(doc.coverage[r], Before(r, doc.offsets[r.file]), failedAt'[r])
  <2>0. /\ failedAt[r] \in Nat /\ failedAt'[r] \in Nat /\ failedAt[r] <= failedAt'[r]
        /\ doc.coverage[r] \in Nat /\ r.file \in File /\ doc.offsets[r.file].gen \in Nat
    BY <1>1, Failures, RecordParts, IngestAssumption DEF Checkpoint, Counts, Position
  <2>1. CASE file'[r.file].gen = file[r.file].gen
    <3>1. Fits(doc.coverage[r], Before(r, doc.offsets[r.file]), failedAt[r])
      BY <1>1, <2>1 DEF Agree, AgreeWith
    <3>2. QED
      BY <2>0, <3>1 DEF Fits
  <2>2. CASE file'[r.file].gen = file[r.file].gen + 1
    <3>1. doc.coverage[r] = 0
      BY <1>1, <2>0, <2>2, FileSteps DEF Agree, AgreeWith
    <3>2. ~Before(r, doc.offsets[r.file])
      BY <1>1, <2>0, <2>2, FileSteps DEF Behind, Before
    <3>3. QED
      BY <2>0, <3>1, <3>2 DEF Fits
  <2>3. QED
    BY <2>0, <2>1, <2>2, FileSteps
<1>2. ASSUME NEW r \in Record, r.gen > file'[r.file].gen PROVE doc.coverage[r] = 0
  <2>1. r.gen > file[r.file].gen
    BY <1>2, FileSteps, RecordParts
  <2>2. QED
    BY <2>1 DEF Agree, AgreeWith
<1>3. QED
  BY <1>1, <1>2 DEF Agree, AgreeWith

LEMMA StepSavers ==
    ASSUME TypeOK, ProcessInv, OffsetsInv, CountInv, exact, exact', [Next]_vars
    PROVE  (Agree(disk) /\ SaversInv)'
<1>0. /\ saver \in [Saver -> SaverState] /\ "run" \in Saver /\ "close" \in Saver
      /\ Agree(disk) /\ SaversInv /\ \A r \in Record : Tallied(r)
      /\ disk \in Checkpoint /\ Document \in Checkpoint
  BY TypeFacts DEF Saver, CountInv, TypeOK
<1>1. AgreeWith(disk, file', failedAt')
  <2>1. \A f \in File : Behind(f, disk.offsets[f])
    BY DEF OffsetsInv, Known
  <2>2. QED
    BY <1>0, <2>1, AgreeStays
<1>2. ASSUME NEW t \in Saver, Agree(saver[t].doc)
      PROVE  AgreeWith(saver[t].doc, file', failedAt')
  <2>1. \A f \in File : Behind(f, saver[t].doc.offsets[f])
    BY <1>2 DEF OffsetsInv, Known
  <2>2. saver[t].doc \in Checkpoint
    BY <1>0, <1>2 DEF SaverState
  <2>3. QED
    BY <1>2, <2>1, <2>2, AgreeStays
\* Steps that neither save nor begin to.
<1>3. ASSUME UNCHANGED <<disk, tmp, saver>>,
             pc = "failed" => pc' = "failed",
             live' = live \/ pc = "parse"
      PROVE  (Agree(disk) /\ SaversInv)'
  <2>1. Agree(disk)'
    BY <1>1, <1>3 DEF Agree
  <2>2. ASSUME NEW t \in Saver, saver[t].pc \in {"open", "write", "rename"}
        PROVE  Agree(saver[t].doc)'
    BY <1>0, <1>2, <1>3, <2>2 DEF SaversInv, Agree
  <2>3. ASSUME NEW t \in Saver, At(t, "marshal") PROVE live' = NoCounts
    BY <1>0, <1>3, <2>3, OneSaver DEF SaversInv, At
  <2>4. QED
    BY <1>0, <1>3, <2>1, <2>2, <2>3 DEF SaversInv, At
\* Steps that begin a save, or a process.
<1>4. ASSUME UNCHANGED disk,
             \A t \in Saver : /\ ~saver'[t].renamed
                              /\ saver'[t].pc \in {"no", "merge"},
             saver'["close"].pc # "no" => pc' = "failed"
      PROVE  (Agree(disk) /\ SaversInv)'
  <2>1. Agree(disk)'
    BY <1>1, <1>4 DEF Agree
  <2>2. QED
    BY <1>4, <2>1 DEF SaversInv, At
<1>5. CASE EndPass \/ RunStops \/ StartFails
  <2>1. \A t \in Saver : saver[t].pc = "no" /\ ~saver[t].renamed
    BY <1>0, <1>5, OneSaver DEF EndPass, RunStops, StartFails, SaversInv
  <2>2. /\ \A t \in Saver : saver'[t].pc \in {"no", "merge"} /\ saver'[t].renamed = saver[t].renamed
        /\ saver'["close"].pc # "no" => pc' = "failed"
        /\ UNCHANGED disk
    BY <1>0, <1>5, <2>1 DEF EndPass, RunStops, StartFails, SaverState
  <2>3. QED
    BY <1>4, <2>1, <2>2
<1>6. CASE Killed \/ Exit
  <2>1. UNCHANGED disk /\ saver' = [t \in Saver |-> NotSaving]
    BY <1>6 DEF Killed, Exit, Restart
  <2>2. QED
    BY <1>0, <1>4, <2>1, NothingYet
\* The steps of the only save there is.
<1>7. ASSUME NEW t \in Saver, Save(t) \/ SaveFails(t)
      PROVE  (Agree(disk) /\ SaversInv)'
  <2>1. /\ saver[t].pc \notin {"no", "done"} /\ ~saver[t].renamed
        /\ UNCHANGED <<file, offsets, failedAt>>
        /\ \A s \in Saver : s # t => saver[s].pc = "no" /\ ~saver[s].renamed
        /\ \A s \in Saver : s # t => saver'[s].pc = "no"
        /\ saver[t].pc \in {"open", "write", "rename"} => Agree(saver[t].doc)
        /\ At(t, "rename") => tmp = saver[t].doc
        /\ At(t, "marshal") => live = NoCounts
    BY <1>0, <1>7, OneSaver, SaveParts DEF SaversInv
  <2>2. saver'["close"].pc # "no" => pc' = "failed"
    BY <1>0, <1>7, <2>1, SaveParts DEF SaversInv
  <2>3. ASSUME Agree(disk)', ~saver'[t].renamed,
               \A s \in Saver : s # t => ~saver'[s].renamed,
               saver'[t].pc \in {"open", "write", "rename"} => Agree(saver[t].doc)',
               saver'[t].pc = "rename" => tmp' = saver'[t].doc,
               saver'[t].pc = "marshal" => live' = NoCounts
        PROVE  (Agree(disk) /\ SaversInv)'
    BY <2>1, <2>2, <2>3 DEF SaversInv, At
  <2>4. ASSUME NEW doc, Agree(doc) PROVE Agree(doc)'
    BY <2>1, <2>4 DEF Agree
  <2>5. CASE SaveMerge(t)
    <3>1. /\ disk' = disk /\ saver'[t].pc = "reset" /\ ~saver'[t].renamed
          /\ \A s \in Saver : s # t => saver'[s] = saver[s]
      BY <1>0, <2>1, <2>5 DEF SaveMerge, Goes, SaverState
    <3>2. QED
      BY <1>0, <2>1, <2>3, <3>1 DEF Agree
  <2>6. CASE SaveReset(t)
    <3>1. /\ disk' = disk /\ saver'[t].pc = "marshal" /\ ~saver'[t].renamed
          /\ live' = NoCounts /\ \A s \in Saver : s # t => saver'[s] = saver[s]
      BY <1>0, <2>1, <2>6 DEF SaveReset, Goes, SaverState
    <3>2. QED
      BY <1>0, <2>1, <2>3, <3>1 DEF Agree
  <2>7. CASE SaveMarshal(t)
    <3>1. /\ disk' = disk /\ saver'[t].pc = "open" /\ ~saver'[t].renamed
          /\ saver'[t].doc = Document /\ \A s \in Saver : s # t => saver'[s] = saver[s]
      BY <1>0, <2>1, <2>7 DEF SaveMarshal, SaverState
    <3>2. live = NoCounts /\ pc # "parse"
      BY <1>7, <2>1, <2>7, SaveParts DEF SaveMarshal, ProcessInv, SaversInv, CountInv, Saver
    <3>3. ASSUME NEW r \in Record
          PROVE  CountOf(r) = total[r] /\ Counted(r) = Before(r, offsets[r.file])
      <4>1. total[r] \in Nat /\ live[r] = 0
        BY <3>2, <3>3 DEF TypeOK, Counts, NoCounts
      <4>2. QED
        BY <3>2, <4>1 DEF CountOf, Counted
    <3>4. Agree(Document)
      BY <1>0, <3>3 DEF Agree, AgreeWith, Document, Tallied
    <3>5. Agree(saver[t].doc)'
      BY <2>1, <3>1, <3>4 DEF Agree
    <3>6. QED
      BY <1>0, <2>1, <2>3, <3>1, <3>5 DEF Agree
  <2>8. CASE SaveOpen(t)
    <3>1. /\ disk' = disk /\ saver'[t].pc = "write" /\ ~saver'[t].renamed /\ At(t, "open")
          /\ saver'[t].doc = saver[t].doc /\ \A s \in Saver : s # t => saver'[s] = saver[s]
      BY <1>0, <2>1, <2>8 DEF SaveOpen, Goes, SaverState
    <3>2. QED
      BY <1>0, <2>1, <2>3, <3>1 DEF Agree, At
  <2>9. CASE SaveWrite(t)
    <3>1. /\ disk' = disk /\ tmp' = saver[t].doc /\ saver'[t].pc = "rename"
          /\ ~saver'[t].renamed /\ At(t, "write")
          /\ saver'[t].doc = saver[t].doc /\ \A s \in Saver : s # t => saver'[s] = saver[s]
      BY <1>0, <2>1, <2>9 DEF SaveWrite, Goes, SaverState
    <3>2. QED
      BY <1>0, <2>1, <2>3, <3>1 DEF Agree, At
  <2>10. CASE SaveRename(t)
    <3>1. /\ disk' = saver[t].doc /\ saver'[t].pc \in {"no", "done"} /\ ~saver'[t].renamed
          /\ At(t, "rename")
      BY <1>0, <2>1, <2>10, NothingYet DEF SaveRename, Saved, NotSaving
    <3>2. \A s \in Saver : s # t => ~saver'[s].renamed
      BY <2>1, <2>10 DEF SaveRename, Saved
    <3>3. Agree(disk)'
      BY <2>1, <3>1 DEF Agree, At
    <3>4. QED
      BY <2>3, <3>1, <3>2, <3>3
  <2>11. CASE SaveFails(t)
    <3>1. /\ disk' = disk /\ saver'[t].pc \in {"no", "done"} /\ ~saver'[t].renamed
          /\ \A s \in Saver : s # t => saver'[s] = saver[s]
      BY <1>0, <2>11, NothingYet DEF SaveFails, NotSaving
    <3>2. QED
      BY <1>0, <2>1, <2>3, <3>1 DEF Agree
  <2>12. QED
    BY <1>7, <2>5, <2>6, <2>7, <2>8, <2>9, <2>10, <2>11 DEF Save
<1>8. ASSUME NEW f \in File, WriteLine(f) \/ Replace(f) \/ SkipFile(f) \/ OpenFile(f)
      PROVE  (Agree(disk) /\ SaversInv)'
  BY <1>3, <1>8, Frames DEF WriteLine, Replace, SkipFile, OpenFile
<1>9. CASE SkipRecord \/ AppendEvent \/ AppendFails \/ EndOfFile \/ StartPass
  BY <1>3, <1>9 DEF SkipRecord, AppendEvent, AppendFails, EndOfFile, StartPass, MoreLines,
     CloseFileAt
<1>10. CASE LoadCheckpoint \/ UNCHANGED vars
  BY <1>3, <1>10 DEF LoadCheckpoint, vars
<1>11. ~Interrupt
  BY DEF Interrupt
<1>12. QED
  BY <1>0, <1>5, <1>6, <1>7, <1>8, <1>9, <1>10, <1>11 DEF Next, Run, Main

LEMMA StepTallied ==
    ASSUME IngestInv, exact, exact', [Next]_vars, NEW r \in Record
    PROVE  Tallied(r)'
<1> USE DEF IngestInv
<1>0. /\ r.file \in File /\ r.gen \in Nat /\ r.line \in Nat /\ r.line >= 1
      /\ pos \in Nat /\ event \in Nat /\ event >= 1 /\ cur \in File
      /\ \A f \in File : file[f].gen \in Nat /\ file[f].n \in Nat
      /\ \A f \in File : offsets[f].gen \in Nat /\ offsets[f].n \in Nat
      /\ file \in [File -> Position] /\ offsets \in [File -> Position]
      /\ total[r] \in Nat /\ live[r] \in Nat /\ failedAt[r] \in Nat /\ failedAt'[r] \in Nat
      /\ Agree(disk) /\ SaversInv /\ Tallied(r)
  <2>1. \A f \in File : offsets[f].gen \in Nat /\ offsets[f].n \in Nat
    BY IngestAssumption DEF TypeOK, Position
  <2>2. total[r] \in Nat /\ live[r] \in Nat /\ failedAt[r] \in Nat
    BY DEF TypeOK, Counts
  <2>3. Agree(disk) /\ SaversInv /\ Tallied(r)
    BY DEF CountInv
  <2>4. QED
    BY <2>1, <2>2, <2>3, RecordParts, TypeFacts, Failures DEF TypeOK
\* Steps that change neither the counts nor what is counted.
<1>1. ASSUME UNCHANGED <<file, total, live, failedAt>>, CountOf(r)' = CountOf(r),
             r.gen = file[r.file].gen => (Counted(r)' <=> Counted(r))
      PROVE  Tallied(r)'
  BY <1>0, <1>1 DEF Tallied, Fits
<1>2. ASSUME pc \notin {"saving", "last", "failed"} PROVE CountOf(r) = total[r] + live[r]
  BY <1>0, <1>2, OneSaver DEF CountOf, At
<1>3. ASSUME \A t \in Saver : saver'[t].pc # "reset"
      PROVE  CountOf(r)' = total'[r] + live'[r]
  BY <1>3 DEF CountOf, At
<1>4. ASSUME NEW f \in File, WriteLine(f) PROVE Tallied(r)'
  <2>1. /\ UNCHANGED <<offsets, live, total, pc, cur, pos, event, saver, failedAt>>
        /\ file'[r.file].gen = file[r.file].gen
    BY <1>0, <1>4, Frames DEF WriteLine, Position
  <2>2. CountOf(r)' = CountOf(r) /\ (Counted(r)' <=> Counted(r))
    BY <2>1 DEF CountOf, Counted, At
  <2>3. QED
    BY <1>0, <2>1, <2>2 DEF Tallied, Fits
<1>5. ASSUME NEW f \in File, Replace(f) PROVE Tallied(r)'
  <2>1. /\ UNCHANGED <<offsets, live, total, pc, cur, pos, event, saver, failedAt>>
        /\ ~(pc = "parse" /\ cur = f)
        /\ file' = [file EXCEPT ![f] = [gen |-> file[f].gen + 1, n |-> 0]]
    BY <1>5, Frames DEF Replace
  <2>2. CountOf(r)' = CountOf(r) /\ (Counted(r)' <=> Counted(r))
    BY <2>1 DEF CountOf, Counted, At
  <2>3. CASE r.file = f
    <3>1. file'[f].gen = file[f].gen + 1 /\ Behind(f, offsets[f])
      BY <1>0, <2>1 DEF OffsetsInv, Known
    <3>2. r.gen = file'[f].gen => CountOf(r) = 0 /\ ~Counted(r)
      BY <1>0, <2>1, <2>3, <3>1 DEF Tallied, CountOf, Counted, Before, Behind
    <3>3. QED
      BY <1>0, <2>1, <2>2, <2>3, <3>1, <3>2 DEF Tallied, Fits
  <2>4. CASE r.file # f
    BY <1>0, <2>1, <2>2, <2>4 DEF Tallied, Fits
  <2>5. QED
    BY <2>3, <2>4
<1>6. ASSUME NEW f \in File, OpenFile(f) PROVE Tallied(r)'
  <2>1. /\ pc = "pass" /\ pc' = "parse" /\ cur' = f /\ event' = 1
        /\ UNCHANGED <<file, offsets, live, total, saver, failedAt>>
        /\ pos' = IF file[f].n < offsets[f].n THEN 0 ELSE offsets[f].n
    BY <1>6 DEF OpenFile
  <2>2. Behind(f, offsets[f])
    BY DEF OffsetsInv, Known
  <2>3. r.gen = file[r.file].gen => (Counted(r)' <=> Counted(r))
    BY <1>0, <2>1, <2>2 DEF Counted, Before, Behind
  <2>4. CountOf(r)' = CountOf(r)
    BY <2>1 DEF CountOf, At
  <2>5. QED
    BY <1>1, <2>1, <2>3, <2>4
\* Starting on the next record counts it.
<1>7. ASSUME MoreLines, Seen, UNCHANGED <<total, saver>>
      PROVE  /\ CountOf(r) = total[r] + live[r] /\ CountOf(r)' = total[r] + live'[r]
             /\ live'[r] = IF event = 1 /\ r = Current THEN live[r] + 1 ELSE live[r]
  <2>1. pc \notin {"saving", "last", "failed"}
    BY <1>7 DEF MoreLines
  <2>2. Current \in Record /\ live \in [Record -> Nat]
    BY <1>7, CurrentIsRecord DEF TypeOK, Counts
  <2>3. live'[r] = IF event = 1 /\ r = Current THEN live[r] + 1 ELSE live[r]
    BY <1>7, <2>2 DEF Seen
  <2>4. \A t \in Saver : saver'[t].pc # "reset"
    BY <1>0, <1>7, <2>1, OneSaver
  <2>5. QED
    BY <1>2, <1>3, <1>7, <2>1, <2>3, <2>4
<1>8. ASSUME MoreLines, r.file = cur, r.gen = file[cur].gen, r # Current PROVE r.line # pos + 1
  BY <1>8 DEF Record, Current
<1>9. CASE SkipRecord \/ AppendEvent
  <2>1. /\ MoreLines /\ Seen /\ pc = "parse"
        /\ UNCHANGED <<file, offsets, total, saver, pc, cur, failedAt>>
        /\ Current.file = cur /\ Current.gen = file[cur].gen /\ Current.line = pos + 1
    BY <1>9, CurrentIsRecord DEF SkipRecord, AppendEvent, MoreLines
  <2>2. \/ pos' = pos + 1 /\ event' = 1
        \/ pos' = pos /\ event' = event + 1
    <3>1. SkipRecord => event = 1
      BY <1>0 DEF SkipRecord, ParseInv, MoreLines
    <3>2. QED
      BY <1>9, <3>1 DEF SkipRecord, AppendEvent
  <2>3. CASE r = Current
    <3>1. Counted(r)' /\ (Counted(r) <=> event > 1)
      BY <1>0, <2>1, <2>2, <2>3 DEF Counted
    <3>2. Fits(total[r] + live[r], Counted(r), failedAt[r])
      BY <1>0, <1>7, <2>1, <2>3 DEF Tallied, Fits
    <3>3. Fits(total[r] + live'[r], TRUE, failedAt[r])
      <4>1. CASE event = 1
        BY <1>0, <1>7, <2>1, <2>3, <3>1, <3>2, <4>1 DEF Fits
      <4>2. CASE event # 1
        BY <1>0, <1>7, <2>1, <3>1, <3>2, <4>2 DEF Fits
      <4>3. QED
        BY <4>1, <4>2
    <3>4. CountOf(r)' = total[r] + live'[r]
      BY <1>7, <2>1
    <3>5. QED
      BY <1>0, <2>1, <2>3, <3>1, <3>3, <3>4 DEF Tallied, Fits
  <2>4. CASE r # Current
    <3>1. r.gen = file[r.file].gen => (Counted(r)' <=> Counted(r))
      BY <1>0, <1>8, <2>1, <2>2, <2>4 DEF Counted
    <3>2. QED
      BY <1>0, <1>7, <2>1, <2>4, <3>1 DEF Tallied, Fits
  <2>5. QED
    BY <2>3, <2>4
<1>10. ASSUME CloseFileAt(pos), pc = "parse", UNCHANGED file
       PROVE  Counted(r)' <=> (IF r.file = cur THEN r.gen = file[cur].gen /\ r.line <= pos
                               ELSE Before(r, offsets[r.file]))
  <2>1. pc' = "pass" /\ offsets'[cur] = Reached
        /\ (r.file # cur => offsets'[r.file] = offsets[r.file])
    BY <1>0, <1>10 DEF CloseFileAt, Reached
  <2>2. QED
    BY <2>1 DEF Counted, Before, Reached
<1>11. CASE AppendFails
  <2>1. /\ MoreLines /\ Seen /\ CloseFileAt(pos) /\ pc = "parse" /\ UNCHANGED <<file, total, saver>>
        /\ failedAt' = [failedAt EXCEPT ![Current] = @ + 1] /\ failedAt \in [Record -> Nat]
        /\ Current \in Record
        /\ Current.file = cur /\ Current.gen = file[cur].gen /\ Current.line = pos + 1
    BY <1>11, CurrentIsRecord DEF AppendFails, MoreLines, TypeOK, Counts
  <2>2. CASE r = Current
    <3>1. ~Counted(r)'
      BY <1>0, <1>10, <2>1, <2>2
    <3>2. (Counted(r) <=> event > 1) /\ failedAt'[r] = failedAt[r] + 1
      BY <1>0, <2>1, <2>2 DEF Counted
    <3>3. Fits(total[r] + live[r], Counted(r), failedAt[r])
      BY <1>0, <1>7, <2>1, <2>2 DEF Tallied, Fits
    <3>4. Fits(total[r] + live'[r], FALSE, failedAt'[r])
      <4>1. CASE event = 1
        BY <1>0, <1>7, <2>1, <2>2, <3>2, <3>3, <4>1 DEF Fits
      <4>2. CASE event # 1
        BY <1>0, <1>7, <2>1, <3>2, <3>3, <4>2 DEF Fits
      <4>3. QED
        BY <4>1, <4>2
    <3>5. CountOf(r)' = total[r] + live'[r]
      BY <1>7, <2>1
    <3>6. QED
      BY <1>0, <2>1, <2>2, <3>1, <3>4, <3>5 DEF Tallied, Fits
  <2>3. CASE r # Current
    <3>1. failedAt'[r] = failedAt[r]
      BY <2>1, <2>3
    <3>2. r.gen = file[r.file].gen => (Counted(r)' <=> Counted(r))
      BY <1>0, <1>8, <1>10, <2>1, <2>3 DEF Counted
    <3>3. QED
      BY <1>0, <1>7, <2>1, <2>3, <3>1, <3>2 DEF Tallied, Fits
  <2>4. QED
    BY <2>2, <2>3
<1>12. CASE EndOfFile
  <2>1. /\ CloseFileAt(pos) /\ pc = "parse" /\ UNCHANGED <<file, total, live, saver, failedAt>>
        /\ event = 1
    BY <1>0, <1>12 DEF EndOfFile, ParseInv, MoreLines
  <2>2. r.gen = file[r.file].gen => (Counted(r)' <=> Counted(r))
    BY <1>0, <1>10, <2>1 DEF Counted
  <2>3. CountOf(r)' = CountOf(r)
    BY <2>1 DEF CountOf, At
  <2>4. QED
    BY <1>1, <2>1, <2>2, <2>3
<1>13. ASSUME UNCHANGED <<file, total, live, failedAt, offsets, cur, pos, event>>,
              pc' = pc \/ (pc' # "parse" /\ pc # "parse"),
              \A t \in Saver : (saver'[t].pc = "reset") = (saver[t].pc = "reset")
       PROVE  Tallied(r)'
  <2>1. CountOf(r)' = CountOf(r) /\ (Counted(r)' <=> Counted(r))
    BY <1>13 DEF CountOf, Counted, At
  <2>2. QED
    BY <1>1, <1>13, <2>1
<1>14. CASE EndPass \/ RunStops \/ StartFails
  <2>1. \A t \in Saver : saver[t].pc = "no"
    BY <1>0, <1>14, OneSaver DEF EndPass, RunStops, StartFails
  <2>2. \A t \in Saver : saver'[t].pc # "reset"
    BY <1>14, <2>1, TypeFacts DEF EndPass, RunStops, StartFails, SaverState
  <2>3. QED
    BY <1>13, <1>14, <2>1, <2>2 DEF EndPass, RunStops, StartFails
<1>15. CASE StartPass \/ UNCHANGED vars
  BY <1>13, <1>15 DEF StartPass, vars
<1>16. ASSUME NEW f \in File, SkipFile(f) PROVE Tallied(r)'
  BY <1>13, <1>16 DEF SkipFile
<1>17. ASSUME total'[r] = 0, live'[r] = 0, ~Counted(r)', UNCHANGED file
       PROVE  Tallied(r)'
  BY <1>0, <1>17 DEF Tallied, CountOf, Fits
<1>18. CASE Killed \/ Exit
  <2>1. /\ total'[r] = 0 /\ live'[r] = 0 /\ pc' = "loading" /\ UNCHANGED file
        /\ offsets'[r.file] = Beginning
    BY <1>0, <1>18 DEF Killed, Exit, Restart, NoCounts
  <2>2. QED
    BY <1>0, <1>17, <2>1 DEF Counted, Before, Beginning
<1>19. CASE LoadCheckpoint
  <2>1. /\ pc = "loading" /\ pc' = "idle" /\ UNCHANGED <<file, live, saver, failedAt>>
        /\ offsets' = disk.offsets /\ total' = disk.coverage
    BY <1>0, <1>19 DEF LoadCheckpoint, Agree, AgreeWith
  <2>2. live[r] = 0
    BY <2>1 DEF ProcessInv, NoCounts
  <2>3. \A t \in Saver : saver'[t].pc # "reset"
    BY <1>0, <2>1, OneSaver
  <2>4. CountOf(r)' = disk.coverage[r] /\ Counted(r)' = Before(r, disk.offsets[r.file])
    <3>1. disk.coverage[r] \in Nat
      BY DEF TypeOK, Checkpoint, Counts
    <3>2. QED
      BY <1>3, <2>1, <2>2, <2>3, <3>1 DEF Counted
  <2>5. QED
    BY <1>0, <2>1, <2>2, <2>4 DEF Tallied, Agree, AgreeWith
<1>20. ASSUME NEW t \in Saver, Save(t) \/ SaveFails(t) PROVE Tallied(r)'
  <2>1. /\ UNCHANGED <<file, offsets, cur, pos, event, failedAt>>
        /\ pc' = pc \/ (pc' # "parse" /\ pc # "parse")
        /\ \A s \in Saver : s # t => saver'[s].pc = "no" /\ saver[s].pc = "no"
    BY <1>0, <1>20, OneSaver, SaveParts
  <2>2. (Counted(r)' <=> Counted(r))
    BY <2>1 DEF Counted
  <2>3. CASE SaveMerge(t)
    <3>1. At(t, "merge") /\ At(t, "reset")' /\ total'[r] = total[r] + live[r] /\ live' = live
      BY <2>3, TypeFacts DEF SaveMerge, Goes, At, SaverState
    <3>2. CountOf(r) = total[r] + live[r] /\ CountOf(r)' = total'[r]
      BY <2>1, <3>1 DEF CountOf, At
    <3>3. QED
      BY <1>0, <2>1, <2>2, <3>1, <3>2 DEF Tallied, Fits
  <2>4. CASE SaveReset(t)
    <3>1. At(t, "reset") /\ At(t, "marshal")' /\ total' = total /\ live'[r] = 0
      BY <2>4, TypeFacts DEF SaveReset, Goes, At, SaverState, NoCounts
    <3>2. CountOf(r) = total[r]
      BY <3>1 DEF CountOf
    <3>3. CountOf(r)' = total[r]
      BY <1>0, <1>3, <2>1, <3>1 DEF At
    <3>4. QED
      BY <1>0, <2>1, <2>2, <3>1, <3>2, <3>3 DEF Tallied, Fits
  <2>5. CASE ~SaveMerge(t) /\ ~SaveReset(t)
    <3>1. UNCHANGED <<total, live>> /\ saver[t].pc # "reset" /\ saver'[t].pc # "reset"
      BY <1>20, <2>5, TypeFacts, NothingYet DEF Save, SaveMarshal, SaveOpen, SaveWrite,
         SaveRename, Saved, SaveFails, SaveRest, Goes, At, SaverState, NotSaving
    <3>2. QED
      BY <1>13, <2>1, <3>1
  <2>6. QED
    BY <2>3, <2>4, <2>5
<1>21. ~Interrupt
  BY DEF Interrupt
<1>22. QED
  BY <1>0, <1>4, <1>5, <1>6, <1>9, <1>11, <1>12, <1>14, <1>15, <1>16, <1>18, <1>19, <1>20, <1>21
     DEF Next, Run, Main, Saver

-----------------------------------------------------------------------------
LEMMA StepCount ==
    ASSUME IngestInv, [Next]_vars
    PROVE  CountInv'
<1> SUFFICES ASSUME exact' PROVE (Agree(disk) /\ SaversInv /\ \A r \in Record : Tallied(r))'
  BY DEF CountInv
<1>1. exact
  BY DEF Next, Run, Main, Save, vars, WriteLine, Replace, LoadCheckpoint, StartPass,
     SkipFile, OpenFile, SkipRecord, AppendEvent, EndOfFile, EndPass, RunStops, SaveMerge,
     SaveReset, SaveMarshal, SaveOpen, SaveWrite, SaveRename, SaveFails, SaveRest,
     AppendFails, Killed, Exit, Restart, StartFails, Interrupt
<1>2. (Agree(disk) /\ SaversInv)'
  BY <1>1, StepSavers DEF IngestInv
<1>3. \A r \in Record : Tallied(r)'
  BY <1>1, StepTallied
<1>4. QED
  BY <1>2, <1>3

\* What the module's four safety properties rest on.
THEOREM Invariant == Spec => []IngestInv
<1>1. ASSUME IngestInv, [Next]_vars PROVE IngestInv'
  <2>1. TypeOK'
    BY <1>1, StepTypeOK DEF IngestInv
  <2>2. QED
    BY <1>1, <2>1, StepProcess, StepOffsets, StepParse, StepReplay, StepCount DEF IngestInv
<1>2. QED
  BY InitInv, <1>1, PTL DEF Spec

\* ingest.go's checkpoint and counts stay in their ranges, and the lines
\* consumed of a transcript are no more than it has.
THEOREM TypeCorrect == Spec => []TypeOK
<1>1. IngestInv => TypeOK
  BY DEF IngestInv
<1>2. QED
  BY Invariant, <1>1, PTL

\* ingest.go:273-274 and :347-348, no record is stepped over: every event of a
\* record before an offset in memory, on disk or about to be is in the store,
\* for any number of failures, kills and shutdowns.
THEOREM NothingIsSkipped == Spec => []NothingSkipped
<1>1. ASSUME IngestInv PROVE NothingSkipped
  BY <1>1, EventParts, RecordParts DEF IngestInv, OffsetsInv, Safe, NothingSkipped
<1>2. QED
  BY Invariant, <1>1, PTL

\* ingest.go:273-274, a pass resumes at the record that failed "rather than
\* replaying": an event is stored once, and once more for every process that
\* ended and every append of its record that failed.
THEOREM ReplayedOnlyOnFailure == Spec => []ReplayedOnlyAfterFailure
<1>1. ASSUME IngestInv PROVE ReplayedOnlyAfterFailure
  <2>1. ASSUME NEW e \in Event PROVE stored[e] <= 1 + stops + failedAt[e[1]]
    <3>1. stored[e] \in Nat /\ stops \in Nat /\ failedAt[e[1]] \in Nat
      BY <1>1, EventParts, TypeFacts DEF IngestInv, TypeOK, Counts
    <3>2. stored[e] <= stops + failedAt[e[1]] + (IF Passed(e) THEN 1 ELSE 0)
      BY <1>1 DEF IngestInv, ReplayInv
    <3>3. QED
      BY <3>1, <3>2
  <2>2. QED
    BY <2>1 DEF ReplayedOnlyAfterFailure
<1>2. QED
  BY Invariant, <1>1, PTL

\* ingest.go:347-348, an interrupted save leaves no truncated checkpoint, as
\* long as the process is killed rather than shut down.
THEOREM CheckpointIsWhole == Spec => []CheckpointWhole
<1>1. IngestInv => CheckpointWhole
  BY DEF IngestInv, CountInv, Agree, AgreeWith, CheckpointWhole
<1>2. QED
  BY Invariant, <1>1, PTL

\* ingest.go:133-134, of such a process: the persisted coverage counts every
\* record before the persisted offsets once and no other, but for appends that
\* failed.
THEOREM RecordsCountedOnce == Spec => []CountedOnce
<1>1. ASSUME IngestInv PROVE CountedOnce
  <2>1. ASSUME exact, NEW r \in Record, r.gen = file[r.file].gen PROVE CountsOnce(r)
    <3>1. failedAt[r] \in Nat /\ disk.coverage[r] \in Nat
      BY <1>1 DEF IngestInv, TypeOK, Checkpoint, Counts
    <3>2. Fits(disk.coverage[r], Before(r, disk.offsets[r.file]), failedAt[r])
      BY <1>1, <2>1 DEF IngestInv, CountInv, Agree, AgreeWith
    <3>3. QED
      BY <3>1, <3>2 DEF Fits, CountsOnce
  <2>2. QED
    BY <2>1 DEF CountedOnce
<1>2. QED
  BY Invariant, <1>1, PTL
=============================================================================
