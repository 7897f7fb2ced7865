-------------------------- MODULE FileStoreProofs --------------------------
(***************************************************************************)
(* Theorems about module FileStore, for every set of events, payloads,     *)
(* writers and tenants, and every number of failures and kills.            *)
(***************************************************************************)
EXTENDS FileStore, SequenceTheorems, TLAPS

Job == [at : {"waiting", "stat", "temp", "rename", "append", "writing"},
        event : Event \cup {Waiting.event}, ref : Payload \cup {NoPayload}]

TypeInv ==
    /\ logs \in [Tenant -> [Day -> Seq(Line)]]
    /\ open \in [Tenant -> 0..MaxDay]
    /\ failed \in [Tenant -> BOOLEAN]
    /\ holder \in [Tenant -> Writer \cup {NoWriter}]
    /\ blobs \in [Tenant -> [Payload -> {"absent", "whole"}]]
    /\ job \in [Writer -> Job]
    /\ parts \in [Tenant -> [Day -> SUBSET Event]]
    /\ confirmed \subseteq Event
    /\ \A w \in Writer : ~At(w, "waiting") =>
          job[w].event \in Event /\ WriterOf[job[w].event] = w
    /\ \A w \in Writer : job[w].at \in {"stat", "temp", "rename"} =>
          PayloadOf[job[w].event] \in Payload

\* The payloads that lines of events captured here name, and that such events on
\* their way to a line do, are there.
Here(line) == WriterOf[line.event] \notin Collect

RefsInv ==
    /\ \A t \in Tenant, d \in Day : \A i \in DOMAIN logs[t][d] :
          Here(logs[t][d][i]) /\ logs[t][d][i].ref # NoPayload =>
             blobs[t][logs[t][d][i].ref] = "whole"
    /\ \A w \in Writer \ Collect : ~At(w, "waiting") /\ job[w].ref # NoPayload =>
          blobs[Whose(w)][job[w].ref] = "whole"

\* Who holds a store's lock is writing the last line of its open log, and who
\* is writing holds the lock.
HolderInv ==
    /\ \A t \in Tenant : holder[t] # NoWriter =>
          /\ At(holder[t], "writing") /\ Whose(holder[t]) = t
          /\ open[t] = On(holder[t])
    /\ \A w \in Writer : At(w, "writing") =>
          LET log == logs[Whose(w)][On(w)]
          IN /\ holder[Whose(w)] = w
             /\ log # <<>> /\ ~log[Len(log)].whole
             /\ log[Len(log)].event = job[w].event

\* A confirmed event has a whole line of its day's log.
ConfirmedInv ==
    \A e \in confirmed :
        \E i \in DOMAIN logs[TenantOf[e]][DayOf[e]] :
            LET line == logs[TenantOf[e]][DayOf[e]][i]
            IN line.event = e /\ line.whole

\* What is being compacted holds all of its day that had been confirmed when it
\* was read.
ReadingInv ==
    reading.tenant # 0 =>
        /\ reading.tenant \in Tenant /\ reading.day \in Day
        /\ reading.events \subseteq Event
        /\ reading.before \subseteq reading.events

FileStoreInv == TypeInv /\ RefsInv /\ HolderInv /\ ConfirmedInv /\ ReadingInv

\* Every whole line of a log is a line of another, at the same place.
LinesStay(log, later) ==
    \A i \in DOMAIN log : log[i].whole => i \in DOMAIN later /\ later[i] = log[i]

AllLinesStay ==
    \A t \in Tenant, d \in Day : LinesStay(logs[t][d], logs[t][d]')

-----------------------------------------------------------------------------
\* However the writing of the last line ends, only that line is touched.
LEMMA EndsTouchesLast ==
    ASSUME NEW log \in Seq(Line), log # <<>>, ~log[Len(log)].whole,
           NEW how \in {"whole", "torn", "none"}
    PROVE  /\ Ends(log, how) \in Seq(Line)
           /\ LinesStay(log, Ends(log, how))
           /\ \A i \in DOMAIN Ends(log, how) :
                 /\ i \in DOMAIN log /\ Ends(log, how)[i].ref = log[i].ref
                 /\ Ends(log, how)[i].event = log[i].event
           /\ how = "whole" =>
                 /\ Len(log) \in DOMAIN Ends(log, how)
                 /\ Ends(log, how)[Len(log)].whole
                 /\ Ends(log, how)[Len(log)].event = log[Len(log)].event
<1>1. Len(log) \in Nat /\ Len(log) > 0 /\ DOMAIN log = 1..Len(log)
  OBVIOUS
<1>2. CASE how = "torn"
  BY <1>2 DEF Ends, LinesStay
<1>3. CASE how = "whole"
  <2> DEFINE n == Len(log)
             last == [log[n] EXCEPT !.whole = TRUE]
             done == [log EXCEPT ![n] = last]
  <2>1. Ends(log, how) = done
    BY <1>3 DEF Ends
  <2>2. log \in [1..n -> Line] /\ n \in 1..n /\ n \in Nat
    BY <1>1
  <2>3. log[n] \in Line
    BY <2>2
  <2>4. /\ last \in Line /\ last.whole
        /\ last.ref = log[n].ref /\ last.event = log[n].event
    BY <2>3 DEF Line
  <2> HIDE DEF n, last
  <2>5. /\ done \in [1..n -> Line] /\ done[n] = last
        /\ \A i \in 1..n : i # n => done[i] = log[i]
    BY <2>2, <2>4
  <2> HIDE DEF done
  <2>6. done \in Seq(Line)
    BY <2>2, <2>5, SeqDef
  <2>7. DOMAIN done = 1..n /\ DOMAIN log = 1..n /\ ~log[n].whole
    BY <2>2, <2>5 DEF n
  <2>8. LinesStay(log, done)
    BY <2>5, <2>7 DEF LinesStay
  <2>9. \A i \in DOMAIN done : /\ i \in DOMAIN log /\ done[i].ref = log[i].ref
                               /\ done[i].event = log[i].event
    BY <2>4, <2>5, <2>7
  <2> QED
    BY <1>1, <2>1, <2>2, <2>4, <2>5, <2>6, <2>7, <2>8, <2>9 DEF n
<1>4. CASE how = "none"
  <2>1. Ends(log, how) = SubSeq(log, 1, Len(log) - 1)
    BY <1>4 DEF Ends
  <2>2. /\ SubSeq(log, 1, Len(log) - 1) \in Seq(Line)
        /\ DOMAIN SubSeq(log, 1, Len(log) - 1) = 1..(Len(log) - 1)
        /\ \A i \in 1..(Len(log) - 1) : SubSeq(log, 1, Len(log) - 1)[i] = log[i]
    BY <1>1
  <2> QED
    BY <1>1, <1>4, <2>1, <2>2 DEF LinesStay
<1> QED
  BY <1>2, <1>3, <1>4

LEMMA LinesTyped ==
    ASSUME TypeInv, NEW t \in Tenant, NEW d \in Day
    PROVE  logs[t][d] \in Seq(Line) /\ \A i \in DOMAIN logs[t][d] : logs[t][d][i] \in Line
<1>1. logs[t][d] \in Seq(Line)
  BY DEF TypeInv
<1> QED
  BY <1>1

\* What had a whole line has it still.
LEMMA ConfirmedStays ==
    ASSUME ConfirmedInv, AllLinesStay, confirmed \subseteq Event,
           NEW e \in confirmed
    PROVE  \E i \in DOMAIN logs'[TenantOf[e]][DayOf[e]] :
              LET line == logs'[TenantOf[e]][DayOf[e]][i]
              IN line.event = e /\ line.whole
<1> DEFINE log == logs[TenantOf[e]][DayOf[e]]
           later == logs'[TenantOf[e]][DayOf[e]]
<1>1. PICK i \in DOMAIN log : log[i].event = e /\ log[i].whole
  BY DEF ConfirmedInv
<1>2. TenantOf[e] \in Tenant /\ DayOf[e] \in Day
  BY FileStoreAssumption
<1>3. LinesStay(log, later)
  BY <1>2 DEF AllLinesStay
<1>4. i \in DOMAIN later /\ later[i] = log[i]
  BY <1>1, <1>3 DEF LinesStay
<1> QED
  BY <1>1, <1>4

LEMMA InitInv == Init => FileStoreInv
<1> SUFFICES ASSUME Init PROVE FileStoreInv
  OBVIOUS
<1>1. Waiting \in Job /\ Waiting.at = "waiting"
  BY DEF Waiting, Job
<1>2. TypeInv
  BY <1>1, FileStoreAssumption, EarlierAssumption DEF Init, TypeInv, At
<1>3. RefsInv
  BY <1>1, EarlierAssumption DEF Init, RefsInv, At
<1>4. HolderInv
  BY <1>1 DEF Init, HolderInv, At
<1>5. ConfirmedInv
  <2> SUFFICES ASSUME NEW e \in confirmed
               PROVE  \E i \in DOMAIN logs[TenantOf[e]][DayOf[e]] :
                         /\ logs[TenantOf[e]][DayOf[e]][i].event = e
                         /\ logs[TenantOf[e]][DayOf[e]][i].whole
    BY DEF ConfirmedInv
  <2>1. TenantOf[e] \in Tenant /\ DayOf[e] \in Day /\ logs = Earlier
    BY FileStoreAssumption DEF Init
  <2>2. PICK i \in DOMAIN Earlier[TenantOf[e]][DayOf[e]] :
           Earlier[TenantOf[e]][DayOf[e]][i].event = e
    BY DEF Init
  <2> QED
    BY <2>1, <2>2, EarlierAssumption
<1>6. ReadingInv
  BY DEF Init, ReadingInv, NotReading
<1> QED
  BY <1>2, <1>3, <1>4, <1>5, <1>6 DEF FileStoreInv

-----------------------------------------------------------------------------
(* The steps before and after a write, and the sweep.                      *)

\* A step of one writer that writes no log.
LEMMA JobStep ==
    ASSUME FileStoreInv, NEW w \in Writer, NEW j \in Job,
           job' = [job EXCEPT ![w] = j],
           ~At(w, "writing"), j.at # "writing",
           j.at # "waiting" =>
              /\ j.event \in Event /\ WriterOf[j.event] = w
              /\ w \notin Collect /\ j.ref # NoPayload =>
                    blobs'[TenantOf[j.event]][j.ref] = "whole",
           j.at \in {"stat", "temp", "rename"} => PayloadOf[j.event] \in Payload,
           blobs' \in [Tenant -> [Payload -> {"absent", "whole"}]],
           \A t \in Tenant, p \in Payload :
              blobs[t][p] = "whole" => blobs'[t][p] = "whole",
           open' \in [Tenant -> 0..MaxDay], failed' \in [Tenant -> BOOLEAN],
           \A t \in Tenant : holder[t] # NoWriter => open'[t] = open[t],
           UNCHANGED <<logs, holder, parts, reading, confirmed>>
    PROVE  FileStoreInv' /\ AllLinesStay
<1> USE DEF FileStoreInv
<1>1. \A v \in Writer : job'[v] = IF v = w THEN j ELSE job[v]
  BY DEF TypeInv
<1>2. TypeInv'
  <2>1. job' \in [Writer -> Job]
    BY DEF TypeInv
  <2> QED
    BY <1>1, <2>1 DEF TypeInv, At
<1>3. RefsInv'
  <2>1. \A t \in Tenant, d \in Day : \A i \in DOMAIN logs[t][d] :
           logs[t][d][i].ref \in Payload \cup {NoPayload}
    BY LinesTyped DEF Line
  <2>2. \A t \in Tenant, d \in Day : \A i \in DOMAIN logs[t][d] :
           Here(logs[t][d][i]) /\ logs[t][d][i].ref # NoPayload =>
              blobs'[t][logs[t][d][i].ref] = "whole"
    BY <2>1 DEF RefsInv
  <2>3. \A v \in Writer \ Collect :
           v # w /\ ~At(v, "waiting") /\ job[v].ref # NoPayload =>
              blobs'[Whose(v)][job[v].ref] = "whole"
    BY FileStoreAssumption DEF RefsInv, TypeInv, Job, Whose
  <2> QED
    BY <1>1, <2>2, <2>3 DEF RefsInv, At, Whose, Here
<1>4. HolderInv'
  <2>1. \A t \in Tenant : holder[t] # NoWriter => holder[t] \in Writer /\ holder[t] # w
    BY DEF TypeInv, HolderInv
  <2>2. \A t \in Tenant : holder'[t] # NoWriter =>
          /\ At(holder[t], "writing")' /\ Whose(holder[t])' = t
          /\ open'[t] = On(holder[t])'
    <3> SUFFICES ASSUME NEW t \in Tenant, holder[t] # NoWriter
                 PROVE  /\ At(holder[t], "writing")' /\ Whose(holder[t])' = t
                        /\ open'[t] = On(holder[t])'
      OBVIOUS
    <3>1. job'[holder[t]] = job[holder[t]]
      BY <1>1, <2>1
    <3>2. /\ At(holder[t], "writing") /\ Whose(holder[t]) = t
          /\ open[t] = On(holder[t]) /\ open'[t] = open[t]
      BY DEF HolderInv
    <3> QED
      BY <3>1, <3>2 DEF At, Whose, On
  <2>3. \A v \in Writer : At(v, "writing")' =>
           v # w /\ At(v, "writing") /\ job'[v] = job[v]
    BY <1>1 DEF At
  <2>4. ASSUME NEW v \in Writer, At(v, "writing")'
        PROVE  LET log == logs[Whose(v)][On(v)]
               IN (/\ holder[Whose(v)] = v
                   /\ log # <<>> /\ ~log[Len(log)].whole
                   /\ log[Len(log)].event = job[v].event)'
    <3>1. At(v, "writing") /\ Whose(v)' = Whose(v) /\ On(v)' = On(v)
          /\ job'[v] = job[v]
      BY <2>3, <2>4 DEF Whose, On
    <3> HIDE DEF At
    <3> QED
      BY <3>1 DEF HolderInv
  <2> QED
    BY <2>2, <2>4 DEF HolderInv
<1>5. ConfirmedInv' /\ ReadingInv' /\ AllLinesStay
  BY DEF ConfirmedInv, ReadingInv, AllLinesStay, LinesStay
<1> QED
  BY <1>2, <1>3, <1>4, <1>5

\* Storing a payload and naming it.
LEMMA PayloadSteps ==
    ASSUME FileStoreInv, NEW w \in Writer,
           \/ \E e \in Event : Take(w, e)
           \/ Stat(w) \/ WriteTemp(w) \/ Rename(w) \/ PutBlobFails(w)
    PROVE  FileStoreInv' /\ AllLinesStay
<1> USE DEF FileStoreInv, store, archive
<1>0. /\ job[w] \in Job /\ blobs \in [Tenant -> [Payload -> {"absent", "whole"}]]
      /\ open \in [Tenant -> 0..MaxDay] /\ failed \in [Tenant -> BOOLEAN]
      /\ At(w, "waiting") \/ (/\ job[w].event \in Event /\ Whose(w) \in Tenant
                              /\ WriterOf[job[w].event] = w)
  BY FileStoreAssumption DEF TypeInv, Whose
<1>1. ASSUME NEW e \in Event, Take(w, e) PROVE FileStoreInv' /\ AllLinesStay
  <2> DEFINE j == Beginning(w, e)
  <2>1. /\ j \in Job /\ j.event = e /\ j.at \in {"append", "stat"}
        /\ w \notin Collect => j.ref = NoPayload
        /\ j.at = "stat" => PayloadOf[e] # NoPayload
    BY FileStoreAssumption DEF Job, Beginning
  <2>2. j.at \in {"stat", "temp", "rename"} => PayloadOf[j.event] \in Payload
    BY <2>1, FileStoreAssumption
  <2>3. ~At(w, "writing") /\ job' = [job EXCEPT ![w] = j] /\ WriterOf[e] = w
    BY <1>1 DEF Take, At
  <2> HIDE DEF j
  <2> QED
    BY <1>0, <1>1, <2>1, <2>2, <2>3, JobStep DEF Take
<1>2. ASSUME Stat(w) PROVE FileStoreInv' /\ AllLinesStay
  <2> DEFINE p == PayloadOf[job[w].event]
             j == IF blobs[Whose(w)][p] = "absent" THEN [job[w] EXCEPT !.at = "temp"]
                  ELSE [job[w] EXCEPT !.at = "append", !.ref = p]
  <2>1. /\ p \in Payload /\ job[w].event \in Event
        /\ WriterOf[job[w].event] = w
    BY <1>0, <1>2 DEF TypeInv, Stat, At
  <2>2. j \in Job /\ j.at # "writing" /\ j.event = job[w].event
    BY <1>0, <2>1 DEF Job
  <2>3. w \notin Collect /\ j.ref # NoPayload => blobs[Whose(w)][j.ref] = "whole"
    BY <1>0, <1>2, <2>1 DEF RefsInv, Stat, At, Job
  <2>4. ~At(w, "writing") /\ job' = [job EXCEPT ![w] = j]
    BY <1>2 DEF Stat, At, Moves, Names
  <2> HIDE DEF j
  <2> QED
    BY <1>0, <1>2, <2>1, <2>2, <2>3, <2>4, JobStep DEF Stat, Whose
<1>3. ASSUME WriteTemp(w) PROVE FileStoreInv' /\ AllLinesStay
  <2> DEFINE j == [job[w] EXCEPT !.at = "rename"]
  <2>1. /\ PayloadOf[job[w].event] \in Payload /\ job[w].event \in Event
        /\ WriterOf[job[w].event] = w
        /\ w \notin Collect /\ job[w].ref # NoPayload =>
              blobs[Whose(w)][job[w].ref] = "whole"
    BY <1>0, <1>3 DEF TypeInv, RefsInv, WriteTemp, At
  <2>2. j \in Job /\ j.at = "rename" /\ j.event = job[w].event /\ j.ref = job[w].ref
    BY <1>0 DEF Job
  <2>3. ~At(w, "writing") /\ job' = [job EXCEPT ![w] = j] /\ blobs' = blobs
    BY <1>3 DEF WriteTemp, At, Moves, Temp
  <2> HIDE DEF j
  <2> QED
    BY <1>0, <1>3, <2>1, <2>2, <2>3, JobStep DEF WriteTemp, Whose
<1>4. ASSUME Rename(w) PROVE FileStoreInv' /\ AllLinesStay
  <2> DEFINE p == PayloadOf[job[w].event]
             j == [job[w] EXCEPT !.at = "append", !.ref = p]
  <2>1. /\ p \in Payload /\ job[w].event \in Event /\ Whose(w) \in Tenant
        /\ WriterOf[job[w].event] = w
    BY <1>0, <1>4 DEF TypeInv, Rename, At
  <2>2. j \in Job /\ j.at = "append" /\ j.event = job[w].event /\ j.ref = p
    BY <1>0, <2>1 DEF Job
  <2>3. /\ ~At(w, "writing") /\ job' = [job EXCEPT ![w] = j]
        /\ blobs' = [blobs EXCEPT ![Whose(w)][p] = "whole"]
    BY <1>4 DEF Rename, At, Names
  <2> HIDE DEF j, p
  <2>4. /\ blobs' \in [Tenant -> [Payload -> {"absent", "whole"}]]
        /\ blobs'[Whose(w)][p] = "whole"
        /\ \A t \in Tenant, q \in Payload :
              blobs[t][q] = "whole" => blobs'[t][q] = "whole"
    BY <1>0, <2>1, <2>3
  <2>5. blobs'[TenantOf[j.event]][j.ref] = "whole"
    BY <2>2, <2>4 DEF Whose
  <2>6. \A t \in Tenant : holder[t] # NoWriter => open'[t] = open[t]
    BY <1>4 DEF Rename
  <2>7. /\ open' \in [Tenant -> 0..MaxDay] /\ failed' \in [Tenant -> BOOLEAN]
        /\ UNCHANGED <<logs, holder, parts, reading, confirmed>>
    BY <1>0, <1>4 DEF Rename
  <2> QED
    BY <2>1, <2>2, <2>3, <2>4, <2>5, <2>6, <2>7, JobStep
<1>5. ASSUME PutBlobFails(w) PROVE FileStoreInv' /\ AllLinesStay
  <2>0. Waiting \in Job /\ Waiting.at = "waiting"
    BY DEF Waiting, Job
  <2>1. CASE GivesUp(w)
    BY <1>0, <1>5, <2>0, <2>1, JobStep DEF PutBlobFails, GivesUp, At
  <2>2. CASE Moves(w, "append")
    <3> DEFINE j == [job[w] EXCEPT !.at = "append"]
    <3>1. /\ job[w].event \in Event /\ WriterOf[job[w].event] = w
          /\ w \notin Collect /\ job[w].ref # NoPayload =>
                blobs[Whose(w)][job[w].ref] = "whole"
      BY <1>0, <1>5 DEF RefsInv, PutBlobFails, At
    <3>2. j \in Job /\ j.at = "append" /\ j.event = job[w].event /\ j.ref = job[w].ref
      BY <1>0 DEF Job
    <3>3. ~At(w, "writing") /\ job' = [job EXCEPT ![w] = j]
      BY <1>5, <2>2 DEF PutBlobFails, At, Moves
    <3> HIDE DEF j
    <3> QED
      BY <1>0, <1>5, <3>1, <3>2, <3>3, JobStep DEF PutBlobFails, Whose
  <2> QED
    BY <1>5, <2>1, <2>2 DEF PutBlobFails
<1> QED
  BY <1>1, <1>2, <1>3, <1>4, <1>5

LEMMA RefusedStep ==
    ASSUME FileStoreInv, NEW w \in Writer, AppendRefused(w)
    PROVE  FileStoreInv' /\ AllLinesStay
<1> USE DEF FileStoreInv
<1>1. Waiting \in Job /\ Waiting.at = "waiting"
  BY DEF Waiting, Job
<1>2. /\ open' \in [Tenant -> 0..MaxDay] /\ failed' \in [Tenant -> BOOLEAN]
      /\ \A t \in Tenant : holder[t] # NoWriter => open'[t] = open[t]
  <2>1. 0 \in 0..MaxDay
    BY FileStoreAssumption
  <2>2. \/ UNCHANGED <<open, failed>>
        \/ /\ holder[Whose(w)] = NoWriter
           /\ open' = [open EXCEPT ![Whose(w)] = 0]
           /\ failed' = [failed EXCEPT ![Whose(w)] = FALSE]
    BY DEF AppendRefused
  <2> QED
    BY <2>1, <2>2 DEF TypeInv
<1>3. /\ job' = [job EXCEPT ![w] = Waiting] /\ ~At(w, "writing")
      /\ UNCHANGED <<logs, holder, blobs, parts, reading, confirmed>>
  BY DEF AppendRefused, GivesUp, At, archive
<1>4. blobs \in [Tenant -> [Payload -> {"absent", "whole"}]]
  BY DEF TypeInv
<1> QED
  BY <1>1, <1>2, <1>3, <1>4, JobStep

\* Every confirmed event is among those of a log that can be read to its end.
LEMMA ReadsConfirmed ==
    ASSUME FileStoreInv, NEW t \in Tenant, NEW d \in Day, ~Undecodable(logs[t][d])
    PROVE  /\ EventsIn(logs[t][d]) \subseteq Event
           /\ OfDay(confirmed, t, d) \subseteq EventsIn(logs[t][d])
<1>1. EventsIn(logs[t][d]) \subseteq Event
  BY LinesTyped DEF FileStoreInv, Line, EventsIn, Decoded
<1>2. ASSUME NEW e \in confirmed, TenantOf[e] = t, DayOf[e] = d
      PROVE  e \in EventsIn(logs[t][d])
  BY <1>2 DEF FileStoreInv, ConfirmedInv, EventsIn, Undecodable
<1> QED
  BY <1>1, <1>2 DEF OfDay

\* Closing a log nobody writes, and the sweep, which reads the logs.
LEMMA SweepSteps ==
    ASSUME FileStoreInv, NEW t \in Tenant, NEW d \in Day,
           \/ StartSweep \/ Close(t) \/ SweepTenant(t)
           \/ ReadDay(t, d) \/ PutDay(t, d)
    PROVE  FileStoreInv' /\ AllLinesStay
<1> USE DEF FileStoreInv, store
<1>1. UNCHANGED <<logs, holder, blobs, job, confirmed>>
  BY DEF StartSweep, Close, SweepTenant, ReadDay, PutDay, archive
<1>2. /\ open' \in [Tenant -> 0..MaxDay] /\ failed' \in [Tenant -> BOOLEAN]
      /\ \A u \in Tenant : holder[u] # NoWriter => open'[u] = open[u]
  <2>1. CASE Close(t)
    <3>1. 0 \in 0..MaxDay
      BY FileStoreAssumption
    <3> QED
      BY <2>1, <3>1 DEF Close, TypeInv
  <2>2. CASE UNCHANGED <<open, failed>>
    BY <2>2 DEF TypeInv
  <2> QED
    BY <2>1, <2>2 DEF StartSweep, SweepTenant, ReadDay, PutDay
<1>3. parts' \in [Tenant -> [Day -> SUBSET Event]]
  <2>1. parts \in [Tenant -> [Day -> SUBSET Event]]
    BY DEF TypeInv
  <2>2. CASE UNCHANGED parts
    BY <2>1, <2>2
  <2>3. ASSUME PutDay(t, d) PROVE parts' \in [Tenant -> [Day -> SUBSET Event]]
    <3>1. reading.events \in SUBSET Event
      BY <2>3, FileStoreAssumption DEF PutDay, ReadingInv, Tenant
    <3>2. ASSUME NEW E \in SUBSET Event, parts' = [parts EXCEPT ![t][d] = E]
          PROVE  parts' \in [Tenant -> [Day -> SUBSET Event]]
      BY <2>1, <3>2
    <3> QED
      BY <2>2, <2>3, <3>1, <3>2 DEF PutDay
  <2> QED
    BY <2>2, <2>3 DEF StartSweep, Close, SweepTenant, ReadDay, archive
<1>4. ReadingInv'
  <2>1. CASE UNCHANGED reading
    BY <2>1 DEF ReadingInv
  <2>2. CASE reading' = NotReading
    BY <2>2 DEF ReadingInv, NotReading
  <2>3. CASE /\ ~Undecodable(logs[t][d])
             /\ reading' = [tenant |-> t, day |-> d, events |-> EventsIn(logs[t][d]),
                            before |-> OfDay(confirmed, t, d)]
    BY <2>3, ReadsConfirmed DEF ReadingInv
  <2> QED
    BY <2>1, <2>2, <2>3 DEF StartSweep, Close, SweepTenant, ReadDay, PutDay, Unreadable,
                            archive
<1>5. TypeInv'
  BY <1>1, <1>2, <1>3 DEF TypeInv, At
<1>6. RefsInv' /\ ConfirmedInv' /\ AllLinesStay
  BY <1>1 DEF RefsInv, ConfirmedInv, AllLinesStay, LinesStay, At, Whose, Here
<1>7. HolderInv'
  BY <1>1, <1>2 DEF HolderInv, At, Whose, On
<1> QED
  BY <1>4, <1>5, <1>6, <1>7

-----------------------------------------------------------------------------
(* The steps of a write.                                                   *)

\* The line a write begins is the last of its log, and not whole.
LEMMA BeginStep ==
    ASSUME FileStoreInv, NEW w \in Writer, BeginAppend(w)
    PROVE  FileStoreInv' /\ AllLinesStay
<1> USE DEF FileStoreInv
<1> DEFINE t == Whose(w)
           d == On(w)
           log == logs[t][d]
           line == [event |-> job[w].event, ref |-> job[w].ref, whole |-> FALSE]
           j == [job[w] EXCEPT !.at = "writing"]
<1>1. /\ At(w, "append") /\ job[w] \in Job /\ job[w].event \in Event
      /\ t \in Tenant /\ d \in Day /\ holder[t] = NoWriter
  BY FileStoreAssumption DEF BeginAppend, TypeInv, At, Whose, On
<1>2. log \in Seq(Line)
  BY <1>1, LinesTyped
<1>3. line \in Line /\ ~line.whole /\ line.event = job[w].event /\ line.ref = job[w].ref
  BY <1>1 DEF Line, Job
<1>4. /\ j \in Job /\ j.at = "writing" /\ j.event = job[w].event
      /\ j.ref = job[w].ref
  BY <1>1 DEF Job
<1>5. /\ logs' = [logs EXCEPT ![t][d] = Append(log, line)]
      /\ open' = [open EXCEPT ![t] = d]
      /\ failed' = [failed EXCEPT ![t] = FALSE]
      /\ holder' = [holder EXCEPT ![t] = w]
      /\ job' = [job EXCEPT ![w] = j]
      /\ UNCHANGED <<blobs, parts, reading, confirmed>>
  BY DEF BeginAppend, Opened, Moves, archive
<1>6. /\ WriterOf[job[w].event] = w
      /\ Here(line) /\ line.ref # NoPayload => blobs[t][line.ref] = "whole"
  BY <1>1, <1>3 DEF RefsInv, TypeInv, At, Here
<1> HIDE DEF line, j
<1> DEFINE new == Append(log, line)
<1>7. /\ new \in Seq(Line) /\ new # <<>> /\ Len(new) = Len(log) + 1
      /\ DOMAIN new = 1..(Len(log) + 1) /\ DOMAIN log = 1..Len(log)
      /\ Len(log) \in Nat
      /\ new[Len(new)] = line /\ \A i \in DOMAIN log : i \in DOMAIN new /\ new[i] = log[i]
      /\ \A i \in DOMAIN new : i \in DOMAIN log \/ new[i] = line
  BY <1>2, <1>3
<1> HIDE DEF new, log
<1>8. \A u \in Tenant, e \in Day :
         logs'[u][e] = IF u = t /\ e = d THEN new ELSE logs[u][e]
  BY <1>1, <1>5 DEF TypeInv, new
<1>9. \A v \in Writer : job'[v] = IF v = w THEN j ELSE job[v]
  BY <1>5 DEF TypeInv
<1>10. Whose(w)' = t /\ On(w)' = d
  BY <1>4, <1>9 DEF Whose, On
<1>11. \A v \in Writer : v # w => Whose(v)' = Whose(v) /\ On(v)' = On(v)
                                  /\ \A at : At(v, at)' = At(v, at)
  BY <1>9 DEF Whose, On, At
<1> HIDE DEF t, d
<1>12. TypeInv'
  <2>1. logs' \in [Tenant -> [Day -> Seq(Line)]]
    BY <1>1, <1>5, <1>7 DEF TypeInv, new
  <2>2. /\ open' \in [Tenant -> 0..MaxDay] /\ failed' \in [Tenant -> BOOLEAN]
        /\ holder' \in [Tenant -> Writer \cup {NoWriter}]
    BY <1>1, <1>5, FileStoreAssumption DEF TypeInv, Day
  <2>3. job' \in [Writer -> Job]
    BY <1>4, <1>5 DEF TypeInv
  <2> QED
    BY <1>1, <1>4, <1>5, <1>9, <2>1, <2>2, <2>3 DEF TypeInv, At
<1>13. RefsInv'
  <2>1. ASSUME NEW u \in Tenant, NEW e \in Day, NEW i \in DOMAIN logs'[u][e],
               Here(logs'[u][e][i]), logs'[u][e][i].ref # NoPayload
        PROVE  blobs'[u][logs'[u][e][i].ref] = "whole"
    <3>1. CASE u = t /\ e = d
      BY <1>1, <1>5, <1>6, <1>7, <1>8, <2>1, <3>1 DEF RefsInv, log
    <3>2. CASE ~(u = t /\ e = d)
      BY <1>5, <1>8, <2>1, <3>2 DEF RefsInv
    <3> QED
      BY <3>1, <3>2
  <2>2. \A v \in Writer \ Collect : ~At(v, "waiting")' /\ job'[v].ref # NoPayload =>
           blobs'[Whose(v)'][job'[v].ref] = "whole"
    BY <1>1, <1>3, <1>4, <1>5, <1>6, <1>9, <1>10, <1>11 DEF RefsInv, Here
  <2> QED
    BY <2>1, <2>2 DEF RefsInv, Here
<1>14. HolderInv'
  <2>1. \A u \in Tenant : holder'[u] = IF u = t THEN w ELSE holder[u]
    BY <1>5 DEF TypeInv
  <2>2. \A u \in Tenant : open'[u] = IF u = t THEN d ELSE open[u]
    BY <1>5 DEF TypeInv
  <2>3. \A u \in Tenant : holder[u] # NoWriter => holder[u] \in Writer /\ holder[u] # w
    BY <1>1 DEF TypeInv, HolderInv, At
  <2>4. At(w, "writing")'
    BY <1>4, <1>9 DEF At
  <2>5. ASSUME NEW u \in Tenant, holder'[u] # NoWriter
        PROVE  /\ At(holder[u], "writing")' /\ Whose(holder[u])' = u
               /\ open'[u] = On(holder[u])'
    <3>1. CASE u = t
      BY <1>10, <2>1, <2>2, <2>4, <3>1
    <3>2. CASE u # t
      BY <1>9, <2>1, <2>2, <2>3, <2>5, <3>2 DEF HolderInv, At, Whose, On
    <3> QED
      BY <3>1, <3>2
  <2>6. ASSUME NEW v \in Writer, At(v, "writing")'
        PROVE  LET l == logs'[Whose(v)'][On(v)']
               IN /\ holder'[Whose(v)'] = v
                  /\ l # <<>> /\ ~l[Len(l)].whole
                  /\ l[Len(l)].event = job'[v].event
    <3>1. CASE v = w
      BY <1>1, <1>3, <1>4, <1>7, <1>8, <1>9, <1>10, <2>1, <3>1
    <3>2. CASE v # w
      <4>1. At(v, "writing") /\ Whose(v) \in Tenant /\ On(v) \in Day
        BY <1>11, <2>6, <3>2, FileStoreAssumption DEF TypeInv, At, Whose, On
      <4>2. Whose(v) # t
        BY <1>1, <4>1, FileStoreAssumption DEF HolderInv
      <4> QED
        BY <1>8, <1>9, <1>11, <2>1, <3>2, <4>1, <4>2 DEF HolderInv
    <3> QED
      BY <3>1, <3>2
  <2> QED
    BY <2>5, <2>6 DEF HolderInv
<1>15. AllLinesStay
  BY <1>7, <1>8 DEF AllLinesStay, LinesStay, log
<1>16. ConfirmedInv'
  <2>1. confirmed \subseteq Event
    BY DEF TypeInv
  <2> QED
    BY <1>5, <1>15, <2>1, ConfirmedStays DEF ConfirmedInv
<1>17. ReadingInv'
  BY <1>5 DEF ReadingInv
<1> QED
  BY <1>12, <1>13, <1>14, <1>15, <1>16, <1>17

\* A write ends, well or not, and its event is confirmed only if well.
LEMMA EndStep ==
    ASSUME FileStoreInv, NEW w \in Writer, At(w, "writing"),
           NEW how \in {"whole", "torn", "none"},
           logs' = [logs EXCEPT ![Whose(w)][On(w)] =
                       Ends(logs[Whose(w)][On(w)], how)],
           holder' = [holder EXCEPT ![Whose(w)] = NoWriter],
           job' = [job EXCEPT ![w] = Waiting],
           failed' \in [Tenant -> BOOLEAN],
           \/ UNCHANGED confirmed
           \/ how = "whole" /\ confirmed' = confirmed \cup {job[w].event},
           UNCHANGED <<open, blobs, parts, reading>>
    PROVE  FileStoreInv' /\ AllLinesStay
<1> USE DEF FileStoreInv
<1> DEFINE t == Whose(w)
           d == On(w)
           log == logs[t][d]
           new == Ends(log, how)
<1>1. /\ job[w].event \in Event /\ t \in Tenant /\ d \in Day /\ w # NoWriter
      /\ t = TenantOf[job[w].event] /\ d = DayOf[job[w].event]
  BY FileStoreAssumption DEF TypeInv, At, Whose, On
<1>2. /\ holder[t] = w /\ log # <<>> /\ ~log[Len(log)].whole
      /\ log[Len(log)].event = job[w].event /\ log \in Seq(Line)
  BY <1>1, LinesTyped DEF HolderInv
<1>3. /\ new \in Seq(Line) /\ LinesStay(log, new)
      /\ \A i \in DOMAIN new : /\ i \in DOMAIN log /\ new[i].ref = log[i].ref
                                /\ new[i].event = log[i].event
      /\ how = "whole" =>
           Len(log) \in DOMAIN new /\ new[Len(log)].whole
              /\ new[Len(log)].event = job[w].event
  BY <1>2, EndsTouchesLast
<1>4. Waiting \in Job /\ Waiting.at = "waiting"
  BY DEF Waiting, Job
<1> HIDE DEF new, log, t, d
<1>5. \A u \in Tenant, e \in Day :
         logs'[u][e] = IF u = t /\ e = d THEN new ELSE logs[u][e]
  BY <1>1 DEF TypeInv, new, log, t, d
<1>6. \A v \in Writer : job'[v] = IF v = w THEN Waiting ELSE job[v]
  BY DEF TypeInv
<1>7. TypeInv'
  <2>1. logs' \in [Tenant -> [Day -> Seq(Line)]]
    BY <1>1, <1>3 DEF TypeInv, new, log, t, d
  <2>2. holder' \in [Tenant -> Writer \cup {NoWriter}]
    BY DEF TypeInv
  <2>3. job' \in [Writer -> Job]
    BY <1>4 DEF TypeInv
  <2>4. confirmed' \subseteq Event
    BY <1>1 DEF TypeInv
  <2> QED
    BY <1>4, <1>6, <2>1, <2>2, <2>3, <2>4 DEF TypeInv, At
<1>8. RefsInv'
  <2>1. ASSUME NEW u \in Tenant, NEW e \in Day, NEW i \in DOMAIN logs'[u][e],
               Here(logs'[u][e][i]), logs'[u][e][i].ref # NoPayload
        PROVE  blobs'[u][logs'[u][e][i].ref] = "whole"
    <3>1. CASE u = t /\ e = d
      <4>1. logs'[u][e] = new
        BY <1>5, <3>1
      <4>2. /\ i \in DOMAIN logs[t][d] /\ logs[t][d][i].ref # NoPayload
            /\ logs'[u][e][i].ref = logs[t][d][i].ref /\ Here(logs[t][d][i])
        BY <1>3, <2>1, <4>1 DEF log, Here
      <4>3. blobs[t][logs[t][d][i].ref] = "whole"
        BY <1>1, <4>2 DEF RefsInv
      <4> QED
        BY <3>1, <4>2, <4>3
    <3>2. CASE ~(u = t /\ e = d)
      BY <1>5, <2>1, <3>2 DEF RefsInv
    <3> QED
      BY <3>1, <3>2
  <2>2. \A v \in Writer \ Collect : ~At(v, "waiting")' /\ job'[v].ref # NoPayload =>
           blobs'[Whose(v)'][job'[v].ref] = "whole"
    BY <1>4, <1>6 DEF RefsInv, At, Whose
  <2> QED
    BY <2>1, <2>2 DEF RefsInv, Here
<1>9. HolderInv'
  <2>1. \A u \in Tenant : holder'[u] = IF u = t THEN NoWriter ELSE holder[u]
    BY DEF TypeInv, t
  <2>2. ASSUME NEW u \in Tenant, holder'[u] # NoWriter
        PROVE  /\ At(holder[u], "writing")' /\ Whose(holder[u])' = u
               /\ open'[u] = On(holder[u])'
    <3>1. u # t /\ holder'[u] = holder[u] /\ holder[u] # NoWriter
      BY <2>1, <2>2
    <3>2. holder[u] \in Writer /\ holder[u] # w
      BY <3>1 DEF TypeInv, HolderInv, t
    <3>3. job'[holder'[u]] = job[holder[u]]
      BY <1>6, <3>1, <3>2
    <3>4. /\ job[holder[u]].at = "writing"
          /\ TenantOf[job[holder[u]].event] = u
          /\ open[u] = DayOf[job[holder[u]].event]
      BY <3>1 DEF HolderInv, At, Whose, On
    <3> QED
      BY <3>3, <3>4 DEF At, Whose, On
  <2>3. ASSUME NEW v \in Writer, At(v, "writing")'
        PROVE  LET l == logs'[Whose(v)'][On(v)']
               IN /\ holder'[Whose(v)'] = v
                  /\ l # <<>> /\ ~l[Len(l)].whole
                  /\ l[Len(l)].event = job'[v].event
    <3>1. v # w /\ job'[v] = job[v]
      BY <1>4, <1>6, <2>3 DEF At
    <3>2. At(v, "writing") /\ Whose(v)' = Whose(v) /\ On(v)' = On(v)
      BY <2>3, <3>1 DEF At, Whose, On
    <3>3. Whose(v) \in Tenant /\ On(v) \in Day
      BY <3>2, FileStoreAssumption DEF TypeInv, At, Whose, On
    <3>4. Whose(v) # t
      BY <1>2, <3>1, <3>2 DEF HolderInv
    <3> QED
      BY <1>5, <2>1, <3>1, <3>2, <3>3, <3>4 DEF HolderInv
  <2> QED
    BY <2>2, <2>3 DEF HolderInv
<1>10. AllLinesStay
  BY <1>3, <1>5 DEF AllLinesStay, LinesStay, log
<1>11. ConfirmedInv'
  <2>1. \A e \in confirmed :
           \E i \in DOMAIN logs'[TenantOf[e]][DayOf[e]] :
              LET line == logs'[TenantOf[e]][DayOf[e]][i]
              IN line.event = e /\ line.whole
    <3>1. confirmed \subseteq Event
      BY DEF TypeInv
    <3> QED
      BY <1>10, <3>1, ConfirmedStays
  <2>2. CASE UNCHANGED confirmed
    BY <2>1, <2>2 DEF ConfirmedInv
  <2>3. CASE how = "whole" /\ confirmed' = confirmed \cup {job[w].event}
    <3> DEFINE f == job[w].event
    <3>1. \E i \in DOMAIN logs'[TenantOf[f]][DayOf[f]] :
             LET line == logs'[TenantOf[f]][DayOf[f]][i]
             IN line.event = f /\ line.whole
      <4>1. logs'[TenantOf[f]][DayOf[f]] = new
        BY <1>1, <1>5
      <4> QED
        BY <1>3, <2>3, <4>1
    <3> HIDE DEF f
    <3>2. ASSUME NEW e \in confirmed'
          PROVE  \E i \in DOMAIN logs'[TenantOf[e]][DayOf[e]] :
                    LET line == logs'[TenantOf[e]][DayOf[e]][i]
                    IN line.event = e /\ line.whole
      <4>1. CASE e \in confirmed
        BY <2>1, <4>1
      <4>2. CASE e = f
        BY <3>1, <4>2
      <4> QED
        BY <2>3, <4>1, <4>2 DEF f
    <3> QED
      BY <3>2 DEF ConfirmedInv
  <2> QED
    BY <2>2, <2>3
<1>12. ReadingInv'
  BY DEF ReadingInv
<1> QED
  BY <1>7, <1>8, <1>9, <1>10, <1>11, <1>12

LEMMA WriteEnds ==
    ASSUME FileStoreInv, NEW w \in Writer, FinishAppend(w) \/ FailAppend(w)
    PROVE  FileStoreInv' /\ AllLinesStay
<1>1. failed' \in [Tenant -> BOOLEAN]
  BY DEF FileStoreInv, TypeInv, FinishAppend, FailAppend
<1>2. CASE FinishAppend(w)
  <2>1. logs' = [logs EXCEPT ![Whose(w)][On(w)] =
                    Ends(logs[Whose(w)][On(w)], "whole")]
    BY <1>2 DEF FinishAppend
  <2> QED
    BY <1>1, <1>2, <2>1, EndStep DEF FinishAppend, GivesUp, archive
<1>3. CASE FailAppend(w)
  <2>1. PICK how \in {"torn", "none"} :
           logs' = [logs EXCEPT ![Whose(w)][On(w)] =
                       Ends(logs[Whose(w)][On(w)], how)]
    BY <1>3 DEF FailAppend
  <2> QED
    BY <1>1, <1>3, <2>1, EndStep DEF FailAppend, GivesUp, archive
<1> QED
  BY <1>2, <1>3

\* Every write under way ends with the process, one way or the other.
LEMMA CrashStep ==
    ASSUME FileStoreInv, Crash
    PROVE  FileStoreInv' /\ AllLinesStay
<1> USE DEF FileStoreInv
<1>1. PICK how \in [Tenant -> {"whole", "torn", "none"}] :
         logs' = [t \in Tenant |-> [d \in Day |->
                    IF holder[t] # NoWriter /\ open[t] = d
                    THEN Ends(logs[t][d], how[t]) ELSE logs[t][d]]]
  BY DEF Crash
<1>2. Waiting \in Job /\ Waiting.at = "waiting" /\ 0 \in 0..MaxDay
  BY FileStoreAssumption DEF Waiting, Job
<1>3. ASSUME NEW t \in Tenant, NEW d \in Day
      PROVE  /\ logs'[t][d] \in Seq(Line)
             /\ LinesStay(logs[t][d], logs'[t][d])
             /\ \A i \in DOMAIN logs'[t][d] :
                   /\ i \in DOMAIN logs[t][d]
                   /\ logs'[t][d][i].ref = logs[t][d][i].ref
                   /\ logs'[t][d][i].event = logs[t][d][i].event
  <2>1. logs[t][d] \in Seq(Line)
    BY LinesTyped
  <2>2. CASE holder[t] # NoWriter /\ open[t] = d
    <3>1. /\ holder[t] \in Writer /\ At(holder[t], "writing")
          /\ Whose(holder[t]) = t /\ On(holder[t]) = d
      BY <2>2 DEF TypeInv, HolderInv
    <3>2. logs[t][d] # <<>> /\ ~logs[t][d][Len(logs[t][d])].whole
      BY <3>1 DEF HolderInv
    <3>3. logs'[t][d] = Ends(logs[t][d], how[t]) /\ how[t] \in {"whole", "torn", "none"}
      BY <1>1, <2>2
    <3> QED
      BY <2>1, <3>2, <3>3, EndsTouchesLast
  <2>3. CASE ~(holder[t] # NoWriter /\ open[t] = d)
    <3>1. logs'[t][d] = logs[t][d]
      BY <1>1, <2>3
    <3> QED
      BY <2>1, <3>1 DEF LinesStay
  <2> QED
    BY <2>2, <2>3
<1>4. TypeInv'
  <2>1. logs' \in [Tenant -> [Day -> Seq(Line)]]
    <3>1. DOMAIN logs' = Tenant /\ \A t \in Tenant : DOMAIN logs'[t] = Day
      BY <1>1
    <3>2. logs' = [t \in Tenant |-> [d \in Day |-> logs'[t][d]]]
      BY <1>1
    <3> QED
      BY <1>3, <3>1, <3>2
  <2>2. /\ open' \in [Tenant -> 0..MaxDay] /\ failed' \in [Tenant -> BOOLEAN]
        /\ holder' \in [Tenant -> Writer \cup {NoWriter}]
        /\ job' \in [Writer -> Job] /\ UNCHANGED <<blobs, parts, confirmed>>
        /\ \A w \in Writer : job'[w] = Waiting
    BY <1>2 DEF Crash
  <2> QED
    BY <1>2, <2>1, <2>2 DEF TypeInv, At
<1>5. RefsInv'
  <2>1. UNCHANGED blobs /\ \A w \in Writer : At(w, "waiting")'
    BY <1>2 DEF Crash, At
  <2> QED
    BY <1>3, <2>1 DEF RefsInv, Here
<1>6. HolderInv'
  BY <1>2 DEF HolderInv, Crash, At
<1>7. AllLinesStay
  BY <1>3 DEF AllLinesStay
<1>8. ConfirmedInv'
  <2>1. confirmed \subseteq Event /\ UNCHANGED confirmed
    BY DEF TypeInv, Crash
  <2> QED
    BY <1>7, <2>1, ConfirmedStays DEF ConfirmedInv
<1>9. ReadingInv'
  BY DEF Crash, ReadingInv, NotReading
<1> QED
  BY <1>4, <1>5, <1>6, <1>7, <1>8, <1>9

LEMMA StepInv == FileStoreInv /\ [Next]_vars => FileStoreInv' /\ AllLinesStay
<1> SUFFICES ASSUME FileStoreInv, [Next]_vars
             PROVE  FileStoreInv' /\ AllLinesStay
  OBVIOUS
<1>1. ASSUME NEW w \in Writer,
             \/ \E e \in Event : Take(w, e)
             \/ Stat(w) \/ WriteTemp(w) \/ Rename(w) \/ PutBlobFails(w)
             \/ BeginAppend(w) \/ AppendRefused(w) \/ FinishAppend(w)
             \/ FailAppend(w)
      PROVE  FileStoreInv' /\ AllLinesStay
  BY <1>1, PayloadSteps, BeginStep, RefusedStep, WriteEnds
<1>2. CASE StartSweep
  <2>1. 1 \in Tenant /\ 1 \in Day
    BY FileStoreAssumption DEF Tenant, Day
  <2> QED
    BY <1>2, <2>1, SweepSteps
<1>3. ASSUME NEW t \in Tenant,
             \/ Close(t) \/ SweepTenant(t)
             \/ \E d \in Day : ReadDay(t, d) \/ PutDay(t, d)
      PROVE  FileStoreInv' /\ AllLinesStay
  <2>1. 1 \in Day
    BY FileStoreAssumption DEF Day
  <2> QED
    BY <1>3, <2>1, SweepSteps
<1>4. CASE Crash
  BY <1>4, CrashStep
<1>5. CASE UNCHANGED vars
  <2>1. UNCHANGED <<logs, open, failed, holder, blobs, job, parts, reading, confirmed>>
    BY <1>5 DEF vars, store, archive
  <2>2. TypeInv'
    BY <2>1 DEF FileStoreInv, TypeInv, At
  <2>3. RefsInv'
    BY <2>1 DEF FileStoreInv, RefsInv, At, Whose, Here
  <2>4. HolderInv'
    BY <2>1 DEF FileStoreInv, HolderInv, At, Whose, On
  <2>5. ConfirmedInv' /\ ReadingInv' /\ AllLinesStay
    BY <2>1 DEF FileStoreInv, ConfirmedInv, ReadingInv, AllLinesStay, LinesStay
  <2> QED
    BY <2>2, <2>3, <2>4, <2>5 DEF FileStoreInv
<1> QED
  BY <1>1, <1>2, <1>3, <1>4, <1>5 DEF Next, Sweep, WriteReturns

LEMMA Invariance == Spec => []FileStoreInv
BY InitInv, StepInv, PTL DEF Spec

-----------------------------------------------------------------------------
\* An event that was captured here, by the ingester or the proxy, and can be read
\* names no payload but one that is there in full (store.go:106, ingest.go:162).
THEOREM PayloadsAreThere == Spec => []NamedPayloadsWhole
<1>1. FileStoreInv => NamedPayloadsWhole
  BY DEF FileStoreInv, RefsInv, NamedPayloadsWhole, Decoded, Here
<1> QED
  BY <1>1, Invariance, PTL

\* Rotation, failures and kills take nothing back that could be read, nor move
\* it (store.go:90).
THEOREM NothingUnread == Spec => ReadableStays
<1> DEFINE Stay == \A t \in Tenant, d \in Day : \A i \in Decoded(logs[t][d]) :
                      i \in Decoded(logs'[t][d]) /\ logs'[t][d][i] = logs[t][d][i]
<1>1. FileStoreInv /\ [Next]_vars => Stay
  <2> SUFFICES ASSUME FileStoreInv, [Next]_vars, NEW t \in Tenant, NEW d \in Day,
                      NEW i \in Decoded(logs[t][d])
               PROVE  /\ i \in Decoded(logs'[t][d])
                      /\ logs'[t][d][i] = logs[t][d][i]
    OBVIOUS
  <2>1. LinesStay(logs[t][d], logs'[t][d])
    BY StepInv DEF AllLinesStay
  <2>2. logs[t][d] \in Seq(Line) /\ DOMAIN logs[t][d] = 1..Len(logs[t][d])
    BY LinesTyped DEF FileStoreInv
  <2>3. /\ i \in DOMAIN logs[t][d]
        /\ \A j \in 1..i : j \in DOMAIN logs[t][d] /\ logs[t][d][j].whole
    BY <2>2 DEF Decoded
  <2>4. \A j \in 1..i : j \in DOMAIN logs'[t][d] /\ logs'[t][d][j] = logs[t][d][j]
    BY <2>1, <2>3 DEF LinesStay
  <2>5. i \in 1..i
    BY <2>2, <2>3
  <2> QED
    BY <2>3, <2>4, <2>5 DEF Decoded
<1>2. FileStoreInv /\ [Next]_vars => [Stay]_logs
  BY <1>1
<1> HIDE DEF Stay
<1>3. Spec => [][Stay]_logs
  BY <1>2, Invariance, PTL DEF Spec
<1> QED
  BY <1>3 DEF ReadableStays, Stay

\* No event that had been confirmed when its day was read is left out of the
\* partition, whatever was appended before that was written (compact.go:122).
THEOREM NothingConfirmedLeftOut == Spec => PartitionTakesConfirmed
<1> DEFINE Takes == \A t \in Tenant, d \in Day : parts'[t][d] # parts[t][d] =>
                       reading.before \subseteq parts'[t][d]
<1>1. FileStoreInv /\ [Next]_vars => Takes
  <2> SUFFICES ASSUME FileStoreInv, [Next]_vars, NEW t \in Tenant, NEW d \in Day,
                      parts'[t][d] # parts[t][d]
               PROVE  reading.before \subseteq parts'[t][d]
    OBVIOUS
  <2>1. PICK u \in Tenant, f \in Day : PutDay(u, f)
    BY DEF Next, Sweep, WriteReturns, Take, Stat, WriteTemp, Rename, PutBlobFails,
           BeginAppend, AppendRefused, FinishAppend, FailAppend, StartSweep, Close,
           SweepTenant, ReadDay, Crash, vars, archive
  <2>2. /\ parts' = [parts EXCEPT ![u][f] = reading.events]
        /\ reading.tenant # 0
    <3>1. parts' # parts
      OBVIOUS
    <3>2. parts' = [parts EXCEPT ![u][f] = reading.events] /\ reading.tenant = u
      BY <2>1, <3>1 DEF PutDay
    <3>3. u # 0
      BY FileStoreAssumption DEF Tenant
    <3> QED
      BY <3>2, <3>3
  <2>3. u = t /\ f = d /\ parts'[t][d] = reading.events
    BY <2>2 DEF FileStoreInv, TypeInv
  <2> QED
    BY <2>2, <2>3 DEF FileStoreInv, ReadingInv
<1>2. FileStoreInv /\ [Next]_vars => [Takes]_parts
  BY <1>1
<1> QED
  BY <1>2, Invariance, PTL DEF Spec, PartitionTakesConfirmed

=============================================================================
