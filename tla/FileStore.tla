----------------------------- MODULE FileStore ------------------------------
(***************************************************************************)
(* The hot window on files (internal/store): per tenant one JSON line per  *)
(* event in one log per day, and the payloads that events refer to, each   *)
(* in a file named by its hash.  Whoever writes does so from goroutines of *)
(* its own: the ingester and the proxy, which store a payload before they  *)
(* name it, and the endpoint collectors ship to, which stores none and     *)
(* takes the references its events carry.  runCompaction (cmd/trace-portal)*)
(* sweeps the tenants meanwhile.                                           *)
(*                                                                         *)
(* The process may be killed at any step, and a write may fail and leave a *)
(* part of its bytes.  What is left then and what is appended behind it    *)
(* are one line that no reader can decode.                                 *)
(*                                                                         *)
(* Bound: the days of the events are over, so each may be compacted at any *)
(* time.  The order in which CompactDay puts its files is module Archive.  *)
(***************************************************************************)
EXTENDS Integers, Sequences, FiniteSets

CONSTANTS
    MaxTenant,   \* the tenants with data on disk, in the order of their names
    Event,       \* what is captured
    TenantOf,    \* event -> whose it is
    DayOf,       \* event -> the day of its timestamp
    Payload,     \* what events refer to
    PayloadOf,   \* event -> its payload, NoPayload for none
    NoPayload,
    Writer,      \* what may be writing at the same time
    Collect,     \* the writers that are requests to the collect endpoint
    WriterOf,    \* event -> who captures it or has it shipped
    NoWriter,
    MaxDay,      \* the days are 1..MaxDay
    Earlier,     \* tenant -> day -> the lines an earlier run has left
    MaxFailures  \* bound: writes, opens and renames that fail, and kills

Tenant == 1..MaxTenant
Day == 1..MaxDay

ASSUME FileStoreAssumption ==
    /\ MaxTenant \in Nat \ {0} /\ MaxDay \in Nat \ {0} /\ MaxFailures \in Nat
    /\ TenantOf \in [Event -> Tenant] /\ DayOf \in [Event -> Day]
    /\ NoPayload \notin Payload /\ PayloadOf \in [Event -> Payload \cup {NoPayload}]
    /\ Collect \subseteq Writer
    /\ NoWriter \notin Writer /\ WriterOf \in [Event -> Writer]

Line == [event : Event, ref : Payload \cup {NoPayload}, whole : BOOLEAN]

\* Whole lines, of events without a payload.
ASSUME EarlierAssumption ==
    /\ Earlier \in [Tenant -> [Day -> Seq(Line)]]
    /\ \A t \in Tenant, d \in Day : \A i \in DOMAIN Earlier[t][d] :
          LET line == Earlier[t][d][i]
          IN line.whole /\ line.ref = NoPayload

VARIABLES
    logs,      \* tenant -> day -> the lines of events/<day>.jsonl: the event,
               \* the payload it names, and whether the line is whole
    open,      \* tenant -> the day whose log is open, 0 for none
    failed,    \* tenant -> whether the open log's encoder met an error
    holder,    \* tenant -> the writer that has the store's lock
    blobs,     \* tenant -> payload -> the file under its hash
    job,       \* writer -> the event it brings in, and how far it is
    parts,     \* tenant -> day -> the events of its partition, {} for none
    sweep,     \* runCompaction: the tenants left, and the days of the first
    reading,   \* the day being compacted: what was read of it, and (history)
               \* what had been confirmed of it by then
    \* history
    confirmed, \* events whose Append returned without an error
    failures

store == <<logs, open, failed, holder>>
archive == <<parts, sweep, reading>>
vars == <<logs, open, failed, holder, blobs, job, parts, sweep, reading,
          confirmed, failures>>

Waiting == [at |-> "waiting", event |-> CHOOSE e \in Event : TRUE,
            ref |-> NoPayload]
Resting == [todo |-> {}, days |-> {}]
NotReading == [tenant |-> 0, day |-> 0, events |-> {}, before |-> {}]

Init ==
    /\ logs = Earlier
    /\ open = [t \in Tenant |-> 0] /\ failed = [t \in Tenant |-> FALSE]
    /\ holder = [t \in Tenant |-> NoWriter]
    /\ blobs = [t \in Tenant |-> [p \in Payload |-> "absent"]]
    /\ job = [w \in Writer |-> Waiting]
    /\ parts = [t \in Tenant |-> [d \in Day |-> {}]]
    /\ sweep = Resting /\ reading = NotReading
    /\ confirmed = {e \in Event :
          \E i \in DOMAIN Earlier[TenantOf[e]][DayOf[e]] :
             Earlier[TenantOf[e]][DayOf[e]][i].event = e}
    /\ failures = 0

At(w, step) == job[w].at = step
Moves(w, step) == job' = [job EXCEPT ![w].at = step]
Whose(w) == TenantOf[job[w].event]
On(w) == DayOf[job[w].event]
GivesUp(w) == job' = [job EXCEPT ![w] = Waiting]

Fault == failures < MaxFailures /\ failures' = failures + 1

-----------------------------------------------------------------------------
(* storeContent and putBlob, with PutBlob: the payload before the event.   *)

\* handleCollect appends what was shipped as it is.
Beginning(w, e) ==
    IF w \in Collect THEN [at |-> "append", event |-> e, ref |-> PayloadOf[e]]
    ELSE [at |-> IF PayloadOf[e] = NoPayload THEN "append" ELSE "stat",
          event |-> e, ref |-> NoPayload]

\* An event is brought in until it was confirmed.
Take(w, e) ==
    /\ At(w, "waiting") /\ WriterOf[e] = w /\ e \notin confirmed
    /\ job' = [job EXCEPT ![w] = Beginning(w, e)]
    /\ UNCHANGED <<store, blobs, archive, confirmed, failures>>

Names(w, step) ==
    job' = [job EXCEPT ![w].at = step, ![w].ref = PayloadOf[job[w].event]]

\* What is there under the hash is taken for the payload.
Stat(w) ==
    /\ At(w, "stat")
    /\ IF blobs[Whose(w)][PayloadOf[job[w].event]] = "absent"
       THEN Moves(w, "temp") ELSE Names(w, "append")
    /\ UNCHANGED <<store, blobs, archive, confirmed, failures>>

\* Mutant: the payload is written where it is to be found.
TempInPlace(t, p) == [blobs EXCEPT ![t][p] = "partial"]

\* The payload goes to a file of the writer's own, which nobody else opens.
Temp(t, p) == blobs

WriteTemp(w) ==
    /\ At(w, "temp")
    /\ blobs' = Temp(Whose(w), PayloadOf[job[w].event])
    /\ Moves(w, "rename")
    /\ UNCHANGED <<store, archive, confirmed, failures>>

Rename(w) ==
    /\ At(w, "rename")
    /\ blobs' = [blobs EXCEPT ![Whose(w)][PayloadOf[job[w].event]] = "whole"]
    /\ Names(w, "append")
    /\ UNCHANGED <<store, archive, confirmed, failures>>

\* The ingester gives the event up, for now; the proxy goes on without it.
PutBlobFails(w) ==
    /\ job[w].at \in {"temp", "rename"} /\ Fault
    /\ GivesUp(w) \/ Moves(w, "append")
    /\ UNCHANGED <<store, blobs, archive, confirmed>>

-----------------------------------------------------------------------------
(* Append, under the store's lock.                                         *)

\* Mutant: the log is opened to be written from its start.
OpenedAfresh(t, d) == <<>>

\* rotateLocked: O_APPEND|O_CREATE, and a new encoder.
Opened(t, d) == logs[t][d]

\* The encoder hands the whole line to one write, which begins.
BeginAppend(w) ==
    LET t == Whose(w)
        d == On(w)
        before == IF open[t] = d THEN logs[t][d] ELSE Opened(t, d)
        line == [event |-> job[w].event, ref |-> job[w].ref, whole |-> FALSE]
    IN /\ At(w, "append") /\ holder[t] = NoWriter
       /\ ~(open[t] = d /\ failed[t])
       /\ logs' = [logs EXCEPT ![t][d] = Append(before, line)]
       /\ open' = [open EXCEPT ![t] = d]
       /\ failed' = [failed EXCEPT ![t] = FALSE]
       /\ holder' = [holder EXCEPT ![t] = w]
       /\ Moves(w, "writing")
       /\ UNCHANGED <<blobs, archive, confirmed, failures>>

\* An encoder that met an error returns it ever after; an open may fail, which
\* leaves the store without a log.
AppendRefused(w) ==
    LET t == Whose(w)
    IN /\ At(w, "append") /\ holder[t] = NoWriter
       /\ \/ /\ open[t] = On(w) /\ failed[t]
             /\ UNCHANGED <<open, failed, failures>>
          \/ /\ open[t] # On(w) /\ Fault
             /\ open' = [open EXCEPT ![t] = 0]
             /\ failed' = [failed EXCEPT ![t] = FALSE]
       /\ GivesUp(w)
       /\ UNCHANGED <<logs, holder, blobs, archive, confirmed>>

\* What becomes of the line being written to t's log: all, a part or none of it.
Ends(log, how) ==
    LET last == Len(log)
    IN CASE how = "whole" -> [log EXCEPT ![last].whole = TRUE]
         [] how = "torn" -> log
         [] how = "none" -> SubSeq(log, 1, last - 1)

FinishAppend(w) ==
    LET t == Whose(w)
    IN /\ At(w, "writing")
       /\ logs' = [logs EXCEPT ![t][On(w)] = Ends(@, "whole")]
       /\ holder' = [holder EXCEPT ![t] = NoWriter]
       /\ confirmed' = confirmed \cup {job[w].event}
       /\ GivesUp(w)
       /\ UNCHANGED <<open, failed, blobs, archive, failures>>

FailAppend(w) ==
    LET t == Whose(w)
    IN /\ At(w, "writing") /\ Fault
       /\ \E how \in {"torn", "none"} :
             logs' = [logs EXCEPT ![t][On(w)] = Ends(@, how)]
       /\ failed' = [failed EXCEPT ![t] = TRUE]
       /\ holder' = [holder EXCEPT ![t] = NoWriter]
       /\ GivesUp(w)
       /\ UNCHANGED <<open, blobs, archive, confirmed>>

\* Close, on the way out: what is appended after it opens the log anew.
Close(t) ==
    /\ holder[t] = NoWriter /\ open[t] # 0
    /\ open' = [open EXCEPT ![t] = 0] /\ failed' = [failed EXCEPT ![t] = FALSE]
    /\ UNCHANGED <<logs, holder, blobs, job, archive, confirmed, failures>>

-----------------------------------------------------------------------------
(* Reading a day back, and the sweep.                                      *)

\* Events decodes the lines up to the first that is not whole, and returns them
\* with an error when there is one.
Decoded(log) == {i \in DOMAIN log : \A j \in 1..i : log[j].whole}
Undecodable(log) == Decoded(log) # DOMAIN log
EventsIn(log) == {log[i].event : i \in Decoded(log)}

\* The days a tenant has logs of.
Days(t) == {d \in Day : logs[t][d] # <<>>}

StartSweep ==
    /\ sweep = Resting
    /\ sweep' = [Resting EXCEPT !.todo = Tenant]
    /\ UNCHANGED <<store, blobs, job, parts, reading, confirmed, failures>>

\* Mutant: a tenant that fails ends the sweep.
NextTenantNever(t, ok) ==
    [todo |-> IF ok THEN sweep.todo \ {t} ELSE {}, days |-> {}]

\* t had its turn, whether or not it went well.
NextTenant(t, ok) == [todo |-> sweep.todo \ {t}, days |-> {}]

\* The tenant whose turn it is: Registry.Tenants lists them by name.
Turn(t) == t \in sweep.todo /\ \A other \in sweep.todo : t <= other

\* Registry.For, which may fail, and CompactAll's list of days.
SweepTenant(t) ==
    /\ Turn(t) /\ sweep.days = {}
    /\ \/ /\ sweep' = IF Days(t) = {} THEN NextTenant(t, TRUE)
                      ELSE [sweep EXCEPT !.days = Days(t)]
          /\ UNCHANGED failures
       \/ sweep' = NextTenant(t, FALSE) /\ Fault
    /\ UNCHANGED <<store, blobs, job, parts, reading, confirmed>>

\* Mutant: what could be decoded is compacted.
UnreadableNever(log) == FALSE

\* A log that cannot be read to its end is an error, of its day and its tenant.
Unreadable(log) == Undecodable(log)

\* The oldest day still to compact.
FirstDay(t, d) ==
    Turn(t) /\ d \in sweep.days /\ \A other \in sweep.days : d <= other

DayDone(t, d) == IF sweep.days = {d} THEN NextTenant(t, TRUE)
                 ELSE [sweep EXCEPT !.days = @ \ {d}]

OfDay(S, t, d) == {e \in S : TenantOf[e] = t /\ DayOf[e] = d}

\* CompactDay leaves a day with a partition or without events as it is, and
\* reads any other.
ReadDay(t, d) ==
    /\ FirstDay(t, d) /\ reading = NotReading
    /\ LET log == logs[t][d]
       IN \/ /\ parts[t][d] # {} \/ (~Unreadable(log) /\ EventsIn(log) = {})
             /\ sweep' = DayDone(t, d) /\ UNCHANGED reading
          \/ /\ parts[t][d] = {} /\ Unreadable(log)
             /\ sweep' = NextTenant(t, FALSE) /\ UNCHANGED reading
          \/ /\ parts[t][d] = {} /\ ~Unreadable(log) /\ EventsIn(log) # {}
             /\ reading' = [tenant |-> t, day |-> d, events |-> EventsIn(log),
                            before |-> OfDay(confirmed, t, d)]
             /\ UNCHANGED sweep
    /\ UNCHANGED <<store, blobs, job, parts, confirmed, failures>>

\* It writes the partition of what it read, whatever was appended since.
PutDay(t, d) ==
    /\ reading.tenant = t /\ reading.day = d
    /\ \/ /\ parts' = [parts EXCEPT ![t][d] = reading.events]
          /\ sweep' = DayDone(t, d) /\ UNCHANGED failures
       \/ sweep' = NextTenant(t, FALSE) /\ Fault /\ UNCHANGED parts
    /\ reading' = NotReading
    /\ UNCHANGED <<store, blobs, job, confirmed>>

-----------------------------------------------------------------------------
\* The process is killed; of a line being written, anything may be there.
Crash ==
    /\ Fault
    /\ \E how \in [Tenant -> {"whole", "torn", "none"}] :
          logs' = [t \in Tenant |-> [d \in Day |->
                      IF holder[t] # NoWriter /\ open[t] = d
                      THEN Ends(logs[t][d], how[t]) ELSE logs[t][d]]]
    /\ open' = [t \in Tenant |-> 0] /\ failed' = [t \in Tenant |-> FALSE]
    /\ holder' = [t \in Tenant |-> NoWriter]
    /\ job' = [w \in Writer |-> Waiting]
    /\ sweep' = Resting /\ reading' = NotReading
    /\ UNCHANGED <<blobs, parts, confirmed>>

Sweep ==
    \/ StartSweep
    \/ \E t \in Tenant :
          SweepTenant(t) \/ \E d \in Day : ReadDay(t, d) \/ PutDay(t, d)

WriteReturns == \E w \in Writer : FinishAppend(w)

Next ==
    \/ \E w \in Writer :
          \/ \E e \in Event : Take(w, e)
          \/ Stat(w) \/ WriteTemp(w) \/ Rename(w) \/ PutBlobFails(w)
          \/ BeginAppend(w) \/ AppendRefused(w) \/ FailAppend(w)
    \/ WriteReturns \/ Sweep
    \/ \E t \in Tenant : Close(t)
    \/ Crash

\* Writes return, and the ticker and the loops of the sweep go on; whether
\* anybody writes is open.
Spec == Init /\ [][Next]_vars /\ WF_vars(WriteReturns) /\ WF_vars(Sweep)

-----------------------------------------------------------------------------
\* An event that was captured here and can be read names no payload but one that
\* is there in full, whichever writers stored the same payload, failed or were
\* killed meanwhile (store.go:106, ingest.go:162).  Nothing of the kind holds of
\* an event that was shipped: its payload stays where it was captured.
NamedPayloadsWhole ==
    \A t \in Tenant, d \in Day : \A i \in Decoded(logs[t][d]) :
        LET line == logs[t][d][i]
        IN WriterOf[line.event] \notin Collect /\ line.ref # NoPayload
              => blobs[t][line.ref] = "whole"

\* What could be read of a day stays readable, and where it was: another day
\* opened and this one again, a failed write or a restart takes nothing back
\* (store.go:90).
ReadableStays ==
    [][\A t \in Tenant, d \in Day : \A i \in Decoded(logs[t][d]) :
          i \in Decoded(logs'[t][d]) /\ logs'[t][d][i] = logs[t][d][i]]_logs

\* A partition, which is all that is read of its day from then on, holds every
\* event of the day that was confirmed before the day was read: none stands
\* behind a line that the reader could not decode (compact.go:122).  One that is
\* confirmed between the reading and the writing may be left out.
PartitionTakesConfirmed ==
    [][\A t \in Tenant, d \in Day : parts'[t][d] # parts[t][d] =>
          reading.before \subseteq parts'[t][d]]_parts

\* Nobody is writing the line that cannot be decoded: it stays so.
Damaged(t, d) ==
    \E i \in DOMAIN logs[t][d] :
        /\ ~logs[t][d][i].whole
        /\ ~(i = Len(logs[t][d]) /\ open[t] = d /\ holder[t] # NoWriter)

\* A day with events is compacted unless it, or an earlier day of the same
\* tenant, has a damaged log: what befell other tenants does not matter
\* (main.go:462).
DaysCompacted ==
    \A t \in Tenant, d \in Day :
        Decoded(logs[t][d]) # {} ~>
            (parts[t][d] # {} \/ \E damaged \in 1..d : Damaged(t, damaged))

\* Does not hold: what was confirmed is read back, as if a torn line cost only
\* itself.
ConfirmedReadable ==
    \A e \in confirmed : e \in EventsIn(logs[TenantOf[e]][DayOf[e]])

=============================================================================
