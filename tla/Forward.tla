------------------------------ MODULE Forward ------------------------------
(***************************************************************************)
(* Shipping a collector's archive to a server: the Forwarder and Shipper   *)
(* of internal/collect on one machine, and the handler that receives the   *)
(* batches (handleCollect).                                                *)
(*                                                                         *)
(* The forwarder is one goroutine that runs a pass per tick.  It reads the *)
(* local log, which ingestion appends to meanwhile, sends what its         *)
(* checkpoint does not cover, and moves the checkpoint.  Requests and      *)
(* responses get lost, the server fails half way through a batch, and the  *)
(* process is restarted, possibly signed in to another server.             *)
(*                                                                         *)
(* The local store is a file per day, which keeps what it was given, or a  *)
(* Postgres window, whose compactor releases a day once it is compacted,   *)
(* whether it was shipped or not (Prunes).                                 *)
(*                                                                         *)
(* An event stands for its forwardKey.  A pass reads a day before the next *)
(* one; the order of the events of one day is left out.                    *)
(***************************************************************************)
EXTENDS Integers, FiniteSets

CONSTANTS
    Event,        \* the records ingestion may capture
    MaxTime,      \* bound: the latest timestamp
    Time,         \* a record's timestamp; 0 is the zero time
    Content,      \* captured content, which is never shipped
    Implausible,  \* records the server drops for their timestamp
    Oversized,    \* records over the server's limit of bytes on their own
    Server,       \* the servers the machine may be signed in to
    NoServer,     \* the server of a checkpoint that was never written
    Overlap,      \* how far before its checkpoint a pass re-reads
    RangeStart,   \* the oldest timestamp EventsRange returns, asked from a time
    BatchSize,    \* events per request
    ServerLimit,  \* the largest batch the server takes
    DayLength,    \* ticks in a day
    Prunes,       \* the store releases compacted days: Postgres, not files
    InOrder,      \* no record is captured more than Overlap after a newer one
    MaxFaults     \* bound: lost requests, failures and restarts

ASSUME ForwardAssumption ==
    /\ IsFiniteSet(Event)
    /\ MaxTime \in Nat
    /\ Time \in [Event -> 1..MaxTime]
    /\ Content \subseteq Event /\ Implausible \subseteq Event
    /\ Oversized \subseteq Event
    /\ NoServer \notin Server
    /\ Overlap \in Nat
    /\ RangeStart \in [0..MaxTime -> 0..MaxTime]
    /\ \A t \in 0..MaxTime : RangeStart[t] <= t
    /\ BatchSize \in Nat \ {0} /\ ServerLimit \in Nat \ {0}
    /\ DayLength \in Nat \ {0} /\ Prunes \in BOOLEAN
    /\ InOrder \in BOOLEAN /\ MaxFaults \in Nat

VARIABLES
    log,         \* the local archive: what the store holds
    captured,    \* history: everything it was ever given
    server,      \* the server this process is signed in to
    checkpoint,  \* forward.json
    delivered,   \* server -> the records it has stored
    recorded,    \* history: records the checkpoint accounts for as shipped
    faults,      \* faults so far
    pc, first,   \* where Run is; it is in its first pass
    state,       \* the checkpoint the pass goes by
    events,      \* what the pass read
    pending,     \* what it has still to send
    size         \* its current batch size

pass == <<pc, first, state, events, pending, size>>
vars == <<log, captured, server, checkpoint, delivered, recorded, faults, pc, first,
          state, events, pending, size>>

Day(e) == Time[e] \div DayLength

\* A checkpoint that was never written, or that cannot be read.
NoCheckpoint == [shipped |-> 0, server |-> NoServer, keys |-> {}]

Checkpoint == [shipped : 0..MaxTime, server : Server \cup {NoServer},
               keys : SUBSET Event]

-----------------------------------------------------------------------------
(* What a pass reads and sends.                                            *)

\* Mutant: the checkpoint is kept when the server changes.
CheckpointOfAnyServer(s) == checkpoint

\* The checkpoint a pass goes by: none of another server's.
CheckpointFor(s) == IF checkpoint.server = s THEN checkpoint ELSE NoCheckpoint

\* EventsRange from the checkpoint less the overlap, or from the oldest day
\* when nothing was shipped yet.
From(st) == IF st.shipped <= Overlap THEN 0 ELSE RangeStart[st.shipped - Overlap]
InRange(st) == {e \in log : Time[e] >= From(st)}

ToSend(st) == {e \in InRange(st) : e \notin st.keys /\ e \notin Content}

\* newestTimestamp, or what was shipped through already if that is later.
IsShippedThrough(t, st, S) ==
    /\ t \in {st.shipped} \cup {Time[e] : e \in S}
    /\ t >= st.shipped
    /\ \A e \in S : t >= Time[e]

\* Mutant: a record at the very start of the overlap is forgotten.
KeysAfter(S, shipped) == {e \in S : Time[e] > shipped - Overlap}

\* keysWithin the overlap.
KeysWithin(S, shipped) == {e \in S : Time[e] >= shipped - Overlap}

-----------------------------------------------------------------------------
NoPass ==
    /\ state = NoCheckpoint /\ events = {} /\ pending = {} /\ size = BatchSize

Init ==
    /\ log = {} /\ captured = {}
    /\ server \in Server
    /\ checkpoint = NoCheckpoint
    /\ delivered = [s \in Server |-> {}]
    /\ recorded = {}
    /\ faults = 0
    /\ pc = "tick" /\ first = TRUE
    /\ NoPass

\* Pass returns to Run, whether it failed or not.
PassReturns ==
    /\ pc' = "tick" /\ first' = FALSE
    /\ state' = NoCheckpoint /\ events' = {} /\ pending' = {} /\ size' = BatchSize

Fault == faults < MaxFaults /\ faults' = faults + 1

\* Ingestion appends a record to the local archive.
Capture(e) ==
    /\ e \notin captured
    /\ InOrder => \A f \in captured : Time[e] >= Time[f] - Overlap
    /\ log' = log \cup {e} /\ captured' = captured \cup {e}
    /\ UNCHANGED <<server, checkpoint, delivered, recorded, faults, pass>>

\* The compactor releases a finished day from the Postgres window: any day may
\* be over by now, and nothing asks whether it was shipped.
Prune(d) ==
    /\ Prunes
    /\ \E e \in log : Day(e) = d
    /\ log' = {e \in log : Day(e) # d}
    /\ UNCHANGED <<captured, server, checkpoint, delivered, recorded, faults, pass>>

-----------------------------------------------------------------------------
(* Pass.                                                                   *)

\* Load the checkpoint, read the archive, leave out what was sent.
StartPass ==
    /\ pc = "tick"
    /\ LET st == CheckpointFor(server)
       IN /\ ToSend(st) # {}
          /\ state' = st
          /\ events' = InRange(st)
          /\ pending' = ToSend(st)
    /\ pc' = "send"
    /\ UNCHANGED <<log, captured, server, checkpoint, delivered, recorded, faults, first, size>>

\* Nothing to send: the checkpoint stays as it is.
EmptyPass ==
    /\ pc = "tick" /\ first
    /\ ToSend(CheckpointFor(server)) = {}
    /\ first' = FALSE
    /\ UNCHANGED <<log, captured, server, checkpoint, delivered, recorded, faults, pc,
                   state, events, pending, size>>

\* The next batch of SendAll: as many as the current size allows, of the
\* earliest days.
IsBatch(B) ==
    /\ B \subseteq pending
    /\ Cardinality(B) = IF Cardinality(pending) < size
                        THEN Cardinality(pending) ELSE size
    /\ \A e \in B, f \in pending \ B : Day(e) <= Day(f)

\* 413, for the number of events or for their bytes.
TooLarge(B) == Cardinality(B) > ServerLimit \/ B \cap Oversized # {}

\* The server stored the whole batch and the response arrived.
BatchAccepted(B) ==
    /\ pc = "send" /\ IsBatch(B) /\ ~TooLarge(B)
    /\ delivered' = [delivered EXCEPT ![server] = @ \cup (B \ Implausible)]
    /\ pending' = pending \ B
    /\ pc' = IF pending' = {} THEN "save" ELSE "send"
    /\ UNCHANGED <<log, captured, server, checkpoint, recorded, faults, first,
                   state, events, size>>

\* Mutant: the batch size shrinks to nothing.
BatchTooLargeToZero(B) ==
    /\ pc = "send" /\ IsBatch(B) /\ TooLarge(B) /\ Cardinality(B) > 1
    /\ size' = size \div 4
    /\ UNCHANGED <<log, captured, server, checkpoint, delivered, recorded, faults,
                   pc, first, state, events, pending>>

\* Mutant: a refused batch is given up at once, and by every pass again.
BatchTooLargeGivesUp(B) ==
    /\ pc = "send" /\ IsBatch(B) /\ TooLarge(B) /\ Cardinality(B) > 1
    /\ PassReturns
    /\ UNCHANGED <<log, captured, server, checkpoint, delivered, recorded, faults>>

\* The same events in smaller batches.
BatchTooLarge(B) ==
    /\ pc = "send" /\ IsBatch(B) /\ TooLarge(B) /\ Cardinality(B) > 1
    /\ size' = Cardinality(B) \div 2
    /\ UNCHANGED <<log, captured, server, checkpoint, delivered, recorded, faults,
                   pc, first, state, events, pending>>

\* One event cannot be halved: the pass fails, as will every pass that reads it.
EventTooLarge(B) ==
    /\ pc = "send" /\ IsBatch(B) /\ TooLarge(B) /\ Cardinality(B) = 1
    /\ PassReturns
    /\ UNCHANGED <<log, captured, server, checkpoint, delivered, recorded, faults>>

\* The request or the response was lost, or the server failed after storing
\* some of the batch: the pass gives up and records nothing.
BatchFails(B) ==
    /\ pc = "send" /\ IsBatch(B)
    /\ Fault
    /\ \E A \in SUBSET (B \ Implausible) :
          /\ TooLarge(B) => A = {}
          /\ delivered' = [delivered EXCEPT ![server] = @ \cup A]
    /\ PassReturns
    /\ UNCHANGED <<log, captured, server, checkpoint, recorded>>

\* 401: Run stops shipping, except that it ignores why its first pass failed.
CredentialRejected ==
    /\ pc = "send"
    /\ Fault
    /\ pc' = IF first THEN "tick" ELSE "stopped"
    /\ first' = FALSE
    /\ state' = NoCheckpoint /\ events' = {} /\ pending' = {} /\ size' = BatchSize
    /\ UNCHANGED <<log, captured, server, checkpoint, delivered, recorded>>

Covered == IF checkpoint.server = server THEN recorded ELSE {}

Save ==
    /\ pc = "save"
    /\ \E shipped \in 0..MaxTime :
          /\ IsShippedThrough(shipped, state, events)
          /\ checkpoint' = [shipped |-> shipped, server |-> server,
                            keys |-> KeysWithin(events, shipped)]
    /\ recorded' = Covered \cup (events \ Content)
    /\ PassReturns
    /\ UNCHANGED <<log, captured, server, delivered, faults>>

\* The checkpoint cannot be written: logged, and the pass succeeds.
SaveFails ==
    /\ pc = "save"
    /\ Fault
    /\ PassReturns
    /\ UNCHANGED <<log, captured, server, checkpoint, delivered, recorded>>

\* The process stops and is started again, possibly signed in to another
\* server, with its checkpoint intact or unreadable.
Restart ==
    /\ Fault
    /\ server' \in Server
    /\ \/ UNCHANGED <<checkpoint, recorded>>
       \/ checkpoint' = NoCheckpoint /\ recorded' = {}
    /\ pc' = "tick" /\ first' = TRUE
    /\ state' = NoCheckpoint /\ events' = {} /\ pending' = {} /\ size' = BatchSize
    /\ UNCHANGED <<log, captured, delivered>>

-----------------------------------------------------------------------------
SendBatch ==
    \E B \in SUBSET pending :
        BatchAccepted(B) \/ BatchTooLarge(B) \/ EventTooLarge(B)
Pass == StartPass \/ EmptyPass \/ SendBatch \/ Save

Next ==
    \/ \E e \in Event : Capture(e)
    \/ \E d \in 0..MaxTime : Prune(d)
    \/ Pass
    \/ \E B \in SUBSET pending : BatchFails(B)
    \/ CredentialRejected
    \/ SaveFails
    \/ Restart

Spec == Init /\ [][Next]_vars

\* The ticker fires and requests are answered.
FairSpec == Spec /\ WF_vars(Pass)

-----------------------------------------------------------------------------
(* Properties.                                                             *)

TypeOK ==
    /\ log \subseteq captured /\ captured \subseteq Event /\ server \in Server
    /\ checkpoint \in Checkpoint /\ state \in Checkpoint
    /\ delivered \in [Server -> SUBSET Event]
    /\ recorded \subseteq Event
    /\ faults \in 0..MaxFaults
    /\ pc \in {"tick", "send", "save", "stopped"} /\ first \in BOOLEAN
    /\ events \subseteq Event /\ pending \subseteq Event
    /\ size \in 1..BatchSize

Shippable == Event \ (Content \cup Implausible)

\* forward.go:20-24, a server that is down or slow "delays delivery and never
\* loses a turn": a record the server lacks is one the next pass would send,
\* wherever the checkpoint is and whatever failed before it was moved.
NothingSteppedOver ==
    \A e \in log \cap Shippable :
        e \in delivered[server] \/ e \in ToSend(CheckpointFor(server))

\* forward.go:38-40, "What is re-read is not re-sent": what a pass is going to
\* send is not covered by the checkpoint it goes by.  True of a store that
\* returns what it is asked for; the file store returns whole days.
RecordedNotResent == pc = "send" => pending \cap Covered = {}

\* A record the server refuses on its own stops every pass that reads it, and
\* with it what comes after it.
HeldUp(e) == \E o \in (log \cap Oversized) \ Content : Day(o) <= Day(e)

\* A record the store holds reaches the server the machine is signed in to,
\* through lost requests, refused batches, failed saves and restarts.  Not so,
\* as the code stands: when the window releases its day first (prune.go:38-57),
\* when a record that is too large on its own comes before it
\* (client.go:148-154), or when shipping stops for a rejected credential.
EventuallyDelivered ==
    \A e \in Shippable \ Oversized :
        e \in log ~> (e \in delivered[server] \/ e \notin log \/ HeldUp(e)
                       \/ pc = "stopped")
=============================================================================
