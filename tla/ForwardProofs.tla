--------------------------- MODULE ForwardProofs ---------------------------
(***************************************************************************)
(* Theorems about module Forward, for every set of records, every overlap, *)
(* batch size and number of faults.                                        *)
(***************************************************************************)
EXTENDS Forward, FiniteSetTheorems, TLAPS

\* The records a pass to server s has to account for.
Undelivered(s) == {e \in log \cap Shippable : e \notin delivered[s]}

\* e was captured no more than Overlap before everything shipped so far.
Recent(e, st, S) ==
    /\ Time[e] >= st.shipped - Overlap
    /\ \A f \in S : Time[e] >= Time[f] - Overlap

\* What the checkpoint calls shipped had been captured, and the keys it lists
\* did reach its server.
CheckpointSound ==
    /\ checkpoint.shipped = 0 \/ \E f \in captured : Time[f] = checkpoint.shipped
    /\ checkpoint.server \in Server =>
          checkpoint.keys \cap Shippable \subseteq delivered[checkpoint.server]

\* NothingSteppedOver for the servers the machine is not signed in to as well:
\* it may be signed in to them again with the checkpoint still theirs.
NothingSteppedOverAnywhere ==
    \A s \in Server : Undelivered(s) \subseteq ToSend(CheckpointFor(s))

\* A pass under way goes by the checkpoint, has everything undelivered it read
\* still to send, and what was captured since is recent.
PassSound ==
    pc \in {"send", "save"} =>
        /\ state = CheckpointFor(server)
        /\ events \subseteq captured /\ pending \subseteq events
        /\ pc = "save" => pending = {}
        /\ \A e \in events \cap Shippable : e \in pending \/ e \in delivered[server]
        /\ \A e \in Undelivered(server) :
              e \in pending \/ (e \notin events /\ Recent(e, state, events))

ForwardInv ==
    TypeOK /\ CheckpointSound /\ NothingSteppedOverAnywhere /\ PassSound

-----------------------------------------------------------------------------
LEMMA NoCheckpointType == NoCheckpoint \in Checkpoint
<1>1. 0 \in 0..MaxTime
  BY ForwardAssumption
<1>2. QED
  BY <1>1 DEF NoCheckpoint, Checkpoint

\* A pass that returns leaves well-typed locals behind.
LEMMA PassReturnsType ==
    PassReturns => /\ pc' \in {"tick", "send", "save", "stopped"}
                   /\ first' \in BOOLEAN /\ state' \in Checkpoint
                   /\ events' \subseteq Event /\ pending' \subseteq Event
                   /\ size' \in 1..BatchSize
<1>1. BatchSize \in 1..BatchSize
  BY ForwardAssumption
<1>2. QED
  BY <1>1, NoCheckpointType DEF PassReturns

LEMMA InitTypeOK == Init => TypeOK
<1> SUFFICES ASSUME Init PROVE TypeOK
  OBVIOUS
<1>1. checkpoint \in Checkpoint /\ state \in Checkpoint
  BY NoCheckpointType DEF Init, NoPass
<1>2. QED
  BY <1>1, ForwardAssumption DEF Init, NoPass, TypeOK

LEMMA StepTypeOK == TypeOK /\ [Next]_vars => TypeOK'
<1> SUFFICES ASSUME TypeOK, [Next]_vars PROVE TypeOK'
  OBVIOUS
<1> USE ForwardAssumption
<1>1. ASSUME NEW e \in Event, Capture(e) PROVE TypeOK'
  BY <1>1 DEF TypeOK, Capture, pass
<1>2. CASE StartPass
  <2>1. CheckpointFor(server) \in Checkpoint
    BY NoCheckpointType DEF TypeOK, CheckpointFor
  <2>2. \A st : InRange(st) \subseteq Event /\ ToSend(st) \subseteq Event
    BY DEF TypeOK, InRange, ToSend
  <2>3. QED
    BY <1>2, <2>1, <2>2 DEF TypeOK, StartPass
<1>3. CASE EmptyPass
  BY <1>3 DEF TypeOK, EmptyPass
<1>4. ASSUME NEW B \in SUBSET pending, BatchAccepted(B) PROVE TypeOK'
  BY <1>4 DEF TypeOK, BatchAccepted
<1>13. ASSUME NEW d \in 0..MaxTime, Prune(d) PROVE TypeOK'
  BY <1>13 DEF TypeOK, Prune, pass
<1>14. ASSUME NEW B \in SUBSET pending, EventTooLarge(B) PROVE TypeOK'
  BY <1>14, PassReturnsType DEF TypeOK, EventTooLarge
<1>5. ASSUME NEW B \in SUBSET pending, BatchTooLarge(B) PROVE TypeOK'
  <2>1. IsFiniteSet(pending) /\ IsFiniteSet(B)
    BY FS_Subset DEF TypeOK
  <2>2. Cardinality(pending) \in Nat /\ Cardinality(B) \in Nat
    BY <2>1, FS_CardinalityType
  <2>3. Cardinality(B) > 1 /\ Cardinality(B) <= size
    BY <1>5, <2>2 DEF BatchTooLarge, IsBatch, TypeOK
  <2>4. size' = Cardinality(B) \div 2
    BY <1>5 DEF BatchTooLarge
  <2>5. size' \in 1..BatchSize
    BY <2>2, <2>3, <2>4 DEF TypeOK
  <2>6. QED
    BY <1>5, <2>5 DEF TypeOK, BatchTooLarge
<1>6. ASSUME NEW B \in SUBSET pending, BatchFails(B) PROVE TypeOK'
  <2>1. delivered' \in [Server -> SUBSET Event]
    BY <1>6 DEF TypeOK, BatchFails
  <2>2. QED
    BY <1>6, <2>1, PassReturnsType DEF TypeOK, BatchFails, Fault
<1>7. CASE CredentialRejected
  <2>1. BatchSize \in 1..BatchSize
    OBVIOUS
  <2>2. pc' \in {"tick", "stopped"} /\ faults' \in 0..MaxFaults
    BY <1>7 DEF TypeOK, CredentialRejected, Fault
  <2>3. QED
    BY <1>7, <2>1, <2>2, NoCheckpointType DEF TypeOK, CredentialRejected
<1>8. CASE Save
  <2>1. checkpoint' \in Checkpoint
    BY <1>8 DEF TypeOK, Save, Checkpoint, KeysWithin
  <2>2. QED
    BY <1>8, <2>1, PassReturnsType DEF TypeOK, Save, Covered
<1>9. CASE SaveFails
  BY <1>9, PassReturnsType DEF TypeOK, SaveFails, Fault
<1>10. CASE Restart
  BY <1>10, NoCheckpointType DEF TypeOK, Restart, Fault
<1>11. CASE UNCHANGED vars
  BY <1>11 DEF TypeOK, vars
<1>12. QED
  BY <1>1, <1>2, <1>3, <1>4, <1>5, <1>6, <1>7, <1>8, <1>9, <1>10, <1>11, <1>13, <1>14
     DEF Next, Pass, SendBatch

\* Every variable keeps its type.
THEOREM TypeCorrect == Spec => []TypeOK
<1>1. Init => TypeOK
  BY InitTypeOK
<1>2. TypeOK /\ [Next]_vars => TypeOK'
  BY StepTypeOK
<1>3. QED
  BY <1>1, <1>2, PTL DEF Spec

-----------------------------------------------------------------------------
(* Nothing is stepped over.                                                *)

\* EventsRange starts no later than it was asked to.
LEMMA RangeStartBound ==
    ASSUME NEW t \in 0..MaxTime
    PROVE  RangeStart[t] \in 0..MaxTime /\ RangeStart[t] <= t
BY ForwardAssumption

\* A pass reads again what is at most the overlap older than its checkpoint.
LEMMA FromBound ==
    ASSUME NEW st \in Checkpoint, NEW t \in 1..MaxTime,
           t >= st.shipped - Overlap
    PROVE  t >= From(st)
<1> DEFINE since == st.shipped - Overlap
<1>1. st.shipped \in 0..MaxTime /\ Overlap \in Nat /\ MaxTime \in Nat
  BY ForwardAssumption DEF Checkpoint
<1>2. CASE st.shipped <= Overlap
  BY <1>1, <1>2 DEF From
<1>3. CASE ~(st.shipped <= Overlap)
  <2>1. since \in 0..MaxTime /\ From(st) = RangeStart[since]
    BY <1>1, <1>3 DEF From
  <2>2. t >= since
    OBVIOUS
  <2> HIDE DEF since
  <2>3. RangeStart[since] \in 0..MaxTime /\ RangeStart[since] <= since
    BY <2>1, RangeStartBound
  <2>4. QED
    BY <1>1, <2>1, <2>2, <2>3
<1>4. QED
  BY <1>2, <1>3

LEMMA CheckpointForType ==
    ASSUME TypeOK, NEW s \in Server
    PROVE  CheckpointFor(s) \in Checkpoint
BY NoCheckpointType DEF TypeOK, CheckpointFor

LEMMA InitForward == Init => ForwardInv
<1> SUFFICES ASSUME Init PROVE ForwardInv
  OBVIOUS
<1>1. TypeOK
  BY InitTypeOK
<1>2. CheckpointSound
  BY ForwardAssumption DEF Init, CheckpointSound, NoCheckpoint
<1>3. NothingSteppedOverAnywhere /\ PassSound
  BY DEF Init, NothingSteppedOverAnywhere, Undelivered, PassSound
<1>4. QED
  BY <1>1, <1>2, <1>3 DEF ForwardInv

\* What is captured in order is no older than the overlap allows, so the
\* checkpoint of no server steps over it.
LEMMA CaptureForward ==
    ASSUME InOrder, ForwardInv, NEW e \in Event, Capture(e)
    PROVE  ForwardInv'
<1> USE ForwardAssumption
<1>1. TypeOK /\ TypeOK'
  BY StepTypeOK DEF ForwardInv, Next
<1>2. /\ e \notin captured /\ log \subseteq captured
      /\ log' = log \cup {e} /\ captured' = captured \cup {e}
      /\ \A f \in captured : Time[e] >= Time[f] - Overlap
      /\ UNCHANGED <<server, checkpoint, delivered, pc, state, events, pending>>
  BY <1>1 DEF Capture, pass, TypeOK
<1>3. CheckpointSound'
  BY <1>2 DEF ForwardInv, CheckpointSound
<1>4. Time[e] >= checkpoint.shipped - Overlap
  <2>1. checkpoint.shipped \in 0..MaxTime /\ Time[e] \in 1..MaxTime
    BY <1>1 DEF TypeOK, Checkpoint
  <2>2. CASE checkpoint.shipped = 0
    BY <2>1, <2>2
  <2>3. CASE \E f \in captured : Time[f] = checkpoint.shipped
    BY <1>2, <2>3
  <2>4. QED
    BY <2>2, <2>3 DEF ForwardInv, CheckpointSound
<1>5. ASSUME NEW s \in Server
      PROVE  /\ CheckpointFor(s)' = CheckpointFor(s)
             /\ Time[e] >= CheckpointFor(s).shipped - Overlap
             /\ e \notin CheckpointFor(s).keys \/ e \in delivered[s]
                \/ e \notin Shippable
  <2>1. CheckpointFor(s)' = CheckpointFor(s)
    BY <1>2 DEF CheckpointFor
  <2>2. CASE checkpoint.server = s
    BY <1>4, <2>1, <2>2 DEF CheckpointFor, ForwardInv, CheckpointSound
  <2>3. CASE checkpoint.server # s
    <3>1. CheckpointFor(s) = NoCheckpoint /\ Time[e] \in 1..MaxTime
      BY <2>3 DEF CheckpointFor
    <3>2. QED
      BY <2>1, <3>1 DEF NoCheckpoint
  <2>4. QED
    BY <2>2, <2>3
<1>6. NothingSteppedOverAnywhere'
  <2>1. SUFFICES ASSUME NEW s \in Server, NEW f \in Undelivered(s)'
                 PROVE  f \in ToSend(CheckpointFor(s))'
    BY DEF NothingSteppedOverAnywhere
  <2>2. CASE f = e
    <3>1. e \in log' /\ e \notin delivered[s] /\ e \in Shippable
      BY <1>2, <2>2 DEF Undelivered
    <3>2. e \in InRange(CheckpointFor(s))'
      <4>1. CheckpointFor(s)' \in Checkpoint
        BY <1>1, <1>5, CheckpointForType
      <4>2. Time[e] >= CheckpointFor(s).shipped - Overlap
        BY <1>5
      <4>3. Time[e] >= From(CheckpointFor(s))
        BY <1>1, <4>2, CheckpointForType, FromBound
      <4>4. QED
        BY <1>5, <3>1, <4>3 DEF InRange
    <3>3. e \notin CheckpointFor(s).keys
      BY <1>5, <3>1
    <3>4. QED
      BY <1>5, <2>2, <3>1, <3>2, <3>3 DEF ToSend, Shippable
  <2>3. CASE f # e
    <3>1. f \in Undelivered(s)
      BY <1>2, <2>3 DEF Undelivered
    <3>2. f \in ToSend(CheckpointFor(s))
      BY <3>1 DEF ForwardInv, NothingSteppedOverAnywhere
    <3>3. QED
      BY <1>2, <1>5, <3>2 DEF ToSend, InRange
  <2>4. QED
    BY <2>2, <2>3
<1>7. PassSound'
  <2>1. SUFFICES ASSUME pc \in {"send", "save"} PROVE PassSound'
    BY <1>2 DEF PassSound
  <2>2. server \in Server
    BY <1>1 DEF TypeOK
  <2>3. /\ state = CheckpointFor(server)
        /\ events \subseteq captured /\ pending \subseteq events
        /\ pc = "save" => pending = {}
        /\ \A f \in events \cap Shippable : f \in pending \/ f \in delivered[server]
        /\ \A f \in Undelivered(server) :
              f \in pending \/ (f \notin events /\ Recent(f, state, events))
    BY <2>1 DEF ForwardInv, PassSound
  <2>4. Recent(e, state, events) /\ e \notin events
    BY <1>2, <1>5, <2>2, <2>3 DEF Recent
  <2>5. Undelivered(server)' \subseteq Undelivered(server) \cup {e}
    BY <1>2 DEF Undelivered
  <2>6. CheckpointFor(server)' = CheckpointFor(server)
    BY <1>2 DEF CheckpointFor
  <2>7. QED
    BY <1>2, <2>3, <2>4, <2>5, <2>6 DEF PassSound, Recent
<1>8. QED
  BY <1>1, <1>3, <1>6, <1>7 DEF ForwardInv

\* The steps that move neither the log nor the checkpoint, and at most add to
\* what was delivered, step over nothing.
LEMMA DeliveryForward ==
    ASSUME ForwardInv, UNCHANGED <<log, captured, checkpoint>>,
           \A s \in Server : delivered[s] \subseteq delivered'[s]
    PROVE  CheckpointSound' /\ NothingSteppedOverAnywhere'
<1>1. CheckpointSound'
  BY DEF ForwardInv, CheckpointSound
<1>2. \A s \in Server : /\ CheckpointFor(s)' = CheckpointFor(s)
                        /\ Undelivered(s)' \subseteq Undelivered(s)
  BY DEF CheckpointFor, Undelivered
<1>3. NothingSteppedOverAnywhere'
  <2>1. SUFFICES ASSUME NEW s \in Server, NEW e \in Undelivered(s)'
                 PROVE  e \in ToSend(CheckpointFor(s))'
    BY DEF NothingSteppedOverAnywhere
  <2>2. e \in ToSend(CheckpointFor(s))
    BY <1>2 DEF ForwardInv, NothingSteppedOverAnywhere
  <2>3. QED
    BY <1>2, <2>2 DEF ToSend, InRange
<1>4. QED
  BY <1>1, <1>3

LEMMA StartPassForward ==
    ASSUME ForwardInv, TypeOK', StartPass
    PROVE  ForwardInv'
<1>1. /\ UNCHANGED <<log, captured, server, checkpoint, delivered>>
      /\ server \in Server /\ log \subseteq captured
      /\ pc' = "send" /\ state' = CheckpointFor(server)
      /\ events' = InRange(CheckpointFor(server))
      /\ pending' = ToSend(CheckpointFor(server))
  BY DEF StartPass, ForwardInv, TypeOK
<1>2. CheckpointSound' /\ NothingSteppedOverAnywhere'
  BY <1>1, DeliveryForward
<1>3. Undelivered(server) \subseteq pending'
  BY <1>1 DEF ForwardInv, NothingSteppedOverAnywhere
<1>4. events' \subseteq captured' /\ pending' \subseteq events'
  BY <1>1 DEF InRange, ToSend
<1>7. \A e \in events' \cap Shippable : e \in pending' \/ e \in delivered[server]
  BY <1>1, <1>3 DEF InRange, Undelivered
<1>5. PassSound'
  BY <1>1, <1>3, <1>4, <1>7 DEF PassSound, CheckpointFor, Undelivered
<1>6. QED
  BY <1>2, <1>5 DEF ForwardInv

\* A batch that was accepted leaves nothing of it undelivered.
LEMMA BatchForward ==
    ASSUME ForwardInv, TypeOK', NEW B \in SUBSET pending, BatchAccepted(B)
    PROVE  ForwardInv'
<1>1. /\ UNCHANGED <<log, captured, server, checkpoint, state, events>>
      /\ delivered' = [delivered EXCEPT ![server] = @ \cup (B \ Implausible)]
      /\ pending' = pending \ B
      /\ pc = "send" /\ pc' = IF pending' = {} THEN "save" ELSE "send"
      /\ server \in Server /\ delivered \in [Server -> SUBSET Event]
  BY DEF BatchAccepted, ForwardInv, TypeOK
<1>2. \A s \in Server : delivered[s] \subseteq delivered'[s]
  BY <1>1
<1>3. CheckpointSound' /\ NothingSteppedOverAnywhere'
  BY <1>1, <1>2, DeliveryForward
<1>4. Undelivered(server)' \subseteq Undelivered(server) \ B
  BY <1>1 DEF Undelivered, Shippable
<1>7. \A e \in B \cap Shippable : e \in delivered'[server]
  BY <1>1 DEF Shippable
<1>5. PassSound'
  BY <1>1, <1>2, <1>4, <1>7 DEF ForwardInv, PassSound, CheckpointFor, Recent
<1>6. QED
  BY <1>3, <1>5 DEF ForwardInv

\* A day that is released takes with it only what the store no longer holds; a
\* pass that has read it sends it all the same.
LEMMA PruneForward ==
    ASSUME ForwardInv, TypeOK', NEW d \in 0..MaxTime, Prune(d)
    PROVE  ForwardInv'
<1>1. /\ log' \subseteq log
      /\ UNCHANGED <<captured, server, checkpoint, delivered, pc, state,
                     events, pending>>
  BY DEF Prune, pass
<1>2. CheckpointSound'
  BY <1>1 DEF ForwardInv, CheckpointSound
<1>3. \A s \in Server : /\ CheckpointFor(s)' = CheckpointFor(s)
                        /\ Undelivered(s)' \subseteq Undelivered(s) \cap log'
  BY <1>1 DEF CheckpointFor, Undelivered
<1>4. NothingSteppedOverAnywhere'
  <2>1. SUFFICES ASSUME NEW s \in Server, NEW e \in Undelivered(s)'
                 PROVE  e \in ToSend(CheckpointFor(s))'
    BY DEF NothingSteppedOverAnywhere
  <2>2. e \in ToSend(CheckpointFor(s)) /\ e \in log'
    BY <1>3 DEF ForwardInv, NothingSteppedOverAnywhere
  <2>3. QED
    BY <1>3, <2>2 DEF ToSend, InRange
<1>5. PassSound'
  <2>1. Undelivered(server)' \subseteq Undelivered(server)
    BY <1>1 DEF Undelivered
  <2>2. CheckpointFor(server)' = CheckpointFor(server)
    BY <1>1 DEF CheckpointFor
  <2>3. QED
    BY <1>1, <2>1, <2>2 DEF ForwardInv, PassSound, Recent
<1>6. QED
  BY <1>2, <1>4, <1>5 DEF ForwardInv

\* The pass has delivered all it read; what it did not read is recent, so the
\* next pass reads it, and the keys it lists are not of those records.
LEMMA SaveForward ==
    ASSUME ForwardInv, TypeOK', Save
    PROVE  ForwardInv'
<1> USE ForwardAssumption
<1>1. PICK t \in 0..MaxTime :
          /\ IsShippedThrough(t, state, events)
          /\ checkpoint' = [shipped |-> t, server |-> server,
                            keys |-> KeysWithin(events, t)]
  BY DEF Save
<1>2. /\ UNCHANGED <<log, captured, server, delivered>> /\ pc' = "tick"
      /\ server \in Server /\ log \subseteq Event
      /\ state = CheckpointFor(server) /\ events \subseteq captured
      /\ \A e \in events \cap Shippable : e \in delivered[server]
      /\ \A e \in Undelivered(server) :
            e \notin events /\ Recent(e, state, events)
  BY DEF Save, PassReturns, ForwardInv, PassSound, TypeOK
<1>3. t = 0 \/ \E f \in captured : Time[f] = t
  <2>1. state.shipped = 0 \/ \E f \in captured : Time[f] = state.shipped
    BY <1>2 DEF CheckpointFor, NoCheckpoint, ForwardInv, CheckpointSound
  <2>2. QED
    BY <1>1, <1>2, <2>1 DEF IsShippedThrough
<1>4. ASSUME NEW e \in events, e \in Shippable PROVE e \in delivered[server]
  BY <1>2, <1>4
<1>5. CheckpointSound'
  BY <1>1, <1>2, <1>3, <1>4 DEF CheckpointSound, KeysWithin
<1>6. ASSUME NEW s \in Server, NEW e \in Undelivered(s)'
      PROVE  e \in ToSend(CheckpointFor(s))'
  <2>1. e \in log /\ e \in Shippable /\ e \in Undelivered(s)
    BY <1>2 DEF Undelivered
  <2>2. CASE s = server
    <3>1. CheckpointFor(s)' = checkpoint' /\ checkpoint' \in Checkpoint
      BY <1>1, <2>2 DEF CheckpointFor, TypeOK
    <3>2. e \notin events /\ Recent(e, state, events)
      BY <1>2, <2>1, <2>2
    <3>3. Time[e] >= t - Overlap
      BY <1>1, <3>2 DEF IsShippedThrough, Recent
    <3>4. Time[e] \in 1..MaxTime
      BY <1>2, <2>1
    <3>5. Time[e] >= From(checkpoint')
      BY <1>1, <3>1, <3>3, <3>4, FromBound
    <3>6. e \notin (checkpoint').keys
      BY <1>1, <3>2 DEF KeysWithin
    <3>7. QED
      BY <1>2, <2>1, <3>1, <3>5, <3>6 DEF ToSend, InRange, Shippable
  <2>3. CASE s # server
    <3>1. CheckpointFor(s)' = NoCheckpoint
      BY <1>1, <2>3 DEF CheckpointFor
    <3>2. Time[e] >= From(NoCheckpoint)
      BY <1>2, <2>1 DEF From, NoCheckpoint
    <3>3. QED
      BY <1>2, <2>1, <3>1, <3>2 DEF ToSend, InRange, NoCheckpoint, Shippable
  <2>4. QED
    BY <2>2, <2>3
<1>7. NothingSteppedOverAnywhere'
  BY <1>6 DEF NothingSteppedOverAnywhere
<1>8. PassSound'
  BY <1>2 DEF PassSound
<1>9. QED
  BY <1>5, <1>7, <1>8 DEF ForwardInv

\* Signed in to another server, or without a readable checkpoint, the next
\* pass goes by none and sends everything.
LEMMA RestartForward ==
    ASSUME ForwardInv, TypeOK', Restart
    PROVE  ForwardInv'
<1>1. UNCHANGED <<log, captured, delivered>> /\ pc' = "tick" /\ log \subseteq Event
  BY DEF Restart, ForwardInv, TypeOK
<1>2. CASE UNCHANGED checkpoint
  <2>1. CheckpointSound' /\ NothingSteppedOverAnywhere'
    BY <1>1, <1>2, DeliveryForward
  <2>2. QED
    BY <1>1, <2>1 DEF ForwardInv, PassSound
<1>3. CASE checkpoint' = NoCheckpoint
  <2>1. CheckpointSound'
    BY <1>3, ForwardAssumption DEF CheckpointSound, NoCheckpoint
  <2>2. \A s \in Server : CheckpointFor(s)' = NoCheckpoint
    BY <1>3 DEF CheckpointFor
  <2>3. \A e \in log \cap Shippable : e \in ToSend(NoCheckpoint)'
    BY <1>1, ForwardAssumption
       DEF ToSend, InRange, From, NoCheckpoint, Shippable
  <2>4. NothingSteppedOverAnywhere'
    <3>1. SUFFICES ASSUME NEW s \in Server, NEW e \in Undelivered(s)'
                   PROVE  e \in ToSend(CheckpointFor(s))'
      BY DEF NothingSteppedOverAnywhere
    <3>2. e \in log \cap Shippable
      BY <1>1 DEF Undelivered
    <3>3. QED
      BY <2>2, <2>3, <3>2 DEF ToSend, InRange
  <2>5. QED
    BY <1>1, <2>1, <2>4 DEF ForwardInv, PassSound
<1>4. QED
  BY <1>2, <1>3 DEF Restart

LEMMA StepForward ==
    ASSUME InOrder, ForwardInv, [Next]_vars
    PROVE  ForwardInv'
<1>1. TypeOK'
  BY StepTypeOK DEF ForwardInv
<1>2. ASSUME UNCHANGED <<log, captured, checkpoint, delivered>>,
             pc' \notin {"send", "save"}
      PROVE  ForwardInv'
  BY <1>1, <1>2, DeliveryForward DEF ForwardInv, PassSound
<1>3. ASSUME NEW e \in Event, Capture(e) PROVE ForwardInv'
  BY <1>3, CaptureForward
<1>15. ASSUME NEW d \in 0..MaxTime, Prune(d) PROVE ForwardInv'
  BY <1>1, <1>15, PruneForward
<1>16. ASSUME NEW B \in SUBSET pending, EventTooLarge(B) PROVE ForwardInv'
  BY <1>2, <1>16 DEF EventTooLarge, PassReturns
<1>4. CASE StartPass
  BY <1>1, <1>4, StartPassForward
<1>5. CASE EmptyPass
  BY <1>2, <1>5 DEF EmptyPass
<1>6. ASSUME NEW B \in SUBSET pending, BatchAccepted(B) PROVE ForwardInv'
  BY <1>1, <1>6, BatchForward
<1>7. ASSUME NEW B \in SUBSET pending, BatchTooLarge(B) PROVE ForwardInv'
  <2>1. UNCHANGED <<log, captured, server, checkpoint, delivered, pc, state,
                    events, pending>>
    BY <1>7 DEF BatchTooLarge
  <2>2. CheckpointSound' /\ NothingSteppedOverAnywhere'
    BY <2>1, DeliveryForward
  <2>3. PassSound'
    BY <2>1 DEF ForwardInv, PassSound, CheckpointFor, Undelivered, Recent
  <2>4. QED
    BY <1>1, <2>2, <2>3 DEF ForwardInv
<1>8. ASSUME NEW B \in SUBSET pending, BatchFails(B) PROVE ForwardInv'
  <2>1. UNCHANGED <<log, captured, checkpoint>> /\ pc' = "tick"
    BY <1>8 DEF BatchFails, PassReturns
  <2>2. \A s \in Server : delivered[s] \subseteq delivered'[s]
    BY <1>8 DEF BatchFails, ForwardInv, TypeOK
  <2>3. CheckpointSound' /\ NothingSteppedOverAnywhere'
    BY <2>1, <2>2, DeliveryForward
  <2>4. QED
    BY <1>1, <2>1, <2>3 DEF ForwardInv, PassSound
<1>9. CASE CredentialRejected
  BY <1>2, <1>9 DEF CredentialRejected
<1>10. CASE Save
  BY <1>1, <1>10, SaveForward
<1>11. CASE SaveFails
  BY <1>2, <1>11 DEF SaveFails, PassReturns
<1>12. CASE Restart
  BY <1>1, <1>12, RestartForward
<1>13. CASE UNCHANGED vars
  <2>1. UNCHANGED <<log, captured, server, checkpoint, delivered, pc, state,
                    events, pending>>
    BY <1>13 DEF vars
  <2>2. CheckpointSound' /\ NothingSteppedOverAnywhere'
    BY <2>1, DeliveryForward
  <2>3. PassSound'
    BY <2>1 DEF ForwardInv, PassSound, CheckpointFor, Undelivered, Recent
  <2>4. QED
    BY <1>1, <2>2, <2>3 DEF ForwardInv
<1>14. QED
  BY <1>3, <1>4, <1>5, <1>6, <1>7, <1>8, <1>9, <1>10, <1>11, <1>12, <1>13, <1>15,
     <1>16 DEF Next, Pass, SendBatch

\* As long as no record is captured more than the overlap after a newer one,
\* no record the store holds is ever stepped over: whatever the server, the
\* batches, the days that are released, the lost requests, the restarts and the
\* checkpoints that could not be written.
THEOREM NeverSteppedOver ==
    ASSUME InOrder
    PROVE  Spec => []NothingSteppedOver
<1>1. Init => ForwardInv
  BY InitForward
<1>2. ForwardInv /\ [Next]_vars => ForwardInv'
  BY StepForward
<1>3. ForwardInv => NothingSteppedOver
  BY DEF ForwardInv, TypeOK, NothingSteppedOverAnywhere, NothingSteppedOver,
     Undelivered
<1>4. QED
  BY <1>1, <1>2, <1>3, PTL DEF Spec

-----------------------------------------------------------------------------
(* What was recorded is not sent again.                                    *)

\* Of a store that returns the range it is asked for: what the checkpoint
\* accounts for and a pass may read again is among the keys it lists.
RecordedListed ==
    /\ recorded \subseteq captured \ Content
    /\ \A e \in recorded \cap log :
          Time[e] >= checkpoint.shipped - Overlap => e \in checkpoint.keys

\* A pass under way goes by the checkpoint, has read what of its records is
\* recent, and sends none of them.
PassCovers ==
    pc \in {"send", "save"} =>
        /\ state = CheckpointFor(server) /\ events \subseteq captured
        /\ \A e \in Covered \cap log : Time[e] >= state.shipped - Overlap => e \in events
        /\ pending \cap Covered = {}

RecordedInv == TypeOK /\ RecordedListed /\ PassCovers

\* Such a store returns nothing from before the overlap.
LEMMA ExactFrom ==
    ASSUME \A t \in 0..MaxTime : RangeStart[t] = t,
           NEW st \in Checkpoint, NEW t \in 1..MaxTime, t >= From(st)
    PROVE  t >= st.shipped - Overlap
<1>1. st.shipped \in 0..MaxTime /\ Overlap \in Nat /\ MaxTime \in Nat
  BY ForwardAssumption DEF Checkpoint
<1>2. CASE st.shipped <= Overlap
  BY <1>1, <1>2
<1>3. CASE ~(st.shipped <= Overlap)
  <2>1. st.shipped - Overlap \in 0..MaxTime
    BY <1>1, <1>3
  <2>2. From(st) = st.shipped - Overlap
    BY <1>3, <2>1 DEF From
  <2>3. QED
    BY <2>2
<1>4. QED
  BY <1>2, <1>3

LEMMA InitRecorded == Init => RecordedInv
<1> SUFFICES ASSUME Init PROVE RecordedInv
  OBVIOUS
<1>1. TypeOK
  BY InitTypeOK
<1>2. RecordedListed /\ PassCovers
  BY DEF Init, RecordedListed, PassCovers
<1>3. QED
  BY <1>1, <1>2 DEF RecordedInv

LEMMA StepRecorded ==
    ASSUME \A t \in 0..MaxTime : RangeStart[t] = t, RecordedInv, [Next]_vars
    PROVE  RecordedInv'
<1> USE ForwardAssumption
<1>1. TypeOK /\ TypeOK' /\ RecordedListed /\ PassCovers
  BY StepTypeOK DEF RecordedInv
<1>2. ASSUME UNCHANGED <<checkpoint, recorded>>, captured \subseteq captured',
             log' \cap captured \subseteq log, pc' \notin {"send", "save"}
      PROVE  RecordedInv'
  BY <1>1, <1>2 DEF RecordedInv, RecordedListed, PassCovers
\* A step inside a pass that sends no more than the pass was going to.
<1>3. ASSUME UNCHANGED <<checkpoint, recorded, server, state, events>>,
             captured \subseteq captured', log' \cap captured \subseteq log,
             pending' \subseteq pending,
             pc \in {"send", "save"} \/ pc' = pc
      PROVE  RecordedInv'
  BY <1>1, <1>3 DEF RecordedInv, RecordedListed, PassCovers, CheckpointFor, Covered
<1>4. ASSUME NEW e \in Event, Capture(e) PROVE RecordedInv'
  BY <1>3, <1>4 DEF Capture, pass
<1>16. ASSUME NEW d \in 0..MaxTime, Prune(d) PROVE RecordedInv'
  BY <1>3, <1>16 DEF Prune, pass
<1>17. ASSUME NEW B \in SUBSET pending, EventTooLarge(B) PROVE RecordedInv'
  BY <1>2, <1>17 DEF EventTooLarge, PassReturns
<1>5. CASE StartPass
  <2>1. /\ UNCHANGED <<log, captured, server, checkpoint, recorded>>
        /\ state' = CheckpointFor(server)
        /\ events' = InRange(CheckpointFor(server)) /\ events' \subseteq log
        /\ pending' = ToSend(CheckpointFor(server))
    BY <1>5 DEF StartPass, InRange
  <2>2. RecordedListed'
    BY <1>1, <2>1 DEF RecordedListed
  <2>3. CheckpointFor(server)' = CheckpointFor(server) /\ Covered' = Covered
    BY <2>1 DEF CheckpointFor, Covered
  <2>4. CheckpointFor(server) \in Checkpoint
    BY <1>1, CheckpointForType DEF TypeOK
  <2>5. ASSUME NEW e \in Covered
        PROVE  /\ e \in captured /\ Time[e] \in 1..MaxTime
               /\ CheckpointFor(server) = checkpoint
               /\ e \in log /\ Time[e] >= checkpoint.shipped - Overlap
                     => e \in checkpoint.keys
    BY <1>1, <2>5 DEF Covered, CheckpointFor, RecordedListed, TypeOK
  <2>6. \A e \in Covered \cap log : Time[e] >= state'.shipped - Overlap => e \in events'
    BY <2>1, <2>4, <2>5, FromBound DEF InRange
  <2>7. ASSUME NEW e \in Covered, e \in pending' PROVE FALSE
    <3>1. e \in log /\ Time[e] >= From(checkpoint) /\ e \notin checkpoint.keys
      BY <2>1, <2>5, <2>7 DEF ToSend, InRange
    <3>2. Time[e] >= checkpoint.shipped - Overlap
      BY <2>4, <2>5, <3>1, ExactFrom
    <3>3. QED
      BY <2>5, <3>1, <3>2
  <2>8. PassCovers'
    BY <1>1, <2>1, <2>3, <2>6, <2>7 DEF PassCovers, TypeOK
  <2>9. QED
    BY <1>1, <2>2, <2>8 DEF RecordedInv
<1>6. CASE EmptyPass
  BY <1>2, <1>6 DEF EmptyPass
<1>7. ASSUME NEW B \in SUBSET pending, BatchAccepted(B) PROVE RecordedInv'
  BY <1>3, <1>7 DEF BatchAccepted
<1>8. ASSUME NEW B \in SUBSET pending, BatchTooLarge(B) PROVE RecordedInv'
  BY <1>3, <1>8 DEF BatchTooLarge
<1>9. ASSUME NEW B \in SUBSET pending, BatchFails(B) PROVE RecordedInv'
  BY <1>2, <1>9 DEF BatchFails, PassReturns
<1>10. CASE CredentialRejected
  BY <1>2, <1>10 DEF CredentialRejected
<1>11. CASE Save
  <2>1. PICK t \in 0..MaxTime :
            /\ IsShippedThrough(t, state, events)
            /\ checkpoint' = [shipped |-> t, server |-> server,
                              keys |-> KeysWithin(events, t)]
    BY <1>11 DEF Save
  <2>2. /\ recorded' = Covered \cup (events \ Content)
        /\ log' = log /\ captured' = captured /\ pc = "save" /\ pc' = "tick"
    BY <1>11 DEF Save, PassReturns
  <2>3. events \subseteq captured
    BY <1>1, <2>2 DEF PassCovers
  <2>4. state.shipped \in 0..MaxTime /\ t >= state.shipped
    BY <1>1, <2>1 DEF TypeOK, Checkpoint, IsShippedThrough
  <2>5. ASSUME NEW e \in recorded' \cap log, Time[e] >= t - Overlap
        PROVE  e \in events
    <3>1. CASE e \in Covered
      <4>1. Time[e] \in 1..MaxTime
        BY <1>1, <3>1 DEF TypeOK, Covered
      <4>2. Time[e] >= state.shipped - Overlap
        BY <2>4, <2>5, <4>1
      <4>3. QED
        BY <1>1, <2>2, <3>1, <4>2 DEF PassCovers
    <3>2. CASE e \notin Covered
      BY <2>2, <3>2
    <3>3. QED
      BY <3>1, <3>2
  <2>6. RecordedListed'
    <3>1. recorded' \subseteq captured' \ Content
      BY <1>1, <2>2, <2>3 DEF RecordedListed, Covered
    <3>2. \A e \in recorded' \cap log : Time[e] >= t - Overlap => e \in KeysWithin(events, t)
      BY <2>5 DEF KeysWithin
    <3>3. QED
      BY <2>1, <2>2, <3>1, <3>2 DEF RecordedListed
  <2>7. QED
    BY <1>1, <2>2, <2>6 DEF RecordedInv, PassCovers
<1>12. CASE SaveFails
  BY <1>2, <1>12 DEF SaveFails, PassReturns
<1>13. CASE Restart
  <2>1. log' = log /\ captured' = captured /\ pc' = "tick"
    BY <1>13 DEF Restart
  <2>2. CASE UNCHANGED <<checkpoint, recorded>>
    BY <1>2, <2>1, <2>2
  <2>3. CASE checkpoint' = NoCheckpoint /\ recorded' = {}
    BY <1>1, <2>1, <2>3 DEF RecordedInv, RecordedListed, PassCovers
  <2>4. QED
    BY <1>13, <2>2, <2>3 DEF Restart
<1>14. CASE UNCHANGED vars
  BY <1>3, <1>14 DEF vars
<1>15. QED
  BY <1>4, <1>5, <1>6, <1>7, <1>8, <1>9, <1>10, <1>11, <1>12, <1>13, <1>14, <1>16,
     <1>17 DEF Next, Pass, SendBatch

\* Of a store that returns the range it is asked for (the Postgres window, not
\* the file store, which returns whole days), what is re-read is not re-sent
\* (forward.go:38-40): a pass sends no record that the checkpoint it goes by
\* accounts for, whatever failed, however often the process was restarted or
\* signed in elsewhere, and whether or not records come in order.
THEOREM RecordedIsNotResent ==
    ASSUME \A t \in 0..MaxTime : RangeStart[t] = t
    PROVE  Spec => []RecordedNotResent
<1>1. Init => RecordedInv
  BY InitRecorded
<1>2. RecordedInv /\ [Next]_vars => RecordedInv'
  BY StepRecorded
<1>3. RecordedInv => RecordedNotResent
  BY DEF RecordedInv, PassCovers, RecordedNotResent
<1>4. QED
  BY <1>1, <1>2, <1>3, PTL DEF Spec
=============================================================================
