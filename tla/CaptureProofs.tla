---------------------------- MODULE CaptureProofs ----------------------------
(***************************************************************************)
(* Theorems about module Capture, for every set of calls, whichever go    *)
(* through the proxy and whichever a transcript has, every size of the     *)
(* capture, and any number of days, failures, kills and replays.           *)
(***************************************************************************)
EXTENDS Capture, FiniteSetTheorems, WellFoundedInduction, TLAPS

IsEnd(ev, c) == ev.type \in {"response", "error"} /\ ev.turn = c /\ ev.msg = None

\* What is stored are events, on days there are; a line is written on such a day.
StoredInv ==
    /\ day \in 1..MaxDay
    /\ stored \in [1..MaxDay -> Seq(Event)]
    /\ pc \in [Proxied -> {"new", "sent", "streaming", "ended", "closed"}]
    /\ wrote \in [Tailed -> Seq(1..MaxDay)]
    /\ \A c \in Tailed : Len(wrote[c]) <= 3
    /\ tail \in [Tailed -> Nat]

\* Nothing tells the end of an exchange under way; something does of one that is
\* over, unless that was lost; and never do two things.
EndsOf(c) ==
    /\ pc[c] \in {"new", "sent", "streaming"} => \A d \in 1..MaxDay : EndsIn(c, d) = {}
    /\ pc[c] \in {"ended", "closed"} /\ kind[c] # "other" /\ c \notin lost =>
          \E d \in 1..MaxDay : EndsIn(c, d) # {}
    /\ \A d, e \in 1..MaxDay : \A i \in EndsIn(c, d), j \in EndsIn(c, e) : d = e /\ i = j

EndsInv == \A c \in Proxied : EndsOf(c)

CaptureInv == StoredInv /\ EndsInv

-----------------------------------------------------------------------------
\* What the proxy and the tailer append are events, and which of them are ends.
LEMMA ProxyEvents ==
    ASSUME NEW c \in Proxied
    PROVE  /\ Request(c) \in Event /\ Response(c) \in Event /\ Error(c) \in Event
           /\ \A k : ~IsEnd(Request(c), k)
           /\ \A k : (IsEnd(Response(c), k) <=> k = c) /\ (IsEnd(Error(c), k) <=> k = c)
<1>1. /\ c \in Id /\ Alias \in Model /\ None \in Id \cup {None}
  BY CaptureAssumption
<1>2. ASSUME NEW type \in EventType PROVE Blank(type, c) \in Event
  BY <1>1, <1>2 DEF Blank, Event
<1>3. Request(c) = [type |-> "request", turn |-> c, msg |-> None, tools |-> {}, usage |-> 0,
                    model |-> Alias, blob |-> 0, answers |-> None]
  BY DEF Request, Blank
<1>4. Error(c) = [type |-> "error", turn |-> c, msg |-> None, tools |-> {}, usage |-> 0,
                  model |-> Alias, blob |-> 0, answers |-> None]
  BY DEF Error, Blank
<1>5. \E usage \in {0, 1, 2}, tools \in {{}, {c}} :
         Response(c) = [type |-> "response", turn |-> c, msg |-> None, tools |-> tools,
                        usage |-> usage, model |-> Alias, blob |-> 0, answers |-> None]
  <2> DEFINE u == IF "message_delta" \in Readable(c) THEN 2
                  ELSE IF "message_start" \in Readable(c) THEN 1 ELSE 0
             t == IF "content_block_start" \in Readable(c) THEN {c} ELSE {}
  <2>1. Response(c) = [Request(c) EXCEPT !.type = "response", !.usage = u, !.tools = t]
    BY DEF Response
  <2>2. u \in {0, 1, 2} /\ t \in {{}, {c}}
    OBVIOUS
  <2> HIDE DEF u, t
  <2>3. Response(c) = [type |-> "response", turn |-> c, msg |-> None, tools |-> t,
                       usage |-> u, model |-> Alias, blob |-> 0, answers |-> None]
    BY <2>1 DEF Request, Blank
  <2> QED
    BY <2>2, <2>3
<1> QED
  BY <1>1, <1>3, <1>4, <1>5 DEF Event, EventType, IsEnd

LEMMA LineEvents ==
    ASSUME NEW c \in Tailed, NEW n \in 1..3
    PROVE  /\ Lines(c)[n] \in Seq(Event)
           /\ \A i \in 1..Len(Lines(c)[n]) : \A k : ~IsEnd(Lines(c)[n][i], k)
<1>1. c \in Id /\ c # None /\ Served \in Model
  BY CaptureAssumption
<1>2. /\ \A u \in Nat, t \in {{}, {c}} : Measure(c, u, t) \in Event /\ Measure(c, u, t).msg = c
      /\ \A m \in Nat : Content(c, m) \in Event /\ Content(c, m).type = "content"
      /\ \A m \in Nat : Result(c, m) \in Event /\ Result(c, m).type = "result"
  BY <1>1 DEF Measure, Content, Result, Blank, Event, EventType
<1>3. /\ \A u \in Nat, t \in {{}, {c}} : \A k : ~IsEnd(Measure(c, u, t), k)
      /\ \A m \in Nat : \A k : ~IsEnd(Content(c, m), k) /\ ~IsEnd(Result(c, m), k)
  BY <1>1, <1>2 DEF IsEnd
<1> DEFINE Harmless(ev) == ev \in Event /\ \A k : ~IsEnd(ev, k)
<1>4. /\ Harmless(Measure(c, 1, {})) /\ Harmless(Measure(c, 2, {c}))
      /\ Harmless(Content(c, 1)) /\ Harmless(Content(c, 2)) /\ Harmless(Result(c, 3))
  BY <1>2, <1>3
<1> HIDE DEF Harmless
<1>5. /\ Lines(c)[1] = <<Measure(c, 1, {}), Content(c, 1)>>
      /\ Lines(c)[2] = <<Measure(c, 2, {c}), Content(c, 2)>>
      /\ Lines(c)[3] = <<Result(c, 3)>>
  BY DEF Lines
<1>6. \A a, b : Harmless(a) /\ Harmless(b) =>
         <<a, b>> \in Seq(Event) /\ \A i \in 1..Len(<<a, b>>) : Harmless(<<a, b>>[i])
  BY DEF Harmless
<1>7. \A a : Harmless(a) =>
         <<a>> \in Seq(Event) /\ \A i \in 1..Len(<<a>>) : Harmless(<<a>>[i])
  BY DEF Harmless
<1>8. Lines(c)[n] \in Seq(Event) /\ \A i \in 1..Len(Lines(c)[n]) : Harmless(Lines(c)[n][i])
  <2>1. CASE n = 1
    BY <1>4, <1>5, <1>6, <2>1
  <2>2. CASE n = 2
    BY <1>4, <1>5, <1>6, <2>2
  <2>3. CASE n = 3
    BY <1>4, <1>5, <1>7, <2>3
  <2> QED
    BY <2>1, <2>2, <2>3
<1> QED
  BY <1>8 DEF Harmless

\* Appending to one day adds the ends among what is appended.
LEMMA AppendEnds ==
    ASSUME StoredInv, NEW f \in 1..MaxDay, NEW evs \in Seq(Event),
           stored' = [stored EXCEPT ![f] = @ \o evs], NEW c
    PROVE  /\ stored' \in [1..MaxDay -> Seq(Event)]
           /\ \A d \in 1..MaxDay : EndsIn(c, d)' =
                 IF d = f
                 THEN EndsIn(c, d)
                      \cup {Len(stored[f]) + i : i \in {i \in 1..Len(evs) : IsEnd(evs[i], c)}}
                 ELSE EndsIn(c, d)
<1>1. stored[f] \in Seq(Event)
  BY DEF StoredInv
<1>2. /\ stored[f] \o evs \in Seq(Event)
      /\ DOMAIN (stored[f] \o evs) = 1..(Len(stored[f]) + Len(evs))
      /\ DOMAIN stored[f] = 1..Len(stored[f])
      /\ Len(stored[f]) \in Nat /\ Len(evs) \in Nat
      /\ \A i \in 1..Len(stored[f]) : (stored[f] \o evs)[i] = stored[f][i]
      /\ \A i \in 1..Len(evs) : (stored[f] \o evs)[Len(stored[f]) + i] = evs[i]
  BY <1>1
<1>3. stored' \in [1..MaxDay -> Seq(Event)]
  BY <1>2 DEF StoredInv
<1>4. /\ stored'[f] = stored[f] \o evs
      /\ \A d \in 1..MaxDay : d # f => stored'[d] = stored[d]
  BY DEF StoredInv
<1>5. \A d \in 1..MaxDay : d # f => EndsIn(c, d)' = EndsIn(c, d)
  BY <1>4 DEF EndsIn
<1>6. /\ EndsIn(c, f) = {i \in 1..Len(stored[f]) : IsEnd(stored[f][i], c)}
      /\ EndsIn(c, f)' = {i \in 1..(Len(stored[f]) + Len(evs)) : IsEnd((stored[f] \o evs)[i], c)}
  BY <1>2, <1>4 DEF EndsIn, IsEnd
<1>7. EndsIn(c, f)' = EndsIn(c, f)
         \cup {Len(stored[f]) + i : i \in {i \in 1..Len(evs) : IsEnd(evs[i], c)}}
  <2> DEFINE n == Len(stored[f])
             m == Len(evs)
  <2>1. ASSUME NEW i \in 1..(n + m), ~(i \in 1..n)
        PROVE  i - n \in 1..m /\ i = n + (i - n)
    BY <1>2, <2>1
  <2>2. ASSUME NEW i \in 1..(n + m), IsEnd((stored[f] \o evs)[i], c)
        PROVE  \/ i \in 1..n /\ IsEnd(stored[f][i], c)
               \/ \E j \in 1..m : i = n + j /\ IsEnd(evs[j], c)
    BY <1>2, <2>1, <2>2
  <2>3. ASSUME NEW i \in 1..n, IsEnd(stored[f][i], c)
        PROVE  i \in 1..(n + m) /\ IsEnd((stored[f] \o evs)[i], c)
    BY <1>2, <2>3
  <2>4. ASSUME NEW j \in 1..m, IsEnd(evs[j], c)
        PROVE  n + j \in 1..(n + m) /\ IsEnd((stored[f] \o evs)[n + j], c)
    BY <1>2, <2>4
  <2> DEFINE new == {n + j : j \in {j \in 1..m : IsEnd(evs[j], c)}}
  <2>5. \A i \in EndsIn(c, f)' : i \in EndsIn(c, f) \cup new
    BY <1>6, <2>2
  <2>6. \A i \in EndsIn(c, f) \cup new : i \in EndsIn(c, f)'
    BY <1>6, <2>3, <2>4
  <2>7. EndsIn(c, f)' = EndsIn(c, f) \cup new
    <3> HIDE DEF new
    <3> QED
      BY <2>5, <2>6
  <2> QED
    BY <2>7
<1> QED
  BY <1>3, <1>5, <1>7

\* A step that stores no end of an exchange, and brings none to its end that is
\* not lost.
LEMMA QuietStep ==
    ASSUME NEW k \in Proxied, EndsOf(k), kind' = kind, lost \subseteq lost',
           \A d \in 1..MaxDay : EndsIn(k, d)' = EndsIn(k, d),
           \/ pc'[k] = pc[k]
           \/ pc[k] \in {"new", "sent", "streaming"} /\ pc'[k] \in {"new", "sent", "streaming"}
           \/ pc[k] = "ended" /\ pc'[k] = "closed"
           \/ pc'[k] \in {"ended", "closed"} /\ (kind[k] = "other" \/ k \in lost')
    PROVE  EndsOf(k)'
<1>1. (pc[k] \in {"new", "sent", "streaming"})' => \A d \in 1..MaxDay : EndsIn(k, d)' = {}
  BY DEF EndsOf
<1>2. (pc[k] \in {"ended", "closed"} /\ kind[k] # "other" /\ k \notin lost)' =>
         \E d \in 1..MaxDay : EndsIn(k, d)' # {}
  BY DEF EndsOf
<1>3. \A d, e \in 1..MaxDay : \A i \in EndsIn(k, d)', j \in EndsIn(k, e)' : d = e /\ i = j
  BY DEF EndsOf
<1> QED
  BY <1>1, <1>2, <1>3 DEF EndsOf

\* What Record does to the ends of any exchange.
LEMMA RecordEnds ==
    ASSUME StoredInv, NEW c \in Proxied, NEW ev \in Event, Record(c, ev), NEW k
    PROVE  /\ stored' \in [1..MaxDay -> Seq(Event)]
           /\ lost \subseteq lost'
           /\ ~IsEnd(ev, k) => \A d \in 1..MaxDay : EndsIn(k, d)' = EndsIn(k, d)
           /\ IsEnd(ev, k) =>
                 \/ /\ kind[c] = "other" \/ c \in lost'
                    /\ \A d \in 1..MaxDay : EndsIn(k, d)' = EndsIn(k, d)
                 \/ \A d \in 1..MaxDay : EndsIn(k, d)' =
                       IF d = day THEN EndsIn(k, d) \cup {Len(stored[day]) + 1}
                                  ELSE EndsIn(k, d)
<1>1. CASE stored' = stored /\ lost \subseteq lost' /\ (kind[c] = "other" \/ c \in lost')
  <2>1. \A d \in 1..MaxDay : EndsIn(k, d)' = EndsIn(k, d)
    BY <1>1 DEF EndsIn
  <2> QED
    BY <1>1, <2>1 DEF StoredInv
<1>2. CASE stored' = [stored EXCEPT ![day] = Append(@, ev)] /\ lost' = lost
  <2>1. /\ day \in 1..MaxDay /\ stored[day] \in Seq(Event)
        /\ <<ev>> \in Seq(Event) /\ Len(<<ev>>) = 1 /\ <<ev>>[1] = ev
    BY DEF StoredInv
  <2>2. Append(stored[day], ev) = stored[day] \o <<ev>>
    BY <2>1
  <2>3. stored' = [stored EXCEPT ![day] = @ \o <<ev>>]
    BY <1>2, <2>1, <2>2 DEF StoredInv
  <2> DEFINE new == {Len(stored[day]) + i : i \in {i \in 1..Len(<<ev>>) : IsEnd(<<ev>>[i], k)}}
  <2>4. /\ stored' \in [1..MaxDay -> Seq(Event)]
        /\ \A d \in 1..MaxDay : EndsIn(k, d)' =
              IF d = day THEN EndsIn(k, d) \cup new ELSE EndsIn(k, d)
    BY <2>1, <2>3, AppendEnds
  <2>5. 1..Len(<<ev>>) = {1}
    BY <2>1
  <2>6. IsEnd(ev, k) => new = {Len(stored[day]) + 1}
    BY <2>1, <2>5
  <2>7. ~IsEnd(ev, k) => new = {}
    BY <2>1, <2>5
  <2> HIDE DEF new
  <2> QED
    BY <1>2, <2>4, <2>6, <2>7
<1> QED
  BY <1>1, <1>2 DEF Record

\* A step of exchange c that records an end of it, of which there was none.
LEMMA EndStep ==
    ASSUME StoredInv, NEW c \in Proxied, EndsOf(c), NEW ev \in Event, Record(c, ev),
           IsEnd(ev, c), kind' = kind,
           pc[c] \in {"sent", "streaming"}, pc'[c] \in {"ended", "closed"}
    PROVE  EndsOf(c)'
<1>1. \A d \in 1..MaxDay : EndsIn(c, d) = {}
  BY DEF EndsOf
<1>2. CASE /\ kind[c] = "other" \/ c \in lost'
           /\ \A d \in 1..MaxDay : EndsIn(c, d)' = EndsIn(c, d)
  BY <1>2, RecordEnds, QuietStep
<1>3. CASE \A d \in 1..MaxDay : EndsIn(c, d)' =
              IF d = day THEN EndsIn(c, d) \cup {Len(stored[day]) + 1} ELSE EndsIn(c, d)
  <2>1. day \in 1..MaxDay
    BY DEF StoredInv
  <2>2. \A d \in 1..MaxDay : EndsIn(c, d)' =
           IF d = day THEN {Len(stored[day]) + 1} ELSE {}
    BY <1>1, <1>3
  <2>3. \E d \in 1..MaxDay : EndsIn(c, d)' # {}
    BY <2>1, <2>2
  <2>4. \A d, e \in 1..MaxDay : \A i \in EndsIn(c, d)', j \in EndsIn(c, e)' : d = e /\ i = j
    BY <2>2
  <2>5. ~(pc[c] \in {"new", "sent", "streaming"})'
    OBVIOUS
  <2> QED
    BY <2>3, <2>4, <2>5 DEF EndsOf
<1> QED
  BY <1>2, <1>3, RecordEnds

LEMMA CaptureInit == Init => CaptureInv
<1> SUFFICES ASSUME Init PROVE CaptureInv
  OBVIOUS
<1>1. StoredInv
  BY CaptureAssumption DEF Init, StoredInv
<1>2. \A c \in Proxied, d \in 1..MaxDay : EndsIn(c, d) = {}
  BY DEF Init, EndsIn
<1>3. EndsInv
  BY <1>2 DEF Init, EndsInv, EndsOf
<1> QED
  BY <1>1, <1>3 DEF CaptureInv

LEMMA CaptureNext == CaptureInv /\ [Next]_vars => CaptureInv'
<1> SUFFICES ASSUME CaptureInv, [Next]_vars PROVE CaptureInv'
  OBVIOUS
<1>0. StoredInv /\ \A k \in Proxied : EndsOf(k)
  BY DEF CaptureInv, EndsInv
<1>1. ASSUME NEW c \in Proxied, ServeHTTP(c) PROVE CaptureInv'
  <2>1. /\ pc[c] = "new" /\ pc' = [pc EXCEPT ![c] = "sent"] /\ Record(c, Request(c))
        /\ kind' = kind /\ day' = day /\ wrote' = wrote /\ tail' = tail
    BY <1>1 DEF ServeHTTP, At, tailer
  <2>2. stored' \in [1..MaxDay -> Seq(Event)] /\ lost \subseteq lost'
    BY <1>0, <2>1, RecordEnds, ProxyEvents
  <2>3. StoredInv'
    BY <1>0, <2>1, <2>2 DEF StoredInv
  <2>4. ASSUME NEW k \in Proxied PROVE EndsOf(k)'
    <3>0. Request(c) \in Event /\ ~IsEnd(Request(c), k)
      BY ProxyEvents
    <3>1. \A d \in 1..MaxDay : EndsIn(k, d)' = EndsIn(k, d)
      BY <1>0, <2>1, <3>0, RecordEnds
    <3>2. pc'[k] = pc[k] \/ (pc[k] = "new" /\ pc'[k] = "sent")
      BY <1>0, <2>1 DEF StoredInv
    <3> QED
      BY <1>0, <2>1, <2>2, <3>1, <3>2, QuietStep
  <2> QED
    BY <2>3, <2>4 DEF CaptureInv, EndsInv
\* One record, of the end of this exchange alone.
<1>2. ASSUME NEW c \in Proxied, NEW ev \in {Response(c), Error(c)}, Record(c, ev),
             NEW to \in {"ended", "closed"}, pc[c] \in {"sent", "streaming"},
             pc' = [pc EXCEPT ![c] = to],
             UNCHANGED <<day, kind, wrote, tail>>
      PROVE CaptureInv'
  <2>0. ev \in Event /\ \A k : IsEnd(ev, k) <=> k = c
    BY ProxyEvents
  <2>1. stored' \in [1..MaxDay -> Seq(Event)] /\ lost \subseteq lost'
    BY <1>0, <1>2, <2>0, RecordEnds
  <2>2. StoredInv'
    BY <1>0, <1>2, <2>1 DEF StoredInv
  <2>3. EndsOf(c)'
    <3>1. pc'[c] \in {"ended", "closed"}
      BY <1>0, <1>2 DEF StoredInv
    <3> QED
      BY <1>0, <1>2, <2>0, <3>1, EndStep
  <2>4. ASSUME NEW k \in Proxied, k # c PROVE EndsOf(k)'
    <3>1. \A d \in 1..MaxDay : EndsIn(k, d)' = EndsIn(k, d)
      BY <1>0, <1>2, <2>0, <2>4, RecordEnds
    <3>2. pc'[k] = pc[k]
      BY <1>0, <1>2, <2>4 DEF StoredInv
    <3> QED
      BY <1>0, <1>2, <2>1, <3>1, <3>2, QuietStep
  <2> QED
    BY <2>2, <2>3, <2>4 DEF CaptureInv, EndsInv
<1>3. ASSUME NEW c \in Proxied, HandleError(c) PROVE CaptureInv'
  <2>1. /\ pc[c] = "sent" /\ pc' = [pc EXCEPT ![c] = "closed"] /\ Record(c, Error(c))
        /\ UNCHANGED <<day, kind, wrote, tail>>
    BY <1>3 DEF HandleError, At, tailer
  <2> QED
    BY <1>2, <2>1
<1>4. ASSUME NEW c \in Proxied, ReadEnds(c) PROVE CaptureInv'
  <2>1. /\ pc[c] = "streaming" /\ pc' = [pc EXCEPT ![c] = "ended"] /\ Record(c, Response(c))
        /\ UNCHANGED <<day, kind, wrote, tail>>
    BY <1>4 DEF ReadEnds, At, tailer
  <2> QED
    BY <1>2, <2>1
\* Nothing is stored and nothing comes to its end.
<1>5. ASSUME UNCHANGED <<stored, kind, lost>>, StoredInv',
             \A k \in Proxied :
                \/ pc'[k] = pc[k]
                \/ pc[k] = "sent" /\ pc'[k] = "streaming"
                \/ pc[k] = "ended" /\ pc'[k] = "closed"
      PROVE CaptureInv'
  <2>1. ASSUME NEW k \in Proxied PROVE EndsOf(k)'
    <3>1. \A d \in 1..MaxDay : EndsIn(k, d)' = EndsIn(k, d)
      BY <1>5 DEF EndsIn
    <3> QED
      BY <1>0, <1>5, <3>1, QuietStep
  <2> QED
    BY <1>5, <2>1 DEF CaptureInv, EndsInv
<1>6. ASSUME NEW c \in Proxied, ModifyResponse(c) PROVE CaptureInv'
  <2>1. /\ pc[c] = "sent" /\ pc' = [pc EXCEPT ![c] = "streaming"]
        /\ UNCHANGED <<day, stored, kind, lost, wrote, tail>>
    BY <1>6 DEF ModifyResponse, At, tailer
  <2>2. StoredInv' /\ \A k \in Proxied : pc'[k] = pc[k] \/ (pc[k] = "sent" /\ pc'[k] = "streaming")
    BY <1>0, <2>1 DEF StoredInv
  <2> QED
    BY <1>5, <2>1, <2>2
<1>7. ASSUME NEW c \in Proxied, Read(c) PROVE CaptureInv'
  <2>1. /\ pc[c] = "streaming" /\ pc' = [pc EXCEPT ![c] = "streaming"]
        /\ UNCHANGED <<day, stored, kind, lost, wrote, tail>>
    BY <1>7 DEF Read, At, tailer
  <2>2. StoredInv' /\ \A k \in Proxied : pc'[k] = pc[k]
    BY <1>0, <2>1 DEF StoredInv
  <2> QED
    BY <1>5, <2>1, <2>2
<1>8. ASSUME NEW c \in Proxied, Close(c) PROVE CaptureInv'
  <2>0. UNCHANGED <<day, kind, wrote, tail>>
    BY <1>8 DEF Close, tailer
  <2>1. CASE At(c, "ended", "closed") /\ UNCHANGED <<stored, lost, faults>>
    <3>1. StoredInv' /\ \A k \in Proxied : pc'[k] = pc[k] \/ (pc[k] = "ended" /\ pc'[k] = "closed")
      BY <1>0, <2>0, <2>1 DEF StoredInv, At
    <3> QED
      BY <1>5, <2>0, <2>1, <3>1
  <2>2. CASE At(c, "streaming", "closed") /\ Record(c, Response(c))
    BY <1>2, <2>0, <2>2 DEF At
  <2> QED
    BY <1>8, <2>1, <2>2 DEF Close
<1>9. ASSUME Killed PROVE CaptureInv'
  <2> DEFINE open == {c \in Proxied : pc[c] \in {"sent", "streaming", "ended"}}
  <2>1. /\ pc' = [c \in Proxied |-> IF c \in open THEN "closed" ELSE pc[c]]
        /\ lost' = lost \cup {c \in open : pc[c] # "ended"}
        /\ UNCHANGED <<day, stored, kind, wrote, tail>>
    BY <1>9 DEF Killed, tailer
  <2>2. StoredInv'
    BY <1>0, <2>1 DEF StoredInv
  <2>3. ASSUME NEW k \in Proxied PROVE EndsOf(k)'
    <3>1. \A d \in 1..MaxDay : EndsIn(k, d)' = EndsIn(k, d)
      BY <2>1 DEF EndsIn
    <3>2. \/ pc'[k] = pc[k]
          \/ pc[k] = "ended" /\ pc'[k] = "closed"
          \/ pc'[k] = "closed" /\ k \in lost'
      BY <2>1
    <3> QED
      BY <1>0, <2>1, <3>1, <3>2, QuietStep
  <2> QED
    BY <2>2, <2>3 DEF CaptureInv, EndsInv
<1>10. ASSUME NEW c \in Tailed, WriteLine(c) PROVE CaptureInv'
  <2>1. /\ Len(wrote[c]) < Len(Lines(c)) /\ wrote' = [wrote EXCEPT ![c] = Append(@, day)]
        /\ UNCHANGED <<day, stored, kind, pc, tail, lost>>
    BY <1>10 DEF WriteLine, exchange, tailer
  <2>2. Len(Lines(c)) = 3
    BY DEF Lines
  <2>3. wrote[c] \in Seq(1..MaxDay) /\ Append(wrote[c], day) \in Seq(1..MaxDay)
        /\ Len(Append(wrote[c], day)) = Len(wrote[c]) + 1 /\ Len(wrote[c]) \in Nat
    BY <1>0 DEF StoredInv
  <2>4. StoredInv'
    BY <1>0, <2>1, <2>2, <2>3 DEF StoredInv
  <2> QED
    BY <1>5, <2>1, <2>4
<1>11. ASSUME NEW c \in Tailed, NEW n \in 1..2, AppendLine(c, n) PROVE CaptureInv'
  <2> DEFINE next == tail[c] + 1
             line == Lines(c)[next]
             f == wrote[c][next]
             evs == SubSeq(line, 1, n)
  <2>1. /\ next <= Len(wrote[c]) /\ n <= Len(line)
        /\ stored' = [stored EXCEPT ![f] = @ \o evs]
        /\ tail' = tail \/ tail' = [tail EXCEPT ![c] = next]
        /\ UNCHANGED <<day, kind, pc, wrote, lost>>
    BY <1>11 DEF AppendLine, exchange
  <2>2. next \in 1..3 /\ f \in 1..MaxDay
    <3>1. tail[c] + 1 <= Len(wrote[c])
      BY <2>1
    <3>2. wrote[c] \in Seq(1..MaxDay) /\ tail[c] \in Nat /\ Len(wrote[c]) <= 3
      BY <1>0 DEF StoredInv
    <3>3. Len(wrote[c]) \in Nat
      BY <3>2
    <3>4. tail[c] + 1 \in 1..Len(wrote[c]) /\ tail[c] + 1 \in 1..3
      BY <3>1, <3>2, <3>3
    <3>5. wrote[c][tail[c] + 1] \in 1..MaxDay
      <4>1. \A S : \A q \in Seq(S) : \A i \in 1..Len(q) : q[i] \in S
        OBVIOUS
      <4> QED
        BY <3>2, <3>4, <4>1
    <3> QED
      BY <3>4, <3>5
  <2>3. line \in Seq(Event) /\ \A i \in 1..Len(line) : \A k : ~IsEnd(line[i], k)
    BY <2>2, LineEvents
  <2>4. /\ evs \in Seq(Event) /\ Len(evs) = n
        /\ \A i \in 1..n : evs[i] = line[i]
    <3> HIDE DEF line
    <3> QED
      BY <2>1, <2>3
  <2>5. tail' \in [Tailed -> Nat]
    <3>1. tail \in [Tailed -> Nat] /\ next \in Nat
      BY <1>0, <2>2 DEF StoredInv
    <3> HIDE DEF next
    <3> QED
      BY <2>1, <3>1
  <2> HIDE DEF line, f, evs, next
  <2>6. \A k : {i \in 1..Len(evs) : IsEnd(evs[i], k)} = {}
    BY <2>1, <2>3, <2>4
  <2>7. ASSUME NEW k
        PROVE  /\ stored' \in [1..MaxDay -> Seq(Event)]
               /\ \A d \in 1..MaxDay : EndsIn(k, d)' = EndsIn(k, d)
    <3> DEFINE ends == {i \in 1..Len(evs) : IsEnd(evs[i], k)}
               new == {Len(stored[f]) + i : i \in ends}
    <3>1. /\ stored' \in [1..MaxDay -> Seq(Event)]
          /\ \A d \in 1..MaxDay : EndsIn(k, d)' =
                IF d = f THEN EndsIn(k, d) \cup new ELSE EndsIn(k, d)
      BY <1>0, <2>1, <2>2, <2>4, AppendEnds
    <3>2. new = {}
      BY <2>6
    <3> HIDE DEF new
    <3> QED
      BY <3>1, <3>2
  <2>8. StoredInv'
    BY <1>0, <2>1, <2>5, <2>7 DEF StoredInv
  <2>9. ASSUME NEW k \in Proxied PROVE EndsOf(k)'
    BY <1>0, <2>1, <2>7, QuietStep
  <2> QED
    BY <2>8, <2>9 DEF CaptureInv, EndsInv
<1>12. ASSUME NEW c \in Tailed, Replay(c) PROVE CaptureInv'
  <2>1. UNCHANGED <<day, stored, kind, pc, wrote, lost>>
    BY <1>12 DEF Replay, exchange
  <2>2. PICK n \in 0..tail[c] - 1 : tail' = [tail EXCEPT ![c] = n]
    BY <1>12 DEF Replay
  <2>3. StoredInv'
    BY <1>0, <2>1, <2>2 DEF StoredInv
  <2> QED
    BY <1>5, <2>1, <2>3
<1>13. ASSUME Midnight PROVE CaptureInv'
  <2>1. day' = day + 1 /\ day < MaxDay /\ UNCHANGED <<stored, kind, pc, wrote, tail, lost>>
    BY <1>13 DEF Midnight, exchange, tailer
  <2>2. StoredInv'
    BY <1>0, <2>1, CaptureAssumption DEF StoredInv
  <2> QED
    BY <1>5, <2>1, <2>2
<1>14. CASE UNCHANGED vars
  <2>1. UNCHANGED <<day, stored, kind, pc, wrote, tail, lost>>
    BY <1>14 DEF vars, exchange, tailer
  <2>2. StoredInv'
    BY <1>0, <2>1 DEF StoredInv
  <2> QED
    BY <1>5, <2>1, <2>2
<1> QED
  BY <1>1, <1>3, <1>4, <1>6, <1>7, <1>8, <1>9, <1>10, <1>11, <1>12, <1>13, <1>14
  DEF Next, Exchange

-----------------------------------------------------------------------------
\* At most one event tells the end of an exchange, and of one that is over
\* exactly one: counting them is what EndedOnce does.
LEMMA CaptureInvImplies == CaptureInv => EndedOnce
<1> SUFFICES ASSUME CaptureInv, NEW c \in Proxied
             PROVE  /\ Cardinality(Ends(c)) <= 1
                    /\ pc[c] = "closed" /\ kind[c] # "other" /\ c \notin lost => Ends(c) # {}
  BY DEF EndedOnce
<1>1. EndsOf(c)
  BY DEF CaptureInv, EndsInv
<1>2. \A x : x \in Ends(c) <=> \E d \in 1..MaxDay : \E i \in EndsIn(c, d) : x = <<d, i>>
  BY DEF Ends
<1>3. \A x, y \in Ends(c) : x = y
  BY <1>1, <1>2 DEF EndsOf
<1>4. Cardinality(Ends(c)) <= 1
  <2>1. CASE Ends(c) = {}
    BY <2>1, FS_EmptySet
  <2>2. CASE Ends(c) # {}
    <3>1. PICK x : x \in Ends(c)
      BY <2>2
    <3>2. Ends(c) = {x}
      BY <1>3, <3>1
    <3> QED
      BY <3>2, FS_Singleton
  <2> QED
    BY <2>1, <2>2
<1>5. ASSUME pc[c] = "closed", kind[c] # "other", c \notin lost PROVE Ends(c) # {}
  <2>1. PICK d \in 1..MaxDay : EndsIn(c, d) # {}
    BY <1>1, <1>5 DEF EndsOf
  <2>2. PICK i : i \in EndsIn(c, d)
    BY <2>1
  <2> QED
    BY <1>2, <2>1, <2>2
<1> QED
  BY <1>4, <1>5

\* An exchange is recorded as ended at most once, and once it is over exactly
\* once unless that record was lost, however the upstream, the client, the end of
\* the stream and a kill meet (captureReader of internal/proxy), whatever the
\* tailer appends and appends again beside it.
THEOREM ExchangeEndsOnce == Spec => []EndedOnce
<1>1. Init => CaptureInv
  BY CaptureInit
<1>2. CaptureInv /\ [Next]_vars => CaptureInv'
  BY CaptureNext
<1>3. CaptureInv => EndedOnce
  BY CaptureInvImplies
<1> QED
  BY <1>1, <1>2, <1>3, PTL DEF Spec

-----------------------------------------------------------------------------
\* What the types are worth: a capture never holds more than it may, nor frames
\* that were not delivered; the tailer never stores what was not written, nor
\* goes past what it has stored.
BoundsInv ==
    /\ kind \in [Proxied -> Kind]
    /\ sent \in [Proxied -> 0..Len(Frames)]
    /\ truncated \in [Proxied -> BOOLEAN]
    /\ buf \in [Proxied -> Seq(ToSet(Frames))]
    /\ \A c \in Proxied :
          Held(c) <= MaxCapture /\ Len(buf[c]) + (IF truncated[c] THEN 1 ELSE 0) <= sent[c]
    /\ reached \in [Tailed -> Nat]
    /\ \A c \in Tailed : tail[c] <= reached[c] /\ reached[c] <= Len(wrote[c])
    /\ lost \subseteq Proxied /\ faults \in 0..MaxFaults /\ replays \in 0..MaxReplays

\* Keeping one more frame takes no more room than the frame has.
LEMMA HeldAppend ==
    ASSUME NEW q \in Seq(ToSet(Frames)), NEW frame \in ToSet(Frames), NEW long \in BOOLEAN
    PROVE  Len(Append(q, frame))
              + (IF long /\ "content_block_start" \in ToSet(Append(q, frame))
                 THEN MaxCapture - 1 ELSE 0)
           <= Len(q)
              + (IF long /\ "content_block_start" \in ToSet(q) THEN MaxCapture - 1 ELSE 0)
              + (IF long /\ frame = "content_block_start" THEN MaxCapture ELSE 1)
<1>1. MaxCapture \in Nat /\ MaxCapture >= 1 /\ Len(q) \in Nat
  BY CaptureAssumption
<1>2. Len(Append(q, frame)) = Len(q) + 1
  OBVIOUS
<1>3. "content_block_start" \in ToSet(Append(q, frame)) =>
         "content_block_start" \in ToSet(q) \/ frame = "content_block_start"
  <2>1. ASSUME NEW i \in DOMAIN Append(q, frame), Append(q, frame)[i] = "content_block_start",
               frame # "content_block_start"
        PROVE  i \in DOMAIN q /\ q[i] = "content_block_start"
    BY <2>1
  <2> QED
    BY <2>1 DEF ToSet
<1>4. "content_block_start" \in ToSet(q) => "content_block_start" \in ToSet(Append(q, frame))
  <2>1. ASSUME NEW i \in DOMAIN q
        PROVE  i \in DOMAIN Append(q, frame) /\ Append(q, frame)[i] = q[i]
    BY <2>1
  <2> QED
    BY <2>1 DEF ToSet
<1>5. CASE long /\ "content_block_start" \in ToSet(Append(q, frame))
  <2>1. CASE "content_block_start" \in ToSet(q)
    BY <1>1, <1>2, <1>5, <2>1
  <2>2. CASE "content_block_start" \notin ToSet(q) /\ frame = "content_block_start"
    BY <1>1, <1>2, <1>5, <2>2
  <2> QED
    BY <1>3, <1>5, <2>1, <2>2
<1>6. CASE ~(long /\ "content_block_start" \in ToSet(Append(q, frame)))
  <2> DEFINE more == IF long /\ frame = "content_block_start" THEN MaxCapture ELSE 1
  <2>1. more \in Nat /\ more >= 1
    BY <1>1
  <2>2. ~(long /\ "content_block_start" \in ToSet(q))
    BY <1>4, <1>6
  <2> HIDE DEF more
  <2>3. Len(Append(q, frame)) <= Len(q) + more
    BY <1>1, <1>2, <2>1
  <2>4. \A m, n, k \in Nat : m <= n + k => m + 0 <= n + 0 + k
    OBVIOUS
  <2>5. Len(Append(q, frame)) + 0 <= Len(q) + 0 + more
    BY <1>1, <1>2, <2>1, <2>3, <2>4
  <2> QED
    BY <1>6, <2>2, <2>5 DEF more
<1> QED
  BY <1>5, <1>6

LEMMA BoundsInit == Init => BoundsInv
<1> SUFFICES ASSUME Init PROVE BoundsInv
  OBVIOUS
<1>1. MaxCapture \in Nat /\ MaxFaults \in Nat /\ MaxReplays \in Nat /\ Len(Frames) = 3
  BY CaptureAssumption DEF Frames
<1>2. \A c \in Proxied : /\ Held(c) = 0 /\ Len(buf[c]) = 0
                         /\ truncated[c] = FALSE /\ sent[c] = 0
  BY DEF Init, Held, ToSet
<1>3. ASSUME NEW c \in Proxied
      PROVE  Held(c) <= MaxCapture /\ Len(buf[c]) + (IF truncated[c] THEN 1 ELSE 0) <= sent[c]
  <2>1. ~truncated[c]
    BY <1>2, Zenon
  <2> QED
    BY <1>1, <1>2, <2>1
<1>4. \A c \in Tailed : tail[c] = 0 /\ reached[c] = 0 /\ Len(wrote[c]) = 0
  BY DEF Init
<1> QED
  BY <1>1, <1>3, <1>4 DEF Init, BoundsInv

\* Record loses exchanges at the cost of a fault, and touches no bound.
LEMMA RecordBounds ==
    ASSUME BoundsInv, NEW c \in Proxied, NEW ev, Record(c, ev),
           UNCHANGED <<kind, sent, buf, truncated, wrote, tailer>>
    PROVE  BoundsInv'
<1>1. lost' \subseteq Proxied /\ faults' \in 0..MaxFaults
  BY CaptureAssumption DEF BoundsInv, Record
<1> QED
  BY <1>1 DEF BoundsInv, tailer, Held

LEMMA ReadBounds ==
    ASSUME BoundsInv, NEW c \in Proxied, Read(c)
    PROVE  BoundsInv'
<1> DEFINE frame == Frames[sent[c] + 1]
           fits == Held(c) + Size(c, frame) <= MaxCapture
<1>1. /\ sent[c] \in 0..2 /\ Len(Frames) = 3 /\ frame \in ToSet(Frames)
      /\ sent' = [sent EXCEPT ![c] = @ + 1]
      /\ truncated' = [truncated EXCEPT ![c] = @ \/ ~fits]
      /\ buf' = IF fits THEN [buf EXCEPT ![c] = Append(@, frame)] ELSE buf
      /\ UNCHANGED <<kind, wrote, tail, reached, lost, faults, replays>>
  <2>1. Len(Frames) = 3 /\ \A i \in 1..3 : Frames[i] \in ToSet(Frames)
    BY DEF Frames, ToSet
  <2>2. sent[c] \in 0..2
    BY <2>1 DEF Read, BoundsInv
  <2> QED
    BY <2>1, <2>2 DEF Read, tailer
<1>2. /\ buf[c] \in Seq(ToSet(Frames)) /\ Append(buf[c], frame) \in Seq(ToSet(Frames))
      /\ Len(Append(buf[c], frame)) = Len(buf[c]) + 1 /\ Len(buf[c]) \in Nat
  BY <1>1 DEF BoundsInv
<1>3. /\ sent' \in [Proxied -> 0..Len(Frames)] /\ sent'[c] = sent[c] + 1
      /\ truncated' \in [Proxied -> BOOLEAN] /\ (truncated'[c] <=> (truncated[c] \/ ~fits))
      /\ buf' \in [Proxied -> Seq(ToSet(Frames))]
      /\ buf'[c] = IF fits THEN Append(buf[c], frame) ELSE buf[c]
  <2> HIDE DEF frame, fits
  <2>1. sent' \in [Proxied -> 0..Len(Frames)] /\ sent'[c] = sent[c] + 1
    BY <1>1 DEF BoundsInv
  <2>2. truncated' \in [Proxied -> BOOLEAN] /\ (truncated'[c] <=> (truncated[c] \/ ~fits))
    BY <1>1 DEF BoundsInv
  <2>3. /\ buf' \in [Proxied -> Seq(ToSet(Frames))]
        /\ buf'[c] = IF fits THEN Append(buf[c], frame) ELSE buf[c]
    BY <1>1, <1>2 DEF BoundsInv
  <2> QED
    BY <2>1, <2>2, <2>3
<1>4. Held(c)' <= MaxCapture
  <2>1. CASE fits
    <3> HIDE DEF frame
    <3>1. (kind[c] = "long") \in BOOLEAN
      OBVIOUS
    <3>2. Held(c)' <= Held(c) + Size(c, frame)
      <4>1. buf'[c] = Append(buf[c], frame) /\ kind' = kind
        BY <1>1, <1>3, <2>1
      <4> DEFINE long == kind[c] = "long"
                 q == buf[c]
      <4>2. Held(c) = Len(q) + IF long /\ "content_block_start" \in ToSet(q)
                               THEN MaxCapture - 1 ELSE 0
        BY DEF Held
      <4>3. Held(c)' = Len(Append(q, frame))
                          + IF long /\ "content_block_start" \in ToSet(Append(q, frame))
                            THEN MaxCapture - 1 ELSE 0
        BY <4>1 DEF Held
      <4>4. Size(c, frame) = IF long /\ frame = "content_block_start" THEN MaxCapture ELSE 1
        BY DEF Size
      <4>5. q \in Seq(ToSet(Frames)) /\ frame \in ToSet(Frames) /\ long \in BOOLEAN
        BY <1>1, <1>2
      <4> HIDE DEF long, q
      <4> QED
        BY <4>2, <4>3, <4>4, <4>5, HeldAppend
    <3>3. Held(c)' \in Nat /\ Held(c) \in Nat /\ Size(c, frame) \in Nat
      BY <1>1, <1>2, <1>3, <2>1, CaptureAssumption DEF Held, Size
    <3> QED
      BY <2>1, <3>2, <3>3, CaptureAssumption
  <2>2. CASE ~fits
    BY <1>1, <1>3, <2>2 DEF BoundsInv, Held
  <2> QED
    BY <2>1, <2>2
<1>5. Len(buf'[c]) + (IF truncated'[c] THEN 1 ELSE 0) <= sent'[c]
  <2> HIDE DEF frame, fits
  <2>1. Len(buf[c]) + (IF truncated[c] THEN 1 ELSE 0) <= sent[c]
    BY DEF BoundsInv
  <2>2. truncated[c] \in BOOLEAN /\ truncated'[c] \in BOOLEAN
    BY <1>3 DEF BoundsInv
  <2>3. CASE fits
    <3>1. truncated'[c] <=> truncated[c]
      BY <1>3, <2>3
    <3>2. Len(buf'[c]) = Len(buf[c]) + 1
      BY <1>2, <1>3, <2>3
    <3> DEFINE left == IF truncated[c] THEN 1 ELSE 0
    <3>3. left \in Nat /\ (IF truncated'[c] THEN 1 ELSE 0) = left
      BY <3>1
    <3>4. Len(buf[c]) + left <= sent[c]
      BY <2>1
    <3> HIDE DEF left
    <3>5. Len(buf[c]) + 1 + left <= sent[c] + 1
      BY <1>1, <1>2, <3>3, <3>4
    <3> QED
      BY <1>3, <3>2, <3>3, <3>5
  <2>4. CASE ~fits
    <3>1. Len(buf'[c]) = Len(buf[c])
      BY <1>3, <2>4
    <3> DEFINE left == IF truncated[c] THEN 1 ELSE 0
               leaves == IF truncated'[c] THEN 1 ELSE 0
    <3>2. left \in 0..1 /\ leaves \in 0..1
      OBVIOUS
    <3>3. Len(buf[c]) + left <= sent[c]
      BY <2>1
    <3> HIDE DEF left, leaves
    <3>4. Len(buf[c]) + leaves <= sent[c] + 1
      <4>1. Len(buf[c]) \in Nat /\ sent[c] \in Nat
        BY <1>1, <1>2
      <4> QED
        BY <3>2, <3>3, <4>1
    <3> QED
      BY <1>3, <3>1, <3>4 DEF leaves
  <2> QED
    BY <2>3, <2>4
<1>6. ASSUME NEW k \in Proxied, k # c
      PROVE  Held(k)' = Held(k) /\ buf'[k] = buf[k] /\ truncated'[k] = truncated[k]
             /\ sent'[k] = sent[k]
  <2> HIDE DEF frame, fits
  <2>1. buf'[k] = buf[k] /\ truncated'[k] = truncated[k] /\ sent'[k] = sent[k]
    BY <1>1, <1>6 DEF BoundsInv
  <2> QED
    BY <1>1, <2>1 DEF Held
<1>7. ASSUME NEW k \in Proxied
      PROVE  Held(k)' <= MaxCapture
             /\ Len(buf'[k]) + (IF truncated'[k] THEN 1 ELSE 0) <= sent'[k]
  <2>1. CASE k = c
    BY <1>4, <1>5, <2>1
  <2>2. CASE k # c
    <3>1. Held(k) <= MaxCapture /\ Len(buf[k]) + (IF truncated[k] THEN 1 ELSE 0) <= sent[k]
      BY DEF BoundsInv
    <3> QED
      BY <1>6, <2>2, <3>1
  <2> QED
    BY <2>1, <2>2
<1> QED
  <2> HIDE DEF frame, fits
  <2> QED
    BY <1>1, <1>3, <1>7 DEF BoundsInv

LEMMA AppendLineBounds ==
    ASSUME StoredInv, BoundsInv, NEW c \in Tailed, NEW n \in 1..2, AppendLine(c, n)
    PROVE  BoundsInv'
<1> DEFINE failed == n < Len(Lines(c)[tail[c] + 1])
<1>1. /\ tail[c] \in Nat /\ reached[c] \in Nat /\ tail[c] + 1 <= Len(wrote[c])
      /\ Len(wrote[c]) \in Nat /\ tail[c] <= reached[c] /\ reached[c] <= Len(wrote[c])
  BY DEF StoredInv, BoundsInv, AppendLine
<1>2. /\ replays' = IF failed THEN replays + 1 ELSE replays
      /\ failed => replays < MaxReplays
      /\ tail' = IF failed THEN tail ELSE [tail EXCEPT ![c] = tail[c] + 1]
      /\ reached' = [reached EXCEPT ![c] = IF tail[c] + 1 > @ THEN tail[c] + 1 ELSE @]
      /\ UNCHANGED <<exchange, wrote, lost, faults>>
  BY DEF AppendLine
<1> HIDE DEF failed
<1>3. replays' \in 0..MaxReplays
  BY <1>2, CaptureAssumption DEF BoundsInv
<1>4. /\ reached' \in [Tailed -> Nat]
      /\ \A k \in Tailed : k # c => reached'[k] = reached[k] /\ tail'[k] = tail[k]
      /\ reached'[c] = IF tail[c] + 1 > reached[c] THEN tail[c] + 1 ELSE reached[c]
      /\ tail'[c] \in {tail[c], tail[c] + 1}
  BY <1>1, <1>2 DEF BoundsInv, StoredInv
<1>5. \A k \in Tailed : tail'[k] <= reached'[k] /\ reached'[k] <= Len(wrote'[k])
  BY <1>1, <1>2, <1>4 DEF BoundsInv
<1> QED
  BY <1>2, <1>3, <1>4, <1>5 DEF BoundsInv, exchange, Held

LEMMA BoundsNext == StoredInv /\ BoundsInv /\ [Next]_vars => BoundsInv'
<1> SUFFICES ASSUME StoredInv, BoundsInv, [Next]_vars PROVE BoundsInv'
  OBVIOUS
<1>1. ASSUME NEW c \in Proxied, ServeHTTP(c) \/ HandleError(c) \/ ReadEnds(c) PROVE BoundsInv'
  BY <1>1, RecordBounds DEF ServeHTTP, HandleError, ReadEnds
<1>2. ASSUME NEW c \in Proxied, Close(c) PROVE BoundsInv'
  <2>1. UNCHANGED <<kind, sent, buf, truncated, wrote, tailer>>
    BY <1>2 DEF Close
  <2>2. CASE Record(c, Response(c))
    BY <2>1, <2>2, RecordBounds
  <2>3. CASE UNCHANGED <<stored, lost, faults>>
    BY <2>1, <2>3 DEF BoundsInv, tailer, Held
  <2> QED
    BY <1>2, <2>2, <2>3 DEF Close
<1>3. ASSUME NEW c \in Proxied, ModifyResponse(c) PROVE BoundsInv'
  BY <1>3 DEF ModifyResponse, BoundsInv, tailer, Held
<1>4. ASSUME NEW c \in Proxied, Read(c) PROVE BoundsInv'
  BY <1>4, ReadBounds
<1>5. CASE Killed
  <2>1. /\ lost' \subseteq Proxied /\ faults' \in 0..MaxFaults
        /\ UNCHANGED <<kind, sent, buf, truncated, wrote, tailer>>
    BY <1>5, CaptureAssumption DEF Killed, BoundsInv
  <2> QED
    BY <2>1 DEF BoundsInv, tailer, Held
<1>6. ASSUME NEW c \in Tailed, WriteLine(c) PROVE BoundsInv'
  <2>1. /\ wrote' = [wrote EXCEPT ![c] = Append(@, day)]
        /\ UNCHANGED <<exchange, tailer, lost, faults>>
    BY <1>6 DEF WriteLine
  <2>2. \A k \in Tailed : /\ wrote[k] \in Seq(1..MaxDay)
                          /\ wrote'[k] \in {wrote[k], Append(wrote[k], day)}
                          /\ reached[k] \in Nat /\ reached[k] <= Len(wrote[k])
    BY <2>1 DEF StoredInv, BoundsInv
  <2>3. ASSUME NEW k \in Tailed PROVE reached[k] <= Len(wrote'[k])
    <3>1. day \in 1..MaxDay /\ wrote[k] \in Seq(1..MaxDay)
      BY <2>2 DEF StoredInv
    <3>2. Len(Append(wrote[k], day)) = Len(wrote[k]) + 1 /\ Len(wrote[k]) \in Nat
      BY <3>1
    <3>3. wrote'[k] = wrote[k] \/ wrote'[k] = Append(wrote[k], day)
      BY <2>2
    <3>4. reached[k] \in Nat /\ reached[k] <= Len(wrote[k])
      BY <2>2
    <3>5. Len(wrote'[k]) \in {Len(wrote[k]), Len(wrote[k]) + 1}
      BY <3>2, <3>3
    <3>6. \A r, n, m \in Nat : r <= n /\ m \in {n, n + 1} => r <= m
      OBVIOUS
    <3> QED
      BY <3>2, <3>4, <3>5, <3>6
  <2> QED
    BY <2>1, <2>3 DEF BoundsInv, exchange, tailer, Held
<1>7. ASSUME NEW c \in Tailed, NEW n \in 1..2, AppendLine(c, n) PROVE BoundsInv'
  BY <1>7, AppendLineBounds
<1>8. ASSUME NEW c \in Tailed, Replay(c) PROVE BoundsInv'
  <2>1. PICK n \in 0..tail[c] - 1 : tail' = [tail EXCEPT ![c] = n]
    BY <1>8 DEF Replay
  <2>2. replays' \in 0..MaxReplays /\ UNCHANGED <<exchange, wrote, reached, lost, faults>>
    BY <1>8, CaptureAssumption DEF Replay, BoundsInv
  <2>3. \A k \in Tailed : tail'[k] <= reached[k]
    BY <2>1 DEF BoundsInv, StoredInv
  <2> QED
    BY <2>2, <2>3 DEF BoundsInv, exchange, Held
<1>9. CASE Midnight \/ UNCHANGED vars
  BY <1>9 DEF Midnight, vars, exchange, tailer, BoundsInv, Held
<1> QED
  BY <1>1, <1>2, <1>3, <1>4, <1>5, <1>6, <1>7, <1>8, <1>9 DEF Next, Exchange

\* Every variable keeps its type, and with it the bound of captureReader: what it
\* keeps of an answer fits, whatever arrives in whatever order beside it.
THEOREM CaptureTypeCorrect == Spec => []TypeOK
<1>1. Init => CaptureInv /\ BoundsInv
  BY CaptureInit, BoundsInit
<1>2. CaptureInv /\ BoundsInv /\ [Next]_vars => CaptureInv' /\ BoundsInv'
  BY CaptureNext, BoundsNext DEF CaptureInv
<1>3. CaptureInv /\ BoundsInv => TypeOK
  <2> SUFFICES ASSUME StoredInv, BoundsInv PROVE TypeOK
    BY DEF CaptureInv
  <2>1. ASSUME NEW d \in 1..MaxDay PROVE ToSet(stored[d]) \subseteq Event
    <3>1. stored[d] \in Seq(Event)
      BY DEF StoredInv
    <3> QED
      BY <3>1 DEF ToSet
  <2> QED
    BY <2>1 DEF StoredInv, BoundsInv, TypeOK
<1> QED
  BY <1>1, <1>2, <1>3, PTL DEF Spec
-----------------------------------------------------------------------------
(* What BuildTurns computes.                                               *)

\* A set of numbers with no least member is empty.
LEMMA LeastCounterexample ==
    ASSUME NEW Bad \in SUBSET Nat, \A n \in Bad : \E m \in Bad : m < n
    PROVE  Bad = {}
<1> SUFFICES ASSUME Bad # {} PROVE FALSE
  OBVIOUS
<1>1. PICK n \in Bad : \A m \in Bad : ~(<<m, n>> \in OpToRel(<, Nat))
  BY NatLessThanWellFounded, WFMin
<1>2. PICK m \in Bad : m < n
  OBVIOUS
<1> QED
  BY <1>1, <1>2 DEF OpToRel

\* The first pass is what its recursion says.
LEMMA MergedSteps ==
    ASSUME NEW events, Len(events) \in Nat
    PROVE  /\ Merged(events)[0] = <<>>
           /\ \A n \in 1..Len(events) :
                 Merged(events)[n] = IF IsResult(events[n]) THEN Merged(events)[n - 1]
                                     ELSE Pair(Merged(events)[n - 1], events[n])
<1> DEFINE L == Len(events)
           Step(turns, n) == IF n = 0 THEN <<>>
                             ELSE IF IsResult(events[n]) THEN turns[n - 1]
                             ELSE Pair(turns[n - 1], events[n])
           Follows(turns, n) == turns = [k \in 0..n |-> Step(turns, k)]
           Bad == {n \in Nat : ~ \E turns : Follows(turns, n)}
<1>1. ASSUME NEW n \in Bad PROVE \E m \in Bad : m < n
  <2>1. CASE n = 0
    <3> DEFINE g == [k \in 0..0 |-> <<>>]
    <3>1. g = [k \in 0..0 |-> Step(g, k)]
      OBVIOUS
    <3> QED
      BY <2>1, <3>1
  <2>2. CASE n # 0
    <3> SUFFICES ASSUME n - 1 \notin Bad PROVE FALSE
      BY <2>2
    <3>1. n - 1 \in Nat /\ n \in Nat
      BY <2>2
    <3>2. PICK f : Follows(f, n - 1)
      BY <3>1
    <3> DEFINE g == [k \in 0..n |-> IF k = n THEN Step(f, n) ELSE f[k]]
    <3>3. ASSUME NEW k \in 0..n PROVE g[k] = Step(g, k)
      <4>1. k # 0 => k - 1 \in 0..n /\ k - 1 # n /\ g[k - 1] = f[k - 1]
        BY <3>1
      <4>2. Step(g, k) = Step(f, k)
        BY <4>1
      <4> HIDE DEF Step
      <4>3. CASE k = n
        BY <4>2, <4>3
      <4>4. CASE k # n
        <5>1. k \in 0..n - 1
          BY <3>1, <4>4
        <5>2. f[k] = Step(f, k)
          BY <3>2, <5>1
        <5> QED
          BY <4>2, <4>4, <5>2
      <4> QED
        BY <4>3, <4>4
    <3>4. g = [k \in 0..n |-> g[k]]
      OBVIOUS
    <3> HIDE DEF g, Step
    <3>5. Follows(g, n)
      BY <3>3, <3>4
    <3> QED
      BY <3>5
  <2> QED
    BY <2>1, <2>2
<1>2. Bad = {}
  <2> HIDE DEF Bad
  <2>1. Bad \in SUBSET Nat
    BY DEF Bad
  <2> QED
    BY <1>1, <2>1, LeastCounterexample
<1>3. \E turns : Follows(turns, L)
  BY <1>2
<1>4. Merged(events) = CHOOSE turns : Follows(turns, L)
  BY DEF Merged
<1>5. Follows(Merged(events), L)
  BY <1>3, <1>4
<1>6. \A n \in 0..L : Merged(events)[n] = Step(Merged(events), n)
  <2> HIDE DEF Step
  <2> QED
    BY <1>5
<1> QED
  BY <1>6

\* The events among the first n that are of turn k.
Among(events, n, k) == {i \in 1..n : IsOrdinary(events[i]) /\ Key(events[i]) = k}

TurnType == [pending : BOOLEAN, failed : BOOLEAN, tools : SUBSET Id, usage : Nat,
             model : Model \cup {None}, blobs : Seq(Nat)]

\* The event that sets the usage of a turn, or its model.
Sets(ev) == ev.type = "response" /\ ev.usage # 0
Names(ev) == ev.type \in {"request", "response"} /\ ev.model # None

\* Turn t tells what these events say of one call.
Tells(events, mine, t) ==
    /\ t \in TurnType
    /\ t.pending <=> \A i \in mine : events[i].type \notin {"response", "error"}
    /\ t.failed <=> \E i \in mine : events[i].type = "error"
    /\ \A x : x \in t.tools <=>
                \E i \in mine : events[i].type = "response" /\ x \in events[i].tools
    /\ \A b : b \in ToSet(t.blobs) <=>
                \E i \in mine : events[i].type = "content" /\ events[i].blob = b /\ b # 0
    /\ \A i \in mine : Names(events[i]) => t.model # None
    /\ t.model = None \/ \E i \in mine : Names(events[i]) /\ t.model = events[i].model
    /\ \/ t.usage = 0 /\ \A i \in mine : ~Sets(events[i])
       \/ \E i \in mine : /\ Sets(events[i]) /\ t.usage = events[i].usage
                          /\ \A j \in mine : Sets(events[j]) => j <= i

LEMMA AppendSet ==
    ASSUME NEW S, NEW q \in Seq(S), NEW x \in S
    PROVE  ToSet(Append(q, x)) = ToSet(q) \cup {x}
<1>1. /\ Append(q, x) \in Seq(S) /\ Len(q) \in Nat /\ Len(Append(q, x)) = Len(q) + 1
      /\ \A i \in 1..Len(q) : Append(q, x)[i] = q[i]
      /\ Append(q, x)[Len(q) + 1] = x
  OBVIOUS
<1>2. DOMAIN q = 1..Len(q) /\ DOMAIN Append(q, x) = 1..Len(q) + 1
  BY <1>1
<1> DEFINE r == Append(q, x)
<1> HIDE DEF r
<1>3. ASSUME NEW y \in ToSet(r) PROVE y \in ToSet(q) \cup {x}
  <2>1. PICK i \in 1..Len(q) + 1 : r[i] = y
    BY <1>2 DEF ToSet, r
  <2>2. i \in 1..Len(q) \/ i = Len(q) + 1
    BY <1>1
  <2> QED
    BY <1>1, <1>2, <2>1, <2>2 DEF ToSet, r
<1>4. ASSUME NEW y \in ToSet(q) \cup {x} PROVE y \in ToSet(r)
  <2>1. CASE y = x
    <3>1. Len(q) + 1 \in DOMAIN r /\ r[Len(q) + 1] = y
      BY <1>1, <1>2, <2>1 DEF r
    <3> QED
      BY <3>1 DEF ToSet
  <2>2. CASE y \in ToSet(q)
    <3>1. PICK i \in 1..Len(q) : q[i] = y
      BY <1>2, <2>2 DEF ToSet
    <3>2. i \in DOMAIN r /\ r[i] = y
      BY <1>1, <1>2, <3>1 DEF r
    <3> QED
      BY <3>2 DEF ToSet
  <2> QED
    BY <2>1, <2>2
<1> QED
  BY <1>3, <1>4 DEF r

\* Merging one more event tells one event more.
LEMMA ApplyTells ==
    ASSUME NEW events, NEW n \in Nat, NEW mine \in SUBSET (0..n - 1),
           events[n] \in Event, IsOrdinary(events[n]), NEW t, Tells(events, mine, t)
    PROVE  Tells(events, mine \cup {n}, ApplyEvent(t, events[n]))
<1> DEFINE ev == events[n]
           u == ApplyEvent(t, ev)
           all == mine \cup {n}
<1>1. /\ t \in TurnType /\ ev \in Event
      /\ ev.type \in {"request", "response", "content", "error"}
      /\ ev.tools \subseteq Id /\ ev.usage \in Nat /\ ev.model \in Model \cup {None}
      /\ ev.blob \in Nat
  BY DEF Tells, Event, EventType, IsOrdinary
<1>2. /\ t.pending \in BOOLEAN /\ t.failed \in BOOLEAN /\ t.tools \subseteq Id
      /\ t.usage \in Nat /\ t.model \in Model \cup {None} /\ t.blobs \in Seq(Nat)
  BY <1>1 DEF TurnType
<1>3. /\ u.pending = IF ev.type \in {"response", "error"} THEN FALSE ELSE t.pending
      /\ u.failed = IF ev.type = "error" THEN TRUE ELSE t.failed
      /\ u.tools = IF ev.type = "response" THEN t.tools \cup ev.tools ELSE t.tools
      /\ u.usage = IF ev.type = "response" /\ ev.usage # 0 THEN ev.usage ELSE t.usage
      /\ u.model = IF ev.type = "request" THEN SetIfEmpty(t.model, ev.model)
                   ELSE IF ev.type = "response" THEN SetIfEmpty(ev.model, t.model)
                   ELSE t.model
      /\ u.blobs = IF ev.type = "content" /\ ev.blob # 0 THEN Append(t.blobs, ev.blob)
                   ELSE t.blobs
      /\ u \in TurnType
  <2>1. CASE ev.type = "request"
    BY <1>1, <1>2, <2>1 DEF ApplyEvent, TurnType, SetIfEmpty
  <2>2. CASE ev.type = "response"
    BY <1>1, <1>2, <2>2 DEF ApplyEvent, TurnType, SetIfEmpty
  <2>3. CASE ev.type = "content"
    <3>1. u = IF ev.blob = 0 THEN t ELSE [t EXCEPT !.blobs = Append(t.blobs, ev.blob)]
      BY <1>1, <2>3 DEF ApplyEvent, WithBlob
    <3>2. Append(t.blobs, ev.blob) \in Seq(Nat)
      BY <1>1, <1>2
    <3> HIDE DEF u
    <3> QED
      BY <1>1, <1>2, <2>3, <3>1, <3>2 DEF TurnType
  <2>4. CASE ev.type = "error"
    BY <1>1, <1>2, <2>4 DEF ApplyEvent, TurnType
  <2> QED
    BY <1>1, <2>1, <2>2, <2>3, <2>4
<1> HIDE DEF u
<1>4. /\ u.pending <=> \A i \in all : events[i].type \notin {"response", "error"}
      /\ u.failed <=> \E i \in all : events[i].type = "error"
      /\ \A x : x \in u.tools <=>
                  \E i \in all : events[i].type = "response" /\ x \in events[i].tools
  BY <1>1, <1>2, <1>3 DEF Tells
<1>5. \A b : b \in ToSet(u.blobs) <=>
               \E i \in all : events[i].type = "content" /\ events[i].blob = b /\ b # 0
  <2>1. ToSet(Append(t.blobs, ev.blob)) = ToSet(t.blobs) \cup {ev.blob}
    BY <1>1, <1>2, AppendSet
  <2> QED
    BY <1>1, <1>3, <2>1 DEF Tells
<1>6. /\ \A i \in all : Names(events[i]) => u.model # None
      /\ u.model = None \/ \E i \in all : Names(events[i]) /\ u.model = events[i].model
  BY <1>1, <1>2, <1>3 DEF Tells, Names, SetIfEmpty
<1>7. \/ u.usage = 0 /\ \A i \in all : ~Sets(events[i])
      \/ \E i \in all : /\ Sets(events[i]) /\ u.usage = events[i].usage
                        /\ \A j \in all : Sets(events[j]) => j <= i
  <2>1. \A j \in mine : j \in Int /\ j <= n
    OBVIOUS
  <2>2. CASE Sets(ev)
    BY <1>1, <1>3, <2>1, <2>2 DEF Sets
  <2>3. CASE ~Sets(ev)
    <3>1. u.usage = t.usage
      BY <1>3, <2>3 DEF Sets
    <3> QED
      BY <2>3, <3>1 DEF Tells
  <2> QED
    BY <2>2, <2>3
<1> QED
  BY <1>3, <1>4, <1>5, <1>6, <1>7 DEF Tells, u

\* After the first pass there is a turn for every key, which tells what its events say.
MergedTells(events, n) ==
    LET turns == Merged(events)[n]
    IN  /\ \A k : k \in DOMAIN turns <=> Among(events, n, k) # {}
        /\ \A k \in DOMAIN turns : Tells(events, Among(events, n, k), turns[k])

LEMMA NewTurnTells ==
    ASSUME NEW events PROVE Tells(events, {}, NewTurn)
<1>1. ToSet(<<>>) = {} /\ <<>> \in Seq(Nat)
  BY DEF ToSet
<1> QED
  BY <1>1 DEF Tells, NewTurn, TurnType

LEMMA AmongGrows ==
    ASSUME NEW events, NEW n \in Nat, n # 0, NEW k
    PROVE  Among(events, n, k) =
              IF IsOrdinary(events[n]) /\ Key(events[n]) = k
              THEN Among(events, n - 1, k) \cup {n} ELSE Among(events, n - 1, k)
<1>1. 1..n = (1..n - 1) \cup {n}
  OBVIOUS
<1> QED
  BY <1>1 DEF Among

LEMMA MergedTurns ==
    ASSUME NEW events \in Seq(Event)
    PROVE  \A n \in 0..Len(events) : MergedTells(events, n)
<1> DEFINE L == Len(events)
           Bad == {n \in Nat : n <= L /\ ~MergedTells(events, n)}
<1>0. L \in Nat /\ \A i \in 1..L : events[i] \in Event
  OBVIOUS
<1>1. ASSUME NEW n \in Bad PROVE \E m \in Bad : m < n
  <2>1. n \in Nat /\ n <= L
    OBVIOUS
  <2>2. n # 0
    <3>1. \A k : Among(events, 0, k) = {}
      BY DEF Among
    <3>2. MergedTells(events, 0)
      BY <1>0, <3>1, MergedSteps DEF MergedTells
    <3> QED
      BY <3>2
  <2> DEFINE M == Merged(events)[n - 1]
             N == Merged(events)[n]
             ev == events[n]
  <2> SUFFICES ASSUME MergedTells(events, n - 1) PROVE MergedTells(events, n)
    BY <1>0, <2>1, <2>2
  <2>3. ev \in Event /\ n - 1 \in Nat
    BY <1>0, <2>1, <2>2
  <2>4. N = IF IsResult(ev) THEN M ELSE Pair(M, ev)
    BY <1>0, <2>1, <2>2, MergedSteps
  <2>5. /\ \A k : k \in DOMAIN M <=> Among(events, n - 1, k) # {}
        /\ \A k \in DOMAIN M : Tells(events, Among(events, n - 1, k), M[k])
    BY DEF MergedTells
  <2> HIDE DEF M, N
  <2>6. CASE IsResult(ev)
    <3>1. \A k : Among(events, n, k) = Among(events, n - 1, k)
      BY <2>1, <2>2, <2>6, AmongGrows DEF IsResult, IsOrdinary
    <3> QED
      BY <2>4, <2>5, <2>6, <3>1 DEF MergedTells, N
  <2>7. CASE ~IsResult(ev)
    <3> DEFINE key == Key(ev)
               t == IF key \in DOMAIN M THEN M[key] ELSE NewTurn
    <3>1. IsOrdinary(ev)
      BY <2>7 DEF IsResult, IsOrdinary
    <3>2. \A k : Among(events, n, k) =
             IF k = key THEN Among(events, n - 1, k) \cup {n} ELSE Among(events, n - 1, k)
      BY <2>1, <2>2, <3>1, AmongGrows
    <3>3. N = [j \in DOMAIN M \cup {key} |-> IF j = key THEN ApplyEvent(t, ev) ELSE M[j]]
      BY <2>4, <2>7 DEF Pair
    <3>4. Tells(events, Among(events, n - 1, key), t)
      BY <2>5, NewTurnTells
    <3> HIDE DEF t, key
    <3>5. Among(events, n - 1, key) \in SUBSET (0..n - 1)
      BY <2>3 DEF Among
    <3>6. Tells(events, Among(events, n, key), ApplyEvent(t, ev))
      BY <2>1, <2>3, <3>1, <3>2, <3>4, <3>5, ApplyTells
    <3>7. \A k : k \in DOMAIN N <=> Among(events, n, k) # {}
      BY <2>5, <3>2, <3>3
    <3>8. \A k \in DOMAIN N : Tells(events, Among(events, n, k), N[k])
      BY <2>5, <3>2, <3>3, <3>6
    <3> QED
      BY <3>7, <3>8 DEF MergedTells, N
  <2> QED
    BY <2>6, <2>7
<1>2. Bad = {}
  <2> HIDE DEF Bad
  <2>1. Bad \in SUBSET Nat
    BY DEF Bad
  <2> QED
    BY <1>1, <2>1, LeastCounterexample
<1> QED
  BY <1>0, <1>2

\* The second pass is what its recursion says.
LEMMA AttachedSteps ==
    ASSUME NEW events, Len(events) \in Nat
    PROVE  /\ Attached(events)[0] = Merged(events)[Len(events)]
           /\ \A n \in 1..Len(events) :
                 Attached(events)[n] = IF IsResult(events[n])
                                       THEN Attach(Attached(events)[n - 1], events[n])
                                       ELSE Attached(events)[n - 1]
<1> DEFINE L == Len(events)
           Step(turns, n) == IF n = 0 THEN Merged(events)[L]
                             ELSE IF IsResult(events[n]) THEN Attach(turns[n - 1], events[n])
                             ELSE turns[n - 1]
           Follows(turns, n) == turns = [k \in 0..n |-> Step(turns, k)]
           Bad == {n \in Nat : ~ \E turns : Follows(turns, n)}
<1>1. ASSUME NEW n \in Bad PROVE \E m \in Bad : m < n
  <2>1. CASE n = 0
    <3> DEFINE g == [k \in 0..0 |-> Merged(events)[L]]
    <3>1. g = [k \in 0..0 |-> Step(g, k)]
      OBVIOUS
    <3> QED
      BY <2>1, <3>1
  <2>2. CASE n # 0
    <3> SUFFICES ASSUME n - 1 \notin Bad PROVE FALSE
      BY <2>2
    <3>1. n - 1 \in Nat /\ n \in Nat
      BY <2>2
    <3>2. PICK f : Follows(f, n - 1)
      BY <3>1
    <3> DEFINE g == [k \in 0..n |-> IF k = n THEN Step(f, n) ELSE f[k]]
    <3>3. ASSUME NEW k \in 0..n PROVE g[k] = Step(g, k)
      <4>1. k # 0 => k - 1 \in 0..n /\ k - 1 # n /\ g[k - 1] = f[k - 1]
        BY <3>1
      <4>2. Step(g, k) = Step(f, k)
        BY <4>1
      <4> HIDE DEF Step
      <4>3. CASE k = n
        BY <4>2, <4>3
      <4>4. CASE k # n
        <5>1. k \in 0..n - 1
          BY <3>1, <4>4
        <5>2. f[k] = Step(f, k)
          BY <3>2, <5>1
        <5> QED
          BY <4>2, <4>4, <5>2
      <4> QED
        BY <4>3, <4>4
    <3>4. g = [k \in 0..n |-> g[k]]
      OBVIOUS
    <3> HIDE DEF g, Step
    <3>5. Follows(g, n)
      BY <3>3, <3>4
    <3> QED
      BY <3>5
  <2> QED
    BY <2>1, <2>2
<1>2. Bad = {}
  <2> HIDE DEF Bad
  <2>1. Bad \in SUBSET Nat
    BY DEF Bad
  <2> QED
    BY <1>1, <2>1, LeastCounterexample
<1>3. \E turns : Follows(turns, L)
  BY <1>2
<1>4. Attached(events) = CHOOSE turns : Follows(turns, L)
  BY DEF Attached
<1>5. Follows(Attached(events), L)
  BY <1>3, <1>4
<1>6. \A n \in 0..L : Attached(events)[n] = Step(Attached(events), n)
  <2> HIDE DEF Step
  <2> QED
    BY <1>5
<1> QED
  BY <1>6

\* The results among the first n events whose call turn k made, of these turns.
Given(turns, events, n, k) ==
    {i \in 1..n : /\ IsResult(events[i]) /\ Owners(turns, events[i]) # {}
                  /\ k = CHOOSE o \in Owners(turns, events[i]) : TRUE}

\* The turns with results are those without, but for their content.
AttachedTells(events, n) ==
    LET before == Merged(events)[Len(events)]
        turns == Attached(events)[n]
    IN  /\ DOMAIN turns = DOMAIN before
        /\ \A k \in DOMAIN before :
              /\ turns[k].blobs \in Seq(Nat)
              /\ turns[k] = [before[k] EXCEPT !.blobs = turns[k].blobs]
              /\ \A b : b \in ToSet(turns[k].blobs) <=>
                          \/ b \in ToSet(before[k].blobs)
                          \/ \E i \in Given(before, events, n, k) :
                                events[i].blob = b /\ b # 0

LEMMA GivenGrows ==
    ASSUME NEW turns, NEW events, NEW n \in Nat, n # 0, NEW k
    PROVE  Given(turns, events, n, k) =
              IF /\ IsResult(events[n]) /\ Owners(turns, events[n]) # {}
                 /\ k = CHOOSE o \in Owners(turns, events[n]) : TRUE
              THEN Given(turns, events, n - 1, k) \cup {n}
              ELSE Given(turns, events, n - 1, k)
<1>1. 1..n = (1..n - 1) \cup {n}
  OBVIOUS
<1> QED
  BY <1>1 DEF Given

LEMMA AttachedTurns ==
    ASSUME NEW events \in Seq(Event)
    PROVE  \A n \in 0..Len(events) : AttachedTells(events, n)
<1> DEFINE L == Len(events)
           before == Merged(events)[L]
           Bad == {n \in Nat : n <= L /\ ~AttachedTells(events, n)}
<1>0. L \in Nat /\ \A i \in 1..L : events[i] \in Event
  OBVIOUS
<1>1. \A k \in DOMAIN before : before[k] \in TurnType
  BY <1>0, MergedTurns DEF MergedTells, Tells
<1> HIDE DEF before
<1>2. ASSUME NEW n \in Bad PROVE \E m \in Bad : m < n
  <2>1. n \in Nat /\ n <= L
    OBVIOUS
  <2>2. n # 0
    <3>1. \A k : Given(before, events, 0, k) = {}
      BY DEF Given
    <3>2. Attached(events)[0] = before
      BY <1>0, AttachedSteps DEF before
    <3>3. \A k \in DOMAIN before : /\ before[k].blobs \in Seq(Nat)
                                   /\ before[k] = [before[k] EXCEPT !.blobs = before[k].blobs]
      BY <1>1 DEF TurnType
    <3>4. AttachedTells(events, 0)
      BY <3>1, <3>2, <3>3 DEF AttachedTells, before
    <3> QED
      BY <3>4
  <2> DEFINE M == Attached(events)[n - 1]
             N == Attached(events)[n]
             ev == events[n]
  <2> SUFFICES ASSUME AttachedTells(events, n - 1) PROVE AttachedTells(events, n)
    BY <1>0, <2>1, <2>2
  <2>3. ev \in Event /\ n - 1 \in Nat /\ ev.blob \in Nat
    BY <1>0, <2>1, <2>2 DEF Event
  <2>4. N = IF IsResult(ev) THEN Attach(M, ev) ELSE M
    BY <1>0, <2>1, <2>2, AttachedSteps
  <2>5. /\ DOMAIN M = DOMAIN before
        /\ \A k \in DOMAIN before :
              /\ M[k].blobs \in Seq(Nat) /\ M[k] = [before[k] EXCEPT !.blobs = M[k].blobs]
              /\ \A b : b \in ToSet(M[k].blobs) <=>
                          \/ b \in ToSet(before[k].blobs)
                          \/ \E i \in Given(before, events, n - 1, k) :
                                events[i].blob = b /\ b # 0
    BY DEF AttachedTells, before
  <2> HIDE DEF M, N
  <2>6. Owners(M, ev) = Owners(before, ev)
    <3>1. \A k \in DOMAIN before : M[k].tools = before[k].tools
      BY <1>1, <2>5 DEF TurnType
    <3> QED
      BY <2>5, <3>1 DEF Owners
  <2>7. CASE ~IsResult(ev) \/ Owners(before, ev) = {}
    <3>1. N = M
      BY <2>4, <2>6, <2>7 DEF Attach
    <3>2. ASSUME NEW k PROVE Given(before, events, n, k) = Given(before, events, n - 1, k)
      <4>1. ~(IsResult(ev) /\ Owners(before, ev) # {})
        BY <2>7
      <4>2. 1..n = (1..n - 1) \cup {n}
        BY <2>1, <2>2
      <4> QED
        BY <4>1, <4>2 DEF Given
    <3>3. /\ DOMAIN N = DOMAIN before
          /\ \A k \in DOMAIN before :
                /\ N[k].blobs \in Seq(Nat) /\ N[k] = [before[k] EXCEPT !.blobs = N[k].blobs]
                /\ \A b : b \in ToSet(N[k].blobs) <=>
                            \/ b \in ToSet(before[k].blobs)
                            \/ \E i \in Given(before, events, n, k) :
                                  events[i].blob = b /\ b # 0
      BY <2>5, <3>1, <3>2
    <3> QED
      BY <3>3 DEF AttachedTells, before, N
  <2>8. CASE IsResult(ev) /\ Owners(before, ev) # {}
    <3> DEFINE o == CHOOSE x \in Owners(before, ev) : TRUE
    <3>1. o \in DOMAIN before
      BY <2>8 DEF Owners
    <3>2. N = [M EXCEPT ![o] = WithBlob(M[o], ev)]
      BY <2>4, <2>6, <2>8 DEF Attach
    <3>3. \A k : Given(before, events, n, k) =
             IF k = o THEN Given(before, events, n - 1, k) \cup {n}
             ELSE Given(before, events, n - 1, k)
      BY <2>1, <2>2, <2>8, GivenGrows
    <3> HIDE DEF o
    <3>4. DOMAIN N = DOMAIN before /\ \A k \in DOMAIN before : k # o => N[k] = M[k]
      BY <2>5, <3>2
    <3>5. N[o] = IF ev.blob = 0 THEN M[o]
                 ELSE [M[o] EXCEPT !.blobs = Append(M[o].blobs, ev.blob)]
      BY <2>5, <3>1, <3>2 DEF WithBlob
    <3>6. ASSUME NEW k \in DOMAIN before
          PROVE  /\ N[k].blobs \in Seq(Nat)
                 /\ N[k] = [before[k] EXCEPT !.blobs = N[k].blobs]
                 /\ \A b : b \in ToSet(N[k].blobs) <=>
                             \/ b \in ToSet(before[k].blobs)
                             \/ \E i \in Given(before, events, n, k) :
                                   events[i].blob = b /\ b # 0
      <4>1. CASE k # o
        BY <2>5, <3>3, <3>4, <4>1
      <4>2. CASE k = o /\ ev.blob = 0
        <5>1. N[k] = M[k]
          BY <3>5, <4>2
        <5>2. \A b : (\E i \in Given(before, events, n, k) : events[i].blob = b /\ b # 0) <=>
                        \E i \in Given(before, events, n - 1, k) :
                           events[i].blob = b /\ b # 0
          BY <3>3, <4>2
        <5> QED
          BY <2>5, <5>1, <5>2
      <4>3. CASE k = o /\ ev.blob # 0
        <5>1. /\ M[o].blobs \in Seq(Nat) /\ before[o] \in TurnType
              /\ M[o] = [before[o] EXCEPT !.blobs = M[o].blobs]
          BY <1>1, <2>5, <3>1
        <5>2. Append(M[o].blobs, ev.blob) \in Seq(Nat)
          BY <2>3, <5>1
        <5>3. N[o].blobs = Append(M[o].blobs, ev.blob)
          BY <3>5, <4>3, <5>1 DEF TurnType
        <5>4. N[o] = [before[o] EXCEPT !.blobs = N[o].blobs]
          BY <3>5, <4>3, <5>1, <5>3 DEF TurnType
        <5>5. ToSet(N[o].blobs) = ToSet(M[o].blobs) \cup {ev.blob}
          <6>1. ToSet(Append(M[o].blobs, ev.blob)) = ToSet(M[o].blobs) \cup {ev.blob}
            BY <2>3, <5>1, AppendSet
          <6> QED
            BY <5>3, <6>1
        <5>6. \A b : b \in ToSet(N[o].blobs) <=> b \in ToSet(M[o].blobs) \/ b = ev.blob
          BY <5>5
        <5>7. \A b : (\E i \in Given(before, events, n, o) : events[i].blob = b /\ b # 0) <=>
                        \/ \E i \in Given(before, events, n - 1, o) :
                              events[i].blob = b /\ b # 0
                        \/ b = ev.blob
          BY <3>3, <4>3
        <5> QED
          BY <2>5, <3>1, <4>3, <5>2, <5>3, <5>4, <5>6, <5>7
      <4> QED
        BY <4>1, <4>2, <4>3
    <3> QED
      BY <3>4, <3>6 DEF AttachedTells, before, N
  <2> QED
    BY <2>7, <2>8
<1>3. Bad = {}
  <2> HIDE DEF Bad
  <2>1. Bad \in SUBSET Nat
    BY DEF Bad
  <2> QED
    BY <1>2, <2>1, LeastCounterexample
<1> QED
  BY <1>0, <1>3

\* The turns whose events tell of a call with this id.
Makers(E, x) == {Key(e) : e \in {e \in E : e.type = "response" /\ x \in e.tools}}

\* Turn t is what a set of events says of key k, the order of two that set one usage
\* aside.
Says(E, k, t) ==
    /\ t \in TurnType
    /\ t.pending <=> \A e \in E : Key(e) = k => e.type \notin {"response", "error"}
    /\ t.failed <=> \E e \in E : Key(e) = k /\ e.type = "error"
    /\ \A x : x \in t.tools <=> \E e \in E : Key(e) = k /\ e.type = "response" /\ x \in e.tools
    /\ \A e \in E : Key(e) = k /\ Names(e) => t.model # None
    /\ t.model = None \/ \E e \in E : Key(e) = k /\ Names(e) /\ t.model = e.model
    /\ \A b : b \in ToSet(t.blobs) <=>
          \/ \E e \in E : Key(e) = k /\ e.type = "content" /\ e.blob = b /\ b # 0
          \/ \E e \in E : /\ IsResult(e) /\ e.blob = b /\ b # 0
                          /\ Makers(E, e.answers) # {}
                          /\ k = CHOOSE o \in Makers(E, e.answers) : TRUE
    /\ \/ t.usage = 0 /\ \A e \in E : Key(e) = k => ~Sets(e)
       \/ \E e \in E : Key(e) = k /\ Sets(e) /\ t.usage = e.usage

\* BuildTurns of internal/query makes a turn for every key of an ordinary event, and
\* none else, which says what the events of that key do; results go to a turn that
\* made the call; and of usage the last record in the stream stands.
THEOREM TurnsBuilt ==
    ASSUME NEW s \in Seq(Event)
    PROVE  /\ \A k : k \in DOMAIN BuildTurns(s) <=>
                        \E e \in ToSet(s) : IsOrdinary(e) /\ Key(e) = k
           /\ \A k \in DOMAIN BuildTurns(s) :
                 /\ Says(ToSet(s), k, BuildTurns(s)[k])
                 /\ \A i \in 1..Len(s) :
                       /\ Key(s[i]) = k /\ Sets(s[i])
                       /\ \A j \in 1..Len(s) : Key(s[j]) = k /\ Sets(s[j]) => j <= i
                       => BuildTurns(s)[k].usage = s[i].usage
<1> DEFINE L == Len(s)
           E == ToSet(s)
           before == Merged(s)[L]
           turns == Attached(s)[L]
<1>0. L \in Nat /\ \A i \in 1..L : s[i] \in Event
  OBVIOUS
<1>1. E = {s[i] : i \in 1..L}
  BY DEF ToSet
<1>2. /\ \A k : k \in DOMAIN before <=> Among(s, L, k) # {}
      /\ \A k \in DOMAIN before : Tells(s, Among(s, L, k), before[k])
  BY <1>0, MergedTurns DEF MergedTells
<1>3. /\ DOMAIN turns = DOMAIN before
      /\ \A k \in DOMAIN before :
            /\ turns[k].blobs \in Seq(Nat)
            /\ turns[k] = [before[k] EXCEPT !.blobs = turns[k].blobs]
            /\ \A b : b \in ToSet(turns[k].blobs) <=>
                        \/ b \in ToSet(before[k].blobs)
                        \/ \E i \in Given(before, s, L, k) : s[i].blob = b /\ b # 0
  <2>1. AttachedTells(s, L)
    BY <1>0, AttachedTurns
  <2> QED
    BY <2>1 DEF AttachedTells
<1>4. BuildTurns(s) = turns
  BY DEF BuildTurns
<1> HIDE DEF before, turns, E
<1>5. \A k : k \in DOMAIN turns <=> \E e \in E : IsOrdinary(e) /\ Key(e) = k
  BY <1>1, <1>2, <1>3 DEF Among
<1>6. ASSUME NEW k \in DOMAIN turns
      PROVE  /\ turns[k] \in TurnType
             /\ turns[k].pending = before[k].pending /\ turns[k].failed = before[k].failed
             /\ turns[k].tools = before[k].tools /\ turns[k].usage = before[k].usage
             /\ turns[k].model = before[k].model
  <2>1. before[k] \in TurnType
    BY <1>2, <1>3, <1>6 DEF Tells
  <2> QED
    BY <1>3, <2>1 DEF TurnType
<1>7. ASSUME NEW k \in DOMAIN turns PROVE Tells(s, Among(s, L, k), before[k])
  BY <1>2, <1>3
<1>8. ASSUME NEW e \in E, NEW k, Key(e) = k, IsOrdinary(e)
      PROVE  \E i \in Among(s, L, k) : s[i] = e
  BY <1>1, <1>8 DEF Among
<1>9. ASSUME NEW k, NEW i \in Among(s, L, k)
      PROVE  s[i] \in E /\ Key(s[i]) = k /\ IsOrdinary(s[i]) /\ i \in 1..L
  BY <1>1 DEF Among
<1>10. ASSUME NEW k \in DOMAIN turns
       PROVE  /\ turns[k].pending <=> \A e \in E : Key(e) = k => e.type \notin {"response", "error"}
              /\ turns[k].failed <=> \E e \in E : Key(e) = k /\ e.type = "error"
              /\ \A x : x \in turns[k].tools <=>
                           \E e \in E : Key(e) = k /\ e.type = "response" /\ x \in e.tools
  BY <1>6, <1>7, <1>8, <1>9 DEF Tells, IsOrdinary
<1>11. ASSUME NEW k \in DOMAIN turns
       PROVE  /\ \A e \in E : Key(e) = k /\ Names(e) => turns[k].model # None
              /\ \/ turns[k].model = None
                 \/ \E e \in E : Key(e) = k /\ Names(e) /\ turns[k].model = e.model
  BY <1>6, <1>7, <1>8, <1>9 DEF Tells, IsOrdinary, Names
<1>12. ASSUME NEW k \in DOMAIN turns
       PROVE  \/ turns[k].usage = 0 /\ \A e \in E : Key(e) = k => ~Sets(e)
              \/ \E e \in E : Key(e) = k /\ Sets(e) /\ turns[k].usage = e.usage
  BY <1>6, <1>7, <1>8, <1>9 DEF Tells, IsOrdinary, Sets
<1>13. ASSUME NEW x PROVE {k \in DOMAIN before : x \in before[k].tools} = Makers(E, x)
  <2>1. \A k : k \in Makers(E, x) <=>
                  \E e \in E : Key(e) = k /\ e.type = "response" /\ x \in e.tools
    BY DEF Makers
  <2>2. \A k : k \in Makers(E, x) => k \in DOMAIN before
    BY <1>3, <1>5, <2>1 DEF IsOrdinary
  <2> QED
    BY <1>3, <1>6, <1>10, <2>1, <2>2
<1>14. \A i \in 1..L : Owners(before, s[i]) = Makers(E, s[i].answers)
  BY <1>13 DEF Owners
<1>15. ASSUME NEW k \in DOMAIN turns, NEW b
       PROVE  b \in ToSet(turns[k].blobs) <=>
                 \/ \E e \in E : Key(e) = k /\ e.type = "content" /\ e.blob = b /\ b # 0
                 \/ \E e \in E : /\ IsResult(e) /\ e.blob = b /\ b # 0
                                 /\ Makers(E, e.answers) # {}
                                 /\ k = CHOOSE o \in Makers(E, e.answers) : TRUE
  <2>1. b \in ToSet(before[k].blobs) <=>
           \E i \in Among(s, L, k) : s[i].type = "content" /\ s[i].blob = b /\ b # 0
    BY <1>7 DEF Tells
  <2>2. b \in ToSet(before[k].blobs) <=>
           \E e \in E : Key(e) = k /\ e.type = "content" /\ e.blob = b /\ b # 0
    BY <1>8, <1>9, <2>1 DEF IsOrdinary
  <2>3. ASSUME NEW i
        PROVE  i \in Given(before, s, L, k) <=>
                  /\ i \in 1..L /\ IsResult(s[i]) /\ Makers(E, s[i].answers) # {}
                  /\ k = CHOOSE o \in Makers(E, s[i].answers) : TRUE
    <3>1. CASE i \in 1..L
      <4>1. Owners(before, s[i]) = Makers(E, s[i].answers)
        BY <1>14, <3>1
      <4> QED
        BY <3>1, <4>1 DEF Given
    <3> QED
      BY <3>1 DEF Given
  <2>4. (\E i \in Given(before, s, L, k) : s[i].blob = b /\ b # 0) <=>
           \E e \in E : /\ IsResult(e) /\ e.blob = b /\ b # 0
                        /\ Makers(E, e.answers) # {}
                        /\ k = CHOOSE o \in Makers(E, e.answers) : TRUE
    BY <1>1, <2>3
  <2> QED
    BY <1>3, <2>2, <2>4
<1>16. ASSUME NEW k \in DOMAIN turns PROVE Says(E, k, turns[k])
  BY <1>6, <1>10, <1>11, <1>12, <1>15 DEF Says
<1>17. ASSUME NEW k \in DOMAIN turns, NEW i \in 1..L, Key(s[i]) = k, Sets(s[i]),
              \A j \in 1..L : Key(s[j]) = k /\ Sets(s[j]) => j <= i
       PROVE  turns[k].usage = s[i].usage
  <2>1. i \in Among(s, L, k)
    BY <1>17 DEF Among, Sets, IsOrdinary
  <2>2. PICK m \in Among(s, L, k) : /\ Sets(s[m]) /\ before[k].usage = s[m].usage
                                    /\ \A j \in Among(s, L, k) : Sets(s[j]) => j <= m
    BY <1>7, <1>17, <2>1 DEF Tells
  <2>3. m \in 1..L /\ m <= i /\ i <= m
    BY <1>9, <1>17, <2>1, <2>2
  <2>4. m = i
    BY <1>0, <2>3
  <2> QED
    BY <1>6, <2>2, <2>4
<1> QED
  BY <1>4, <1>5, <1>16, <1>17 DEF E

\* Events are matched by key (BuildTurns): of two streams with the same events, in
\* whatever order and however often each, the turns are the same but for the order
\* of content and for usage, which the last record sets, if no two events name
\* different models for one turn.
THEOREM SameEventsSameTurns ==
    ASSUME NEW s \in Seq(Event), NEW q \in Seq(Event), ToSet(s) = ToSet(q),
           \A e, f \in ToSet(s) :
              Key(e) = Key(f) /\ Names(e) /\ Names(f) => e.model = f.model
    PROVE  PairedTurns(s) = PairedTurns(q)
<1> DEFINE E == ToSet(s)
           S == BuildTurns(s)
           Q == BuildTurns(q)
<1>1. /\ \A k : k \in DOMAIN S <=> \E e \in E : IsOrdinary(e) /\ Key(e) = k
      /\ \A k : k \in DOMAIN Q <=> \E e \in E : IsOrdinary(e) /\ Key(e) = k
      /\ \A k \in DOMAIN S : Says(E, k, S[k])
      /\ \A k \in DOMAIN Q : Says(E, k, Q[k])
  BY TurnsBuilt
<1>2. \A e, f \in E : Key(e) = Key(f) /\ Names(e) /\ Names(f) => e.model = f.model
  OBVIOUS
<1> DEFINE Seen(turns, k) == [Paired(turns[k]) EXCEPT !.blobs = @ \ Disputed(s, turns, k)]
<1>3. /\ PairedTurns(s) = [k \in DOMAIN S |-> Seen(S, k)]
      /\ PairedTurns(q) = [k \in DOMAIN Q |-> Seen(Q, k)]
  BY DEF PairedTurns, Disputed
<1> HIDE DEF E, S, Q
<1>4. DOMAIN S = DOMAIN Q
  BY <1>1
<1>5. ASSUME NEW k \in DOMAIN S PROVE Seen(S, k) = Seen(Q, k)
  <2> DEFINE t == S[k]
             u == Q[k]
  <2>1. Says(E, k, t) /\ Says(E, k, u)
    BY <1>1, <1>4
  <2> HIDE DEF t, u
  <2>2. t \in TurnType /\ u \in TurnType
    BY <2>1 DEF Says
  <2>3. (t.pending <=> u.pending) /\ (t.failed <=> u.failed)
    BY <2>1 DEF Says
  <2>4. t.pending = u.pending /\ t.failed = u.failed
    BY <2>2, <2>3 DEF TurnType
  <2>5. t.tools = u.tools
    <3>1. \A x : x \in t.tools <=> x \in u.tools
      BY <2>1 DEF Says
    <3> QED
      BY <2>2, <3>1 DEF TurnType
  <2>6. t.model = u.model
    BY <1>2, <2>1 DEF Says
  <2>7. \A b : b \in ToSet(t.blobs) <=> b \in ToSet(u.blobs)
    BY <2>1 DEF Says
  <2>8. ToSet(t.blobs) = ToSet(u.blobs)
    BY <2>7
  <2>9. Paired(S[k]) = Paired(Q[k])
    BY <2>4, <2>5, <2>6, <2>8 DEF Paired, t, u
  <2>10. Disputed(s, S, k) = Disputed(s, Q, k)
    <3>1. \A ev : Owners(S, ev) = Owners(Q, ev)
      <4>1. ASSUME NEW o \in DOMAIN S, NEW x PROVE x \in S[o].tools <=> x \in Q[o].tools
        BY <1>1, <1>4 DEF Says
      <4> QED
        BY <1>4, <4>1 DEF Owners
    <3> QED
      BY <3>1 DEF Disputed
  <2> QED
    BY <2>9, <2>10
<1> HIDE DEF Seen
<1> QED
  BY <1>3, <1>4, <1>5

-----------------------------------------------------------------------------
(* What is stored of a call.                                               *)

LEMMA ConcatSet ==
    ASSUME NEW S, NEW q \in Seq(S), NEW r \in Seq(S)
    PROVE  ToSet(q \o r) = ToSet(q) \cup ToSet(r)
<1>1. /\ q \o r \in Seq(S) /\ Len(q) \in Nat /\ Len(r) \in Nat
      /\ Len(q \o r) = Len(q) + Len(r)
      /\ \A i \in 1..Len(q) : (q \o r)[i] = q[i]
      /\ \A i \in 1..Len(r) : (q \o r)[Len(q) + i] = r[i]
  OBVIOUS
<1>2. /\ DOMAIN q = 1..Len(q) /\ DOMAIN r = 1..Len(r)
      /\ DOMAIN (q \o r) = 1..Len(q) + Len(r)
  BY <1>1
<1> DEFINE m == Len(q)
           n == Len(r)
           all == q \o r
<1> HIDE DEF all
<1>3. ASSUME NEW y \in ToSet(all) PROVE y \in ToSet(q) \cup ToSet(r)
  <2>1. PICK i \in 1..m + n : all[i] = y
    BY <1>2 DEF ToSet, all
  <2>2. i \in 1..m \/ (i - m \in 1..n /\ m + (i - m) = i)
    BY <1>1
  <2>3. CASE i \in 1..m
    BY <1>1, <1>2, <2>1, <2>3 DEF ToSet, all
  <2>4. CASE i - m \in 1..n /\ m + (i - m) = i
    <3>1. r[i - m] = y
      BY <1>1, <2>1, <2>4 DEF all
    <3> QED
      BY <1>2, <2>4, <3>1 DEF ToSet
  <2> QED
    BY <2>2, <2>3, <2>4
<1>4. ASSUME NEW y \in ToSet(q) PROVE y \in ToSet(all)
  <2>1. PICK i \in 1..m : q[i] = y
    BY <1>2 DEF ToSet
  <2>2. i \in 1..m + n /\ all[i] = y
    BY <1>1, <2>1 DEF all
  <2> QED
    BY <1>2, <2>2 DEF ToSet, all
<1>5. ASSUME NEW y \in ToSet(r) PROVE y \in ToSet(all)
  <2>1. PICK i \in 1..n : r[i] = y
    BY <1>2 DEF ToSet
  <2>2. m + i \in 1..m + n /\ all[m + i] = y
    BY <1>1, <2>1 DEF all
  <2> QED
    BY <1>2, <2>2 DEF ToSet, all
<1> QED
  BY <1>3, <1>4, <1>5 DEF all

\* An append adds to the events of one day and to no other.
LEMMA AppendSets ==
    ASSUME StoredInv, NEW f \in 1..MaxDay, NEW evs \in Seq(Event),
           stored' = [stored EXCEPT ![f] = @ \o evs]
    PROVE  \A d \in 1..MaxDay :
              ToSet(stored'[d]) = IF d = f THEN ToSet(stored[d]) \cup ToSet(evs)
                                  ELSE ToSet(stored[d])
<1>1. stored[f] \in Seq(Event)
  BY DEF StoredInv
<1>2. ToSet(stored[f] \o evs) = ToSet(stored[f]) \cup ToSet(evs)
  BY <1>1, ConcatSet
<1>3. stored'[f] = stored[f] \o evs /\ \A d \in 1..MaxDay : d # f => stored'[d] = stored[d]
  BY DEF StoredInv
<1>4. ToSet(stored'[f]) = ToSet(stored[f]) \cup ToSet(evs)
  BY <1>2, <1>3
<1>5. ASSUME NEW d \in 1..MaxDay, d # f PROVE ToSet(stored'[d]) = ToSet(stored[d])
  BY <1>3, <1>5
<1> QED
  BY <1>4, <1>5

\* What Record adds to a day: nothing, or the event.
LEMMA RecordStores ==
    ASSUME StoredInv, NEW c \in Proxied, NEW ev \in Event, Record(c, ev),
           NEW d \in 1..MaxDay, NEW x \in ToSet(stored'[d])
    PROVE  x \in ToSet(stored[d]) \/ (x = ev /\ kind[c] # "other")
<1>1. CASE stored' = stored
  BY <1>1
<1>2. CASE kind[c] # "other" /\ stored' = [stored EXCEPT ![day] = Append(@, ev)]
  <2>1. day \in 1..MaxDay /\ stored[day] \in Seq(Event)
    BY DEF StoredInv
  <2>2. ToSet(Append(stored[day], ev)) = ToSet(stored[day]) \cup {ev}
    BY <2>1, AppendSet
  <2>3. stored'[d] = IF d = day THEN Append(stored[day], ev) ELSE stored[d]
    BY <1>2, <2>1 DEF StoredInv
  <2> QED
    BY <1>2, <2>2, <2>3
<1> QED
  BY <1>1, <1>2 DEF Record

\* What AppendLine appends: the first events of a line, to the day of that line.
LEMMA LineAppended ==
    ASSUME StoredInv, NEW c \in Tailed, NEW n \in 1..2, AppendLine(c, n)
    PROVE  LET next == tail[c] + 1
               evs == SubSeq(Lines(c)[next], 1, n)
               f == wrote[c][next]
           IN  /\ next \in 1..3 /\ next <= Len(wrote[c]) /\ f \in 1..MaxDay
               /\ Lines(c)[next] \in Seq(Event) /\ n <= Len(Lines(c)[next])
               /\ evs \in Seq(Event) /\ Len(evs) = n
               /\ \A i \in 1..n : evs[i] = Lines(c)[next][i]
               /\ ToSet(evs) \subseteq ToSet(Lines(c)[next])
               /\ stored' = [stored EXCEPT ![f] = @ \o evs]
<1> DEFINE next == tail[c] + 1
           line == Lines(c)[next]
           f == wrote[c][next]
           evs == SubSeq(line, 1, n)
<1>1. next <= Len(wrote[c]) /\ n <= Len(line) /\ stored' = [stored EXCEPT ![f] = @ \o evs]
  BY DEF AppendLine
<1>2. next \in 1..3 /\ f \in 1..MaxDay
  <2>1. wrote[c] \in Seq(1..MaxDay) /\ tail[c] \in Nat /\ Len(wrote[c]) <= 3
        /\ tail[c] + 1 <= Len(wrote[c])
    BY <1>1 DEF StoredInv
  <2>2. tail[c] + 1 \in 1..Len(wrote[c]) /\ tail[c] + 1 \in 1..3
    BY <2>1
  <2>3. \A S : \A q \in Seq(S) : \A i \in 1..Len(q) : q[i] \in S
    OBVIOUS
  <2> QED
    BY <2>1, <2>2, <2>3
<1>3. line \in Seq(Event)
  BY <1>2, LineEvents
<1>4. /\ evs \in Seq(Event) /\ Len(evs) = n
      /\ \A i \in 1..n : evs[i] = line[i]
  <2> HIDE DEF line
  <2> QED
    BY <1>1, <1>3
<1>5. ToSet(evs) \subseteq ToSet(line)
  <2>1. DOMAIN evs = 1..n /\ \A i \in 1..n : i \in DOMAIN line
    <3> HIDE DEF line
    <3> QED
      BY <1>1, <1>3, <1>4
  <2> HIDE DEF line, evs
  <2> QED
    BY <1>4, <2>1 DEF ToSet
<1> QED
  BY <1>1, <1>2, <1>3, <1>4, <1>5

\* What a line says of its call: with the message id, and of the model served; or
\* the result of its tool.
LEMMA LineTells ==
    ASSUME NEW c \in Tailed, NEW n \in 1..3, NEW ev \in ToSet(Lines(c)[n])
    PROVE  /\ c # None
           /\ ev.type = "result" \/ (ev.msg # None /\ ev.model \in {None, Served})
           /\ ev.msg \in {c, None} /\ ev.tools \subseteq {c} /\ (c \in ev.tools => ev.msg = c)
           /\ ev.type = "result" => ev.answers = c
           /\ ev.type = "response" => n \in 1..2
<1>1. c # None
  BY CaptureAssumption
<1>2. ToSet(Lines(c)[n]) = IF n = 1 THEN {Measure(c, 1, {}), Content(c, 1)}
                           ELSE IF n = 2 THEN {Measure(c, 2, {c}), Content(c, 2)}
                           ELSE {Result(c, 3)}
  <2>1. /\ Lines(c)[1] = <<Measure(c, 1, {}), Content(c, 1)>>
        /\ Lines(c)[2] = <<Measure(c, 2, {c}), Content(c, 2)>>
        /\ Lines(c)[3] = <<Result(c, 3)>>
    BY DEF Lines
  <2>2. \A a, b : ToSet(<<a, b>>) = {a, b} /\ ToSet(<<a>>) = {a}
    BY DEF ToSet
  <2> QED
    BY <2>1, <2>2
<1>3. /\ \A u, t : LET m == Measure(c, u, t) IN
            m.type = "response" /\ m.msg = c /\ m.usage = u /\ m.tools = t /\ m.model = Served
      /\ \A b : LET e == Content(c, b) IN
            /\ e.type = "content" /\ e.msg = c /\ e.blob = b /\ e.model = None
            /\ e.tools = {}
      /\ \A b : LET e == Result(c, b) IN
            /\ e.type = "result" /\ e.answers = c /\ e.blob = b /\ e.tools = {}
            /\ e.msg = None
  BY DEF Measure, Content, Result, Blank
<1>4. CASE n = 1
  <2>1. ev = Measure(c, 1, {}) \/ ev = Content(c, 1)
    BY <1>2, <1>4
  <2> QED
    BY <1>1, <1>3, <1>4, <2>1
<1>5. CASE n = 2
  <2>1. ev = Measure(c, 2, {c}) \/ ev = Content(c, 2)
    BY <1>2, <1>5
  <2> QED
    BY <1>1, <1>3, <1>5, <2>1
<1>6. CASE n = 3
  <2>1. ev = Result(c, 3)
    BY <1>2, <1>6
  <2> QED
    BY <1>1, <1>3, <1>6, <2>1
<1> QED
  BY <1>4, <1>5, <1>6

\* An ordinary event without a message id tells of an exchange that is recorded:
\* its request, or how it ended, as the capture of it has it.
Recorded(ev) ==
    LET c == ev.turn
    IN  /\ c \in Proxied /\ kind[c] # "other"
        /\ \/ ev = Request(c) /\ pc[c] # "new"
           \/ ev = Response(c) /\ pc[c] \in {"ended", "closed"}
           \/ ev = Error(c) /\ pc[c] = "closed"

Told(ev) == \/ IsResult(ev)
            \/ ev.msg = None /\ Recorded(ev)
            \/ ev.msg # None /\ ev.model \in {None, Served}

ToldInv == \A d \in 1..MaxDay : \A ev \in ToSet(stored[d]) : Told(ev)

\* A capture that left nothing out has what was delivered.
KeptInv == \A c \in Proxied : ~truncated[c] => buf[c] = SubSeq(Frames, 1, sent[c])

\* What an event tells stays true.
LEMMA StillTold ==
    ASSUME NEW ev, Told(ev), kind' = kind,
           \A k \in Proxied :
              /\ pc[k] # "new" => pc'[k] # "new"
              /\ pc[k] \in {"ended", "closed"} =>
                    pc'[k] \in {"ended", "closed"} /\ buf'[k] = buf[k]
              /\ pc[k] = "closed" => pc'[k] = "closed"
    PROVE  Told(ev)'
<1>1. ASSUME NEW k \in Proxied, pc[k] \in {"ended", "closed"} PROVE Response(k)' = Response(k)
  BY <1>1 DEF Response, Readable, Request, Blank
<1>2. \A k : Request(k)' = Request(k) /\ Error(k)' = Error(k)
  BY DEF Request, Error, Blank
<1>3. ASSUME Recorded(ev) PROVE Recorded(ev)'
  BY <1>1, <1>2, <1>3 DEF Recorded
<1> QED
  BY <1>3 DEF Told

\* Steps that store nothing.
LEMMA NothingTold ==
    ASSUME ToldInv, stored' = stored, kind' = kind,
           \A k \in Proxied :
              /\ pc[k] # "new" => pc'[k] # "new"
              /\ pc[k] \in {"ended", "closed"} =>
                    pc'[k] \in {"ended", "closed"} /\ buf'[k] = buf[k]
              /\ pc[k] = "closed" => pc'[k] = "closed"
    PROVE  ToldInv'
<1>1. ASSUME NEW d \in 1..MaxDay, NEW ev \in ToSet(stored'[d]) PROVE Told(ev)'
  BY <1>1, StillTold DEF ToldInv
<1> QED
  BY <1>1 DEF ToldInv

\* Steps of an exchange that record an event.
LEMMA RecordTold ==
    ASSUME StoredInv, ToldInv, NEW c \in Proxied, NEW to \in {"sent", "ended", "closed"},
           NEW ev \in Event, Record(c, ev),
           \/ ev = Request(c) /\ pc[c] = "new" /\ to = "sent"
           \/ ev = Response(c) /\ pc[c] = "streaming" /\ to \in {"ended", "closed"}
           \/ ev = Error(c) /\ pc[c] = "sent" /\ to = "closed",
           pc' = [pc EXCEPT ![c] = to], kind' = kind, buf' = buf
    PROVE  ToldInv'
<1>1. pc'[c] = to /\ \A k \in Proxied : k # c => pc'[k] = pc[k]
  BY DEF StoredInv
<1>2. /\ ev.turn = c /\ ev.msg = None
      /\ Response(c)' = Response(c) /\ Request(c)' = Request(c) /\ Error(c)' = Error(c)
  BY DEF Request, Response, Error, Blank, Readable
<1>3. ASSUME NEW d \in 1..MaxDay, NEW x \in ToSet(stored'[d]) PROVE Told(x)'
  <2>1. CASE x \in ToSet(stored[d])
    <3>1. Told(x)
      BY <2>1 DEF ToldInv
    <3> QED
      BY <1>1, <3>1, StillTold
  <2>2. CASE x = ev /\ kind[c] # "other"
    BY <1>1, <1>2, <2>2 DEF Told, Recorded
  <2> QED
    BY <2>1, <2>2, RecordStores
<1> QED
  BY <1>3 DEF ToldInv

LEMMA ToldNext == CaptureInv /\ ToldInv /\ [Next]_vars => ToldInv'
<1> SUFFICES ASSUME CaptureInv, ToldInv, [Next]_vars PROVE ToldInv'
  OBVIOUS
<1>0. StoredInv
  BY DEF CaptureInv
<1>1. ASSUME NEW c \in Proxied, ServeHTTP(c) \/ HandleError(c) \/ ReadEnds(c) PROVE ToldInv'
  BY <1>0, <1>1, ProxyEvents, RecordTold DEF ServeHTTP, HandleError, ReadEnds, At
<1>2. ASSUME NEW c \in Proxied, Close(c) PROVE ToldInv'
  <2>1. CASE At(c, "streaming", "closed") /\ Record(c, Response(c))
    BY <1>0, <1>2, <2>1, ProxyEvents, RecordTold DEF Close, At
  <2>2. CASE At(c, "ended", "closed") /\ UNCHANGED <<stored, lost, faults>>
    <3>1. kind' = kind /\ buf' = buf
      BY <1>2 DEF Close
    <3>2. \A k \in Proxied : pc'[k] = IF k = c THEN "closed" ELSE pc[k]
      BY <1>0, <2>2 DEF At, StoredInv
    <3> QED
      BY <2>2, <3>1, <3>2, NothingTold DEF At
  <2> QED
    BY <1>2, <2>1, <2>2 DEF Close
<1>3. ASSUME NEW c \in Proxied, ModifyResponse(c) PROVE ToldInv'
  <2>1. \A k \in Proxied : pc'[k] = IF k = c THEN "streaming" ELSE pc[k]
    BY <1>0, <1>3 DEF ModifyResponse, At, StoredInv
  <2> QED
    BY <1>3, <2>1, NothingTold DEF ModifyResponse, At
<1>4. ASSUME NEW c \in Proxied, Read(c) PROVE ToldInv'
  <2>1. \A k \in Proxied : pc'[k] = pc[k] /\ (k # c => buf'[k] = buf[k])
    BY <1>0, <1>4 DEF Read, At, StoredInv
  <2> QED
    BY <1>4, <2>1, NothingTold DEF Read, At
<1>5. CASE Killed
  BY <1>5, NothingTold DEF Killed
<1>6. ASSUME NEW c \in Tailed, NEW n \in 1..2, AppendLine(c, n) PROVE ToldInv'
  <2> DEFINE line == Lines(c)[tail[c] + 1]
  <2>1. kind' = kind /\ pc' = pc /\ buf' = buf
    BY <1>6 DEF AppendLine, exchange
  <2>2. ASSUME NEW d \in 1..MaxDay, NEW x \in ToSet(stored'[d]) PROVE Told(x)'
    <3>1. x \in ToSet(stored[d]) \/ (tail[c] + 1 \in 1..3 /\ x \in ToSet(line))
      <4> DEFINE f == wrote[c][tail[c] + 1]
                 evs == SubSeq(line, 1, n)
      <4>1. /\ tail[c] + 1 \in 1..3 /\ f \in 1..MaxDay /\ evs \in Seq(Event)
            /\ ToSet(evs) \subseteq ToSet(line)
            /\ stored' = [stored EXCEPT ![f] = @ \o evs]
        BY <1>0, <1>6, LineAppended
      <4> HIDE DEF line, f, evs
      <4>2. ToSet(stored'[d]) = IF d = f THEN ToSet(stored[d]) \cup ToSet(evs)
                                ELSE ToSet(stored[d])
        BY <1>0, <4>1, AppendSets
      <4> QED
        BY <4>1, <4>2
    <3>2. CASE x \in ToSet(stored[d])
      <4>1. Told(x)
        BY <3>2 DEF ToldInv
      <4> QED
        BY <2>1, <4>1, StillTold
    <3>3. CASE tail[c] + 1 \in 1..3 /\ x \in ToSet(line)
      <4>1. IsResult(x) \/ (x.msg # None /\ x.model \in {None, Served})
        <5>1. \A m \in 1..3 : \A y \in ToSet(Lines(c)[m]) :
                 IsResult(y) \/ (y.msg # None /\ y.model \in {None, Served})
          <6>1. ASSUME NEW m \in 1..3, NEW y \in ToSet(Lines(c)[m])
                PROVE  y.type = "result" \/ (y.msg # None /\ y.model \in {None, Served})
            BY LineTells
          <6> QED
            BY <6>1 DEF IsResult
        <5> QED
          BY <3>3, <5>1
      <4> QED
        BY <4>1 DEF Told
    <3> QED
      BY <3>1, <3>2, <3>3
  <2> QED
    BY <2>2 DEF ToldInv
<1>7. ASSUME UNCHANGED <<stored, exchange>> PROVE ToldInv'
  BY <1>7, NothingTold DEF exchange
<1>8. ASSUME NEW c \in Tailed, WriteLine(c) \/ Replay(c) PROVE ToldInv'
  BY <1>7, <1>8 DEF WriteLine, Replay
<1>9. CASE Midnight \/ UNCHANGED vars
  BY <1>7, <1>9 DEF Midnight, vars
<1> QED
  BY <1>1, <1>2, <1>3, <1>4, <1>5, <1>6, <1>8, <1>9 DEF Next, Exchange

LEMMA KeptNext == StoredInv /\ BoundsInv /\ KeptInv /\ [Next]_vars => KeptInv'
<1> SUFFICES ASSUME StoredInv, BoundsInv, KeptInv, [Next]_vars PROVE KeptInv'
  OBVIOUS
<1>1. ASSUME NEW c \in Proxied, Read(c) PROVE KeptInv'
  <2> DEFINE frame == Frames[sent[c] + 1]
             fits == Held(c) + Size(c, frame) <= MaxCapture
  <2>1. /\ sent' = [sent EXCEPT ![c] = sent[c] + 1]
        /\ truncated' = [truncated EXCEPT ![c] = truncated[c] \/ ~fits]
        /\ buf' = IF fits THEN [buf EXCEPT ![c] = Append(buf[c], frame)] ELSE buf
        /\ sent[c] < 3
    BY <1>1 DEF Read, Frames
  <2>2. sent[c] \in 0..2
    BY <2>1 DEF BoundsInv, Frames
  <2> HIDE DEF frame, fits
  <2>3. ASSUME NEW k \in Proxied, k # c
        PROVE  truncated'[k] = truncated[k] /\ buf'[k] = buf[k] /\ sent'[k] = sent[k]
    BY <2>1, <2>3 DEF BoundsInv
  <2>4. ASSUME ~truncated'[c] PROVE buf'[c] = SubSeq(Frames, 1, sent'[c])
    <3>1. truncated'[c] = (truncated[c] \/ ~fits) /\ sent'[c] = sent[c] + 1
      BY <2>1 DEF BoundsInv
    <3>2. fits /\ ~truncated[c]
      BY <2>4, <3>1
    <3>3. buf'[c] = Append(SubSeq(Frames, 1, sent[c]), frame)
      BY <2>1, <3>2 DEF BoundsInv, KeptInv
    <3>4. ASSUME NEW n \in 0..2
          PROVE  Append(SubSeq(Frames, 1, n), Frames[n + 1]) = SubSeq(Frames, 1, n + 1)
      <4>1. CASE n = 0
        BY <4>1 DEF Frames
      <4>2. CASE n = 1
        BY <4>2 DEF Frames
      <4>3. CASE n = 2
        BY <4>3 DEF Frames
      <4> QED
        BY <4>1, <4>2, <4>3
    <3> QED
      BY <2>2, <3>1, <3>3, <3>4 DEF frame
  <2> QED
    BY <2>3, <2>4 DEF KeptInv
<1>2. ASSUME UNCHANGED <<sent, buf, truncated>> PROVE KeptInv'
  BY <1>2 DEF KeptInv
<1>3. ASSUME NEW c \in Proxied,
             ServeHTTP(c) \/ HandleError(c) \/ ModifyResponse(c) \/ ReadEnds(c) \/ Close(c)
      PROVE  KeptInv'
  BY <1>2, <1>3 DEF ServeHTTP, HandleError, ModifyResponse, ReadEnds, Close
<1>4. CASE Killed
  BY <1>2, <1>4 DEF Killed
<1>5. ASSUME NEW c \in Tailed, NEW n \in 1..2, WriteLine(c) \/ AppendLine(c, n) \/ Replay(c)
      PROVE  KeptInv'
  <2>1. UNCHANGED exchange
    <3>1. CASE WriteLine(c)
      BY <3>1 DEF WriteLine
    <3>2. CASE AppendLine(c, n)
      BY <3>2 DEF AppendLine
    <3>3. CASE Replay(c)
      BY <3>3 DEF Replay
    <3> QED
      BY <1>5, <3>1, <3>2, <3>3
  <2> QED
    BY <1>2, <2>1 DEF exchange
<1>6. CASE Midnight \/ UNCHANGED vars
  BY <1>2, <1>6 DEF Midnight, vars, exchange
<1> QED
  BY <1>1, <1>3, <1>4, <1>5, <1>6 DEF Next, Exchange

\* Any one event brought ahead, the events of a day are the same.
LEMMA BroughtSet ==
    ASSUME NEW s \in Seq(Event), NEW i \in 1..Len(s)
    PROVE  Brought(s, i) \in Seq(Event) /\ ToSet(Brought(s, i)) = ToSet(s)
<1> DEFINE L == Len(s)
           front == SubSeq(s, 1, i - 1)
           back == SubSeq(s, i + 1, L)
<1>0. L \in Nat /\ s[i] \in Event /\ DOMAIN s = 1..L
  OBVIOUS
<1>1. Brought(s, i) = <<s[i]>> \o (front \o back)
  BY DEF Brought, RemoveAt
<1>2. /\ front \in Seq(Event) /\ Len(front) = i - 1
      /\ \A j \in 1..i - 1 : front[j] = s[j]
  BY <1>0
<1>3. /\ back \in Seq(Event) /\ Len(back) = L - i
      /\ \A j \in 1..L - i : back[j] = s[i + j]
  <2>1. \A T : \A q \in Seq(T) : \A m \in 1..Len(q) :
           /\ SubSeq(q, m + 1, Len(q)) \in Seq(T)
           /\ Len(SubSeq(q, m + 1, Len(q))) = Len(q) - m
           /\ \A j \in 1..Len(q) - m : SubSeq(q, m + 1, Len(q))[j] = q[m + j]
    OBVIOUS
  <2> QED
    BY <2>1
<1> HIDE DEF front, back
<1>4. DOMAIN front = 1..i - 1 /\ DOMAIN back = 1..L - i
  BY <1>2, <1>3
<1>5. /\ <<s[i]>> \in Seq(Event) /\ front \o back \in Seq(Event)
      /\ <<s[i]>> \o (front \o back) \in Seq(Event)
      /\ ToSet(<<s[i]>>) = {s[i]}
  BY <1>0, <1>2, <1>3 DEF ToSet
<1>6. ToSet(front \o back) = ToSet(front) \cup ToSet(back)
  BY <1>2, <1>3, ConcatSet
<1>7. ToSet(Brought(s, i)) = {s[i]} \cup ToSet(front) \cup ToSet(back)
  <2>1. \A q, r \in Seq(Event) : ToSet(q \o r) = ToSet(q) \cup ToSet(r)
    BY ConcatSet
  <2>2. ToSet(<<s[i]>> \o (front \o back)) = ToSet(<<s[i]>>) \cup ToSet(front \o back)
    BY <1>5, <2>1
  <2> QED
    BY <1>1, <1>5, <1>6, <2>2
<1>8. ASSUME NEW x \in ToSet(front) \cup ToSet(back) PROVE x \in ToSet(s)
  <2>1. CASE x \in ToSet(front)
    <3>1. PICK j \in 1..i - 1 : s[j] = x
      BY <1>2, <1>4, <2>1 DEF ToSet
    <3>2. j \in 1..L
      BY <1>0
    <3> QED
      BY <1>0, <3>1, <3>2 DEF ToSet
  <2>2. CASE x \in ToSet(back)
    <3>1. PICK j \in 1..L - i : s[i + j] = x
      BY <1>3, <1>4, <2>2 DEF ToSet
    <3>2. i + j \in 1..L
      BY <1>0
    <3> QED
      BY <1>0, <3>1, <3>2 DEF ToSet
  <2> QED
    BY <1>8, <2>1, <2>2
<1>9. ASSUME NEW j \in 1..L PROVE s[j] \in {s[i]} \cup ToSet(front) \cup ToSet(back)
  <2>1. CASE j < i
    <3>1. j \in 1..i - 1
      BY <1>0, <2>1
    <3> QED
      BY <1>2, <1>4, <3>1 DEF ToSet
  <2>2. CASE j > i
    <3>1. j - i \in 1..L - i /\ i + (j - i) = j
      BY <1>0, <2>2
    <3>2. back[j - i] = s[j]
      BY <1>3, <3>1
    <3> QED
      BY <1>4, <3>1, <3>2 DEF ToSet
  <2>3. CASE j = i
    BY <2>3
  <2> QED
    BY <1>0, <2>1, <2>2, <2>3
<1>10. ToSet(s) = {s[j] : j \in 1..L}
  BY <1>0 DEF ToSet
<1> QED
  BY <1>0, <1>1, <1>5, <1>7, <1>8, <1>9, <1>10

LEMMA ToldInit == Init => ToldInv /\ KeptInv
<1> SUFFICES ASSUME Init PROVE ToldInv /\ KeptInv
  OBVIOUS
<1>1. \A d \in 1..MaxDay : stored[d] = <<>>
  BY DEF Init
<1>2. \A c \in Proxied : buf[c] = <<>> /\ sent[c] = 0
  BY DEF Init
<1>3. ToSet(<<>>) = {} /\ SubSeq(Frames, 1, 0) = <<>>
  BY DEF ToSet, Frames
<1> QED
  BY <1>1, <1>2, <1>3 DEF ToldInv, KeptInv

CallsInv == CaptureInv /\ BoundsInv /\ ToldInv /\ KeptInv

LEMMA CallsInit == Init => CallsInv
BY CaptureInit, BoundsInit, ToldInit DEF CallsInv

LEMMA CallsNext == CallsInv /\ [Next]_vars => CallsInv'
BY CaptureNext, BoundsNext, ToldNext, KeptNext DEF CallsInv, CaptureInv

\* Events are matched by key and not by where they stand in the stream
\* (BuildTurns of internal/query: "Events may arrive in any order within the
\* stream"): any one of them may come ahead of all others.  Two observers of a
\* turn never name different models, and of results and calls each finds the
\* other because results wait for all turns.
THEOREM TurnsIgnoreOrder == Spec => []OrderIndependent
<1>1. Init => CallsInv
  BY CallsInit
<1>2. CallsInv /\ [Next]_vars => CallsInv'
  BY CallsNext
<1>3. CallsInv => OrderIndependent
  <2> SUFFICES ASSUME StoredInv, ToldInv, NEW d \in 1..MaxDay, NEW i \in 1..Len(stored[d])
               PROVE  PairedTurns(Brought(stored[d], i)) = PairedTurns(stored[d])
    BY DEF CallsInv, CaptureInv, OrderIndependent
  <2>1. stored[d] \in Seq(Event)
    BY DEF StoredInv
  <2>2. /\ Brought(stored[d], i) \in Seq(Event)
        /\ ToSet(Brought(stored[d], i)) = ToSet(stored[d])
    BY <2>1, BroughtSet
  <2>3. ASSUME NEW e \in ToSet(stored[d]), Names(e)
        PROVE  e.model = IF e.msg = None THEN Alias ELSE Served
    <3>1. Told(e) /\ ~IsResult(e)
      BY <2>3 DEF ToldInv, Names, IsResult
    <3>2. \A c : Request(c).model = Alias /\ Response(c).model = Alias /\ Error(c).model = Alias
      BY DEF Request, Response, Error, Blank
    <3> QED
      BY <2>3, <3>1, <3>2 DEF Told, Recorded, Names
  <2>4. ASSUME NEW e \in ToSet(stored[d]), NEW f \in ToSet(stored[d]),
               Key(e) = Key(f), Names(e), Names(f)
        PROVE  e.model = f.model
    <3>1. e.msg = None <=> f.msg = None
      BY <2>4 DEF Key
    <3> QED
      BY <2>3, <2>4, <3>1
  <2> QED
    BY <2>1, <2>2, <2>4, SameEventsSameTurns
<1> QED
  BY <1>1, <1>2, <1>3, PTL DEF Spec

-----------------------------------------------------------------------------
\* What the response of an exchange holds whose capture left nothing out: of a
\* stream what came, of a document all or nothing.
LEMMA ResponseTells ==
    ASSUME BoundsInv, KeptInv, NEW c \in Proxied, ~truncated[c]
    PROVE  /\ kind[c] \in {"sse", "long"} =>
                 /\ Response(c).tools = IF sent[c] >= 2 THEN {c} ELSE {}
                 /\ Response(c).usage = <<0, 1, 1, 2>>[sent[c] + 1]
           /\ kind[c] = "json" /\ sent[c] = Len(Frames) =>
                 Response(c).tools = {c} /\ Response(c).usage = 2
<1>1. sent[c] \in 0..3 /\ Len(Frames) = 3 /\ buf[c] = SubSeq(Frames, 1, sent[c])
  BY DEF BoundsInv, KeptInv, Frames
<1>2. /\ ToSet(SubSeq(Frames, 1, 0)) = {}
      /\ ToSet(SubSeq(Frames, 1, 1)) = {"message_start"}
      /\ ToSet(SubSeq(Frames, 1, 2)) = {"message_start", "content_block_start"}
      /\ ToSet(SubSeq(Frames, 1, 3)) = {"message_start", "content_block_start", "message_delta"}
      /\ SubSeq(Frames, 1, 3) = Frames
  <2> DEFINE S == {"message_start", "content_block_start", "message_delta"}
  <2>1. /\ Frames \in Seq(S) /\ Len(Frames) = 3 /\ Frames[1] = "message_start"
        /\ Frames[2] = "content_block_start" /\ Frames[3] = "message_delta"
    BY DEF Frames
  <2> HIDE DEF S
  <2>0. \A T : \A q \in Seq(T) : \A n \in 0..Len(q) :
           /\ SubSeq(q, 1, n) \in Seq(T) /\ Len(SubSeq(q, 1, n)) = n
           /\ \A i \in 1..n : SubSeq(q, 1, n)[i] = q[i]
    OBVIOUS
  <2>2. ASSUME NEW n \in 0..3
        PROVE  ToSet(SubSeq(Frames, 1, n)) = {Frames[i] : i \in 1..n}
    <3>1. /\ SubSeq(Frames, 1, n) \in Seq(S) /\ Len(SubSeq(Frames, 1, n)) = n
          /\ \A i \in 1..n : SubSeq(Frames, 1, n)[i] = Frames[i]
      BY <2>0, <2>1
    <3>2. DOMAIN SubSeq(Frames, 1, n) = 1..n
      BY <3>1
    <3> QED
      BY <3>1, <3>2 DEF ToSet
  <2>3. 1..0 = {} /\ 1..1 = {1} /\ 1..2 = {1, 2} /\ 1..3 = {1, 2, 3}
    OBVIOUS
  <2>4. SubSeq(Frames, 1, 3) = Frames
    <3>1. /\ SubSeq(Frames, 1, 3) \in Seq(S) /\ Len(SubSeq(Frames, 1, 3)) = 3
          /\ \A i \in 1..3 : SubSeq(Frames, 1, 3)[i] = Frames[i]
      BY <2>0, <2>1
    <3> QED
      BY <2>1, <3>1
  <2>5. /\ {Frames[i] : i \in 1..0} = {} /\ {Frames[i] : i \in 1..1} = {Frames[1]}
        /\ {Frames[i] : i \in 1..2} = {Frames[1], Frames[2]}
        /\ {Frames[i] : i \in 1..3} = {Frames[1], Frames[2], Frames[3]}
    BY <2>3
  <2> QED
    BY <2>1, <2>2, <2>4, <2>5
<1>3. /\ Response(c).tools = IF "content_block_start" \in Readable(c) THEN {c} ELSE {}
      /\ Response(c).usage = IF "message_delta" \in Readable(c) THEN 2
                             ELSE IF "message_start" \in Readable(c) THEN 1 ELSE 0
  <2> DEFINE u == IF "message_delta" \in Readable(c) THEN 2
                  ELSE IF "message_start" \in Readable(c) THEN 1 ELSE 0
             t == IF "content_block_start" \in Readable(c) THEN {c} ELSE {}
  <2>1. Response(c) = [Request(c) EXCEPT !.type = "response", !.usage = u, !.tools = t]
    BY DEF Response
  <2> HIDE DEF u, t
  <2>2. Response(c).tools = t /\ Response(c).usage = u
    BY <2>1 DEF Request, Blank
  <2> QED
    BY <2>2 DEF u, t
<1>4. ASSUME kind[c] \in {"sse", "long"}
      PROVE  /\ Response(c).tools = IF sent[c] >= 2 THEN {c} ELSE {}
             /\ Response(c).usage = <<0, 1, 1, 2>>[sent[c] + 1]
  <2>1. Readable(c) = ToSet(SubSeq(Frames, 1, sent[c]))
    BY <1>1, <1>4 DEF Readable
  <2>2. CASE sent[c] = 0
    BY <1>2, <1>3, <2>1, <2>2
  <2>3. CASE sent[c] = 1
    BY <1>2, <1>3, <2>1, <2>3
  <2>4. CASE sent[c] = 2
    BY <1>2, <1>3, <2>1, <2>4
  <2>5. CASE sent[c] = 3
    BY <1>2, <1>3, <2>1, <2>5
  <2> QED
    BY <1>1, <2>2, <2>3, <2>4, <2>5
<1>5. ASSUME kind[c] = "json", sent[c] = Len(Frames)
      PROVE  Response(c).tools = {c} /\ Response(c).usage = 2
  <2>1. Readable(c) = {"message_start", "content_block_start", "message_delta"}
    BY <1>1, <1>2, <1>5 DEF Readable
  <2> QED
    BY <1>3, <2>1
<1> QED
  BY <1>4, <1>5

\* What is stored under the key of an exchange is what the exchange recorded.
LEMMA KeyRecorded ==
    ASSUME ToldInv, NEW c, NEW d \in 1..MaxDay, NEW e \in ToSet(stored[d]),
           Key(e) = <<"turn", c>>, IsOrdinary(e)
    PROVE  /\ kind[c] # "other" /\ pc[c] # "new"
           /\ e.turn = c /\ e.msg = None
           /\ \/ e.type = "request"
              \/ e.type = "response" /\ e = Response(c) /\ pc[c] \in {"ended", "closed"}
              \/ e.type = "error" /\ pc[c] = "closed"
<1>1. e.msg = None /\ e.turn = c
  <2>1. \A x : <<"msg", x>> # <<"turn", c>>
    OBVIOUS
  <2> QED
    BY <2>1 DEF Key
<1>2. Recorded(e)
  BY <1>1 DEF ToldInv, Told, IsResult, IsOrdinary
<1>3. /\ Request(c).type = "request" /\ Response(c).type = "response"
      /\ Error(c).type = "error"
  BY DEF Request, Response, Error, Blank
<1> QED
  BY <1>1, <1>2, <1>3 DEF Recorded

LEMMA CallsTell == CallsInv => TurnTellsExchange
<1> SUFFICES ASSUME StoredInv, EndsInv, BoundsInv, ToldInv, KeptInv,
                    NEW c \in Proxied, NEW d \in DaysOf(c), DaysOf(c) = {d}, c \notin lost
             PROVE  LET t == BuildTurns(stored[d])[<<"turn", c>>]
                    IN  /\ t.pending <=> pc[c] \in {"sent", "streaming"}
                        /\ ~t.pending /\ ~t.failed /\ ~truncated[c]
                           /\ kind[c] \in {"sse", "long"} =>
                              /\ t.tools = IF sent[c] >= 2 THEN {c} ELSE {}
                              /\ t.usage = <<0, 1, 1, 2>>[sent[c] + 1]
                        /\ /\ ~t.pending /\ ~t.failed /\ ~truncated[c]
                           /\ kind[c] = "json" /\ sent[c] = Len(Frames)
                           => t.tools = {c} /\ t.usage = 2
  BY DEF CallsInv, CaptureInv, TurnTellsExchange
<1> DEFINE k == <<"turn", c>>
           E == ToSet(stored[d])
           t == BuildTurns(stored[d])[k]
<1>1. d \in 1..MaxDay /\ \E e \in E : IsOrdinary(e) /\ Key(e) = k
  BY DEF DaysOf
<1>2. stored[d] \in Seq(Event)
  BY <1>1 DEF StoredInv
<1>3. Says(E, k, t)
  BY <1>1, <1>2, TurnsBuilt
<1> HIDE DEF t, E
<1>4. ASSUME NEW e \in E, Key(e) = k, IsOrdinary(e)
      PROVE  /\ kind[c] # "other" /\ pc[c] # "new"
             /\ \/ e.type = "request"
                \/ e.type = "response" /\ e = Response(c) /\ pc[c] \in {"ended", "closed"}
                \/ e.type = "error" /\ pc[c] = "closed"
  BY <1>1, <1>4, KeyRecorded DEF E
<1>5. kind[c] # "other" /\ pc[c] \in {"sent", "streaming", "ended", "closed"}
  BY <1>1, <1>4 DEF StoredInv
<1>6. t.pending <=> pc[c] \in {"sent", "streaming"}
  <2>1. ASSUME pc[c] \in {"sent", "streaming"} PROVE t.pending
    <3>1. ASSUME NEW e \in E, Key(e) = k PROVE e.type \notin {"response", "error"}
      BY <1>4, <2>1, <3>1 DEF IsOrdinary
    <3> QED
      BY <1>3, <3>1 DEF Says
  <2>2. ASSUME pc[c] \in {"ended", "closed"} PROVE ~t.pending
    <3>1. PICK e \in 1..MaxDay : EndsIn(c, e) # {}
      BY <1>5, <2>2 DEF EndsInv, EndsOf
    <3>2. PICK i \in DOMAIN stored[e] : /\ stored[e][i].type \in {"response", "error"}
                                        /\ stored[e][i].turn = c /\ stored[e][i].msg = None
      BY <3>1 DEF EndsIn
    <3>3. /\ stored[e][i] \in ToSet(stored[e]) /\ Key(stored[e][i]) = k
          /\ IsOrdinary(stored[e][i])
      BY <3>2 DEF Key, IsOrdinary, ToSet
    <3>4. e \in DaysOf(c)
      BY <3>3 DEF DaysOf
    <3>5. stored[e][i] \in E
      BY <3>3, <3>4 DEF E
    <3> QED
      BY <1>3, <3>2, <3>3, <3>5 DEF Says
  <2> QED
    BY <1>5, <2>1, <2>2
<1>7. ASSUME ~t.pending, ~t.failed
      PROVE  t.tools = Response(c).tools /\ t.usage = Response(c).usage
  <2>1. PICK r \in E : Key(r) = k /\ r.type \in {"response", "error"}
    BY <1>3, <1>7 DEF Says
  <2>2. r.type = "response"
    BY <1>3, <1>7, <2>1 DEF Says
  <2>3. ASSUME NEW e \in E, Key(e) = k, e.type = "response" PROVE e = Response(c)
    BY <1>4, <2>3 DEF IsOrdinary
  <2>4. r = Response(c)
    BY <2>1, <2>2, <2>3
  <2>5. \A x : x \in t.tools <=> x \in Response(c).tools
    BY <1>3, <2>1, <2>2, <2>3, <2>4 DEF Says
  <2>6. r \in Event /\ t \in TurnType
    <3>1. \A q \in Seq(Event) : ToSet(q) \subseteq Event
      BY DEF ToSet
    <3> QED
      BY <1>2, <1>3, <3>1 DEF Says, E
  <2>7. t.tools = Response(c).tools
    <3>1. t.tools \subseteq Id /\ Response(c).tools \subseteq Id
      BY <2>4, <2>6 DEF TurnType, Event
    <3> QED
      BY <2>5, <3>1
  <2>8. t.usage = Response(c).usage
    <3>1. CASE Sets(Response(c))
      BY <1>3, <2>1, <2>3, <2>4, <3>1 DEF Says, Sets
    <3>2. CASE ~Sets(Response(c))
      BY <1>3, <2>2, <2>3, <2>4, <3>2 DEF Says, Sets
    <3> QED
      BY <3>1, <3>2
  <2> QED
    BY <2>7, <2>8
<1>8. /\ ~t.pending /\ ~t.failed /\ ~truncated[c] /\ kind[c] \in {"sse", "long"} =>
            /\ t.tools = IF sent[c] >= 2 THEN {c} ELSE {}
            /\ t.usage = <<0, 1, 1, 2>>[sent[c] + 1]
      /\ /\ ~t.pending /\ ~t.failed /\ ~truncated[c]
         /\ kind[c] = "json" /\ sent[c] = Len(Frames)
         => t.tools = {c} /\ t.usage = 2
  BY <1>7, ResponseTells
<1> QED
  BY <1>6, <1>8 DEF t

\* The turn built for an exchange that kept to one day says of it what happened:
\* it is pending until the exchange ends, and then has the usage and the tool calls
\* of all the frames the client was sent, however the stream ended, unless the
\* capture left something out (captureReader and summarizeSSE of internal/proxy,
\* applyEvent of internal/query).
THEOREM TurnsTellExchanges == Spec => []TurnTellsExchange
<1>1. Init => CallsInv
  BY CallsInit
<1>2. CallsInv /\ [Next]_vars => CallsInv'
  BY CallsNext
<1>3. CallsInv => TurnTellsExchange
  BY CallsTell
<1> QED
  BY <1>1, <1>2, <1>3, PTL DEF Spec

-----------------------------------------------------------------------------
(* Appending again what is stored.                                         *)

\* Of the events of turn k the last that sets its usage sets it to u; none sets it.
UsageLast(q, k, u) ==
    \E i \in 1..Len(q) :
        /\ Key(q[i]) = k /\ Sets(q[i]) /\ q[i].usage = u
        /\ \A j \in 1..Len(q) : Key(q[j]) = k /\ Sets(q[j]) => j <= i

UsageSilent(q, k) == \A j \in 1..Len(q) : ~(Key(q[j]) = k /\ Sets(q[j]))

LEMMA UsageBuilt ==
    ASSUME NEW s \in Seq(Event), NEW k, NEW u, UsageLast(s, k, u)
    PROVE  k \in DOMAIN BuildTurns(s) /\ BuildTurns(s)[k].usage = u
<1>1. PICK i \in 1..Len(s) :
         /\ Key(s[i]) = k /\ Sets(s[i]) /\ s[i].usage = u
         /\ \A j \in 1..Len(s) : Key(s[j]) = k /\ Sets(s[j]) => j <= i
  BY DEF UsageLast
<1>2. s[i] \in ToSet(s) /\ IsOrdinary(s[i])
  BY <1>1 DEF ToSet, Sets, IsOrdinary
<1>3. k \in DOMAIN BuildTurns(s)
  BY <1>1, <1>2, TurnsBuilt
<1> QED
  BY <1>1, <1>3, TurnsBuilt

\* What is said last is said last of a longer sequence.
LEMMA UsageConcat ==
    ASSUME NEW q \in Seq(Event), NEW r \in Seq(Event), NEW k, NEW u
    PROVE  /\ UsageLast(r, k, u) => UsageLast(q \o r, k, u)
           /\ UsageLast(q, k, u) /\ UsageSilent(r, k) => UsageLast(q \o r, k, u)
<1> DEFINE m == Len(q)
           n == Len(r)
           all == q \o r
<1>1. /\ m \in Nat /\ n \in Nat /\ Len(all) = m + n
      /\ \A i \in 1..m : all[i] = q[i]
      /\ \A i \in 1..n : all[m + i] = r[i]
      /\ \A i \in 1..m + n : i \in 1..m \/ (i - m \in 1..n /\ m + (i - m) = i)
  OBVIOUS
<1> HIDE DEF m, n, all
<1>2. ASSUME UsageLast(r, k, u) PROVE UsageLast(all, k, u)
  <2>1. PICK i \in 1..n : /\ Key(r[i]) = k /\ Sets(r[i]) /\ r[i].usage = u
                          /\ \A j \in 1..n : Key(r[j]) = k /\ Sets(r[j]) => j <= i
    BY <1>2 DEF UsageLast, n
  <2>2. ASSUME NEW j \in 1..m + n, Key(all[j]) = k, Sets(all[j]) PROVE j <= m + i
    <3>1. CASE j \in 1..m
      BY <1>1, <3>1
    <3>2. CASE j - m \in 1..n /\ m + (j - m) = j
      <4>1. all[j] = r[j - m]
        BY <1>1, <3>2
      <4>2. j - m <= i
        BY <2>1, <2>2, <3>2, <4>1
      <4> QED
        BY <1>1, <4>2
    <3> QED
      BY <1>1, <3>1, <3>2
  <2>3. m + i \in 1..m + n /\ all[m + i] = r[i]
    BY <1>1
  <2> QED
    BY <1>1, <2>1, <2>2, <2>3 DEF UsageLast
<1>3. ASSUME UsageLast(q, k, u), UsageSilent(r, k) PROVE UsageLast(all, k, u)
  <2>1. PICK i \in 1..m : /\ Key(q[i]) = k /\ Sets(q[i]) /\ q[i].usage = u
                          /\ \A j \in 1..m : Key(q[j]) = k /\ Sets(q[j]) => j <= i
    BY <1>3 DEF UsageLast, m
  <2>2. ASSUME NEW j \in 1..m + n, Key(all[j]) = k, Sets(all[j]) PROVE j <= i
    <3>1. CASE j \in 1..m
      BY <1>1, <2>1, <2>2, <3>1
    <3>2. CASE j - m \in 1..n /\ m + (j - m) = j
      <4>1. all[j] = r[j - m]
        BY <1>1, <3>2
      <4> QED
        BY <1>3, <2>2, <3>2, <4>1 DEF UsageSilent, n
    <3> QED
      BY <1>1, <3>1, <3>2
  <2>3. i \in 1..m + n /\ all[i] = q[i]
    BY <1>1
  <2> QED
    BY <1>1, <2>1, <2>2, <2>3 DEF UsageLast
<1> QED
  BY <1>2, <1>3 DEF all

\* Of a transcript the two lines that measure set the usage, the third does not.
LEMMA LineUsage ==
    ASSUME NEW c \in Tailed
    PROVE  /\ UsageLast(Lines(c)[1], <<"msg", c>>, 1) /\ UsageLast(Lines(c)[2], <<"msg", c>>, 2)
           /\ UsageSilent(Lines(c)[3], <<"msg", c>>) /\ UsageSilent(<<>>, <<"msg", c>>)
           /\ Len(Lines(c)[1]) = 2 /\ Len(Lines(c)[2]) = 2 /\ Len(Lines(c)[3]) = 1
<1>1. /\ Lines(c)[1] = <<Measure(c, 1, {}), Content(c, 1)>>
      /\ Lines(c)[2] = <<Measure(c, 2, {c}), Content(c, 2)>>
      /\ Lines(c)[3] = <<Result(c, 3)>>
  BY DEF Lines
<1>2. /\ \A u, t : Key(Measure(c, u, t)) = <<"msg", c>> /\ Measure(c, u, t).usage = u
      /\ \A u, t : u # 0 => Sets(Measure(c, u, t))
      /\ \A b : ~Sets(Content(c, b)) /\ ~Sets(Result(c, b))
  BY CaptureAssumption DEF Measure, Content, Result, Blank, Key, Sets
<1>3. ASSUME NEW a, NEW b, NEW u, Key(a) = <<"msg", c>>, Sets(a), a.usage = u, ~Sets(b)
      PROVE  UsageLast(<<a, b>>, <<"msg", c>>, u)
  <2>1. Len(<<a, b>>) = 2 /\ <<a, b>>[1] = a /\ <<a, b>>[2] = b
    OBVIOUS
  <2>2. \A j \in 1..2 : j = 1 \/ j = 2
    OBVIOUS
  <2> DEFINE q == <<a, b>>
  <2> HIDE DEF q
  <2>3. /\ 1 \in 1..Len(q) /\ Key(q[1]) = <<"msg", c>> /\ Sets(q[1]) /\ q[1].usage = u
        /\ \A j \in 1..Len(q) : Key(q[j]) = <<"msg", c>> /\ Sets(q[j]) => j <= 1
    BY <1>3, <2>1, <2>2 DEF q
  <2>4. UsageLast(q, <<"msg", c>>, u)
    BY <2>3 DEF UsageLast
  <2> QED
    BY <2>4 DEF q
<1>4. UsageSilent(<<Result(c, 3)>>, <<"msg", c>>) /\ UsageSilent(<<>>, <<"msg", c>>)
  BY <1>2 DEF UsageSilent
<1>5. UsageLast(<<Measure(c, 1, {}), Content(c, 1)>>, <<"msg", c>>, 1)
  BY <1>2, <1>3
<1>6. UsageLast(<<Measure(c, 2, {c}), Content(c, 2)>>, <<"msg", c>>, 2)
  BY <1>2, <1>3
<1>7. /\ \A a, b : Len(<<a, b>>) = 2
      /\ \A a : Len(<<a>>) = 1
  OBVIOUS
<1> QED
  BY <1>1, <1>4, <1>5, <1>6, <1>7

\* What a stream s of day d holds of a transcript whose lines have the days w,
\* when the first t are appended and some event of the first r is.
Kept(c, d, s, w, t, r) ==
    /\ \A ev \in ToSet(s) : ev.msg = c \/ (IsResult(ev) /\ ev.answers = c) =>
          \E n \in 1..r : w[n] = d /\ ev \in ToSet(Lines(c)[n])
    /\ \A n \in 1..t : w[n] = d => ToSet(Lines(c)[n]) \subseteq ToSet(s)
    /\ \A ev \in ToSet(s) : c \in ev.tools => ev.msg = c
    /\ \A m \in {1, 2} :
          /\ m <= t /\ w[m] = d
          /\ \A n \in {1, 2} : m < n /\ n <= r => w[n] # d
          => UsageLast(s, <<"msg", c>>, m)

\* No event of another call is about c.
Concerns(ev, c) == ev.msg = c \/ (IsResult(ev) /\ ev.answers = c) \/ c \in ev.tools

LEMMA KeptGrows ==
    ASSUME NEW c, c # None, NEW d, NEW s \in Seq(Event), NEW evs \in Seq(Event), NEW w, NEW v,
           NEW t \in Nat, NEW u \in 0..t, NEW r \in Nat, t <= r, Kept(c, d, s, w, t, r),
           \A n \in 1..r : v[n] = w[n], \A x \in ToSet(evs) : ~Concerns(x, c)
    PROVE  Kept(c, d, s \o evs, v, u, r)
<1> DEFINE q == s \o evs
<1>1. ToSet(q) = ToSet(s) \cup ToSet(evs)
  BY ConcatSet
<1>2. UsageSilent(evs, <<"msg", c>>)
  <2>1. ASSUME NEW j \in 1..Len(evs) PROVE Key(evs[j]) # <<"msg", c>>
    <3>1. evs[j] \in ToSet(evs)
      BY DEF ToSet
    <3> QED
      BY <3>1 DEF Concerns, Key
  <2> QED
    BY <2>1 DEF UsageSilent
<1>3. ASSUME NEW m \in {1, 2}, m <= u, v[m] = d,
             \A n \in {1, 2} : m < n /\ n <= r => v[n] # d
      PROVE  UsageLast(q, <<"msg", c>>, m)
  <2>1. m <= t /\ w[m] = d
    BY <1>3
  <2>2. \A n \in {1, 2} : m < n /\ n <= r => w[n] # d
    BY <1>3
  <2>3. UsageLast(s, <<"msg", c>>, m)
    BY <2>1, <2>2 DEF Kept
  <2> QED
    BY <1>2, <2>3, UsageConcat
<1> HIDE DEF q
<1>4. \A ev \in ToSet(q) : ev.msg = c \/ (IsResult(ev) /\ ev.answers = c) =>
         \E n \in 1..r : v[n] = d /\ ev \in ToSet(Lines(c)[n])
  BY <1>1 DEF Kept, Concerns
<1>5. \A n \in 1..u : v[n] = d => ToSet(Lines(c)[n]) \subseteq ToSet(q)
  <2> SUFFICES ASSUME NEW n \in 1..u, v[n] = d PROVE ToSet(Lines(c)[n]) \subseteq ToSet(q)
    OBVIOUS
  <2>1. n \in 1..t /\ w[n] = d
    OBVIOUS
  <2>2. ToSet(Lines(c)[n]) \subseteq ToSet(s)
    BY <2>1 DEF Kept
  <2> QED
    BY <1>1, <2>2
<1>6. \A ev \in ToSet(q) : c \in ev.tools => ev.msg = c
  BY <1>1 DEF Kept, Concerns
<1>7. Kept(c, d, q, v, u, r)
  BY <1>3, <1>4, <1>5, <1>6 DEF Kept
<1> QED
  BY <1>7 DEF q

LEMMA KeptLine ==
    ASSUME NEW c \in Tailed, NEW d, NEW s \in Seq(Event), NEW w, NEW t \in 0..2, NEW r \in 0..3,
           t <= r, Kept(c, d, s, w, t, r), NEW n \in 1..2, n <= Len(Lines(c)[t + 1])
    PROVE  Kept(c, d, IF w[t + 1] = d THEN s \o SubSeq(Lines(c)[t + 1], 1, n) ELSE s, w,
                IF n < Len(Lines(c)[t + 1]) THEN t ELSE t + 1,
                IF t + 1 > r THEN t + 1 ELSE r)
<1> DEFINE line == Lines(c)[t + 1]
           evs == SubSeq(line, 1, n)
           u == IF n < Len(line) THEN t ELSE t + 1
           z == IF t + 1 > r THEN t + 1 ELSE r
           k == <<"msg", c>>
<1>1. /\ t + 1 \in 1..3 /\ u \in {t, t + 1} /\ z \in Nat /\ r <= z /\ t + 1 <= z
      /\ n < Len(line) => u = t
  OBVIOUS
<1>2. c # None /\ line \in Seq(Event)
  BY <1>1, LineEvents, CaptureAssumption
<1>3. /\ evs \in Seq(Event) /\ ToSet(evs) \subseteq ToSet(line)
      /\ u = t + 1 => evs = line
  <2>1. \A q \in Seq(Event) : \A m \in 1..Len(q) :
           /\ SubSeq(q, 1, m) \in Seq(Event) /\ Len(SubSeq(q, 1, m)) = m
           /\ \A i \in 1..m : SubSeq(q, 1, m)[i] = q[i]
    OBVIOUS
  <2>2. n \in 1..Len(line) /\ Len(line) \in Nat
    BY <1>2
  <2>3. u = t + 1 => n = Len(line)
    BY <2>2
  <2> HIDE DEF line, u
  <2>4. evs \in Seq(Event) /\ Len(evs) = n /\ \A i \in 1..n : evs[i] = line[i]
    BY <1>2, <2>1, <2>2
  <2> HIDE DEF evs
  <2>5. DOMAIN evs = 1..n /\ DOMAIN line = 1..Len(line)
    BY <1>2, <2>4
  <2>6. ToSet(evs) \subseteq ToSet(line)
    BY <2>2, <2>4, <2>5 DEF ToSet
  <2>7. n = Len(line) => evs = line
    BY <1>2, <2>4
  <2> QED
    BY <2>3, <2>4, <2>6, <2>7
<1> HIDE DEF line, evs, u, z
<1>4. /\ \A m \in 1..t : m \in Nat
      /\ \A m \in 1..u : m \in 1..t \/ (m = t + 1 /\ u = t + 1)
      /\ \A m \in 1..r : m \in 1..z
      /\ t + 1 \in 1..z
  BY <1>1
<1>5. CASE w[t + 1] # d
  <2>1. \A ev \in ToSet(s) : ev.msg = c \/ (IsResult(ev) /\ ev.answers = c) =>
           \E m \in 1..z : w[m] = d /\ ev \in ToSet(Lines(c)[m])
    BY <1>4 DEF Kept
  <2>2. \A m \in 1..u : w[m] = d => ToSet(Lines(c)[m]) \subseteq ToSet(s)
    <3> SUFFICES ASSUME NEW m \in 1..u, w[m] = d PROVE ToSet(Lines(c)[m]) \subseteq ToSet(s)
      OBVIOUS
    <3>1. m \in 1..t
      BY <1>4, <1>5
    <3> QED
      BY <3>1 DEF Kept
  <2>3. ASSUME NEW m \in {1, 2}, m <= u, w[m] = d,
               \A i \in {1, 2} : m < i /\ i <= z => w[i] # d
        PROVE  UsageLast(s, k, m)
    <3>1. m <= t
      BY <1>1, <1>5, <2>3
    <3>2. \A i \in {1, 2} : m < i /\ i <= r => w[i] # d
      BY <1>1, <2>3
    <3> QED
      BY <2>3, <3>1, <3>2 DEF Kept
  <2>4. Kept(c, d, s, w, u, z)
    BY <2>1, <2>2, <2>3 DEF Kept
  <2> QED
    BY <1>5, <2>4 DEF u, z, line
<1>6. CASE w[t + 1] = d
  <2> DEFINE q == s \o evs
  <2>1. ToSet(q) = ToSet(s) \cup ToSet(evs)
    BY <1>3, ConcatSet
  <2>2. \A ev \in ToSet(q) : ev.msg = c \/ (IsResult(ev) /\ ev.answers = c) =>
           \E m \in 1..z : w[m] = d /\ ev \in ToSet(Lines(c)[m])
    <3>1. ASSUME NEW ev \in ToSet(evs)
          PROVE  \E m \in 1..z : w[m] = d /\ ev \in ToSet(Lines(c)[m])
      BY <1>3, <1>4, <1>6 DEF line
    <3>2. ASSUME NEW ev \in ToSet(s), ev.msg = c \/ (IsResult(ev) /\ ev.answers = c)
          PROVE  \E m \in 1..z : w[m] = d /\ ev \in ToSet(Lines(c)[m])
      BY <1>4, <3>2 DEF Kept
    <3> QED
      BY <2>1, <3>1, <3>2
  <2>3. \A m \in 1..u : w[m] = d => ToSet(Lines(c)[m]) \subseteq ToSet(q)
    <3> SUFFICES ASSUME NEW m \in 1..u, w[m] = d PROVE ToSet(Lines(c)[m]) \subseteq ToSet(q)
      OBVIOUS
    <3>1. CASE m \in 1..t
      <4>1. ToSet(Lines(c)[m]) \subseteq ToSet(s)
        BY <3>1 DEF Kept
      <4> QED
        BY <2>1, <4>1
    <3>2. CASE m = t + 1 /\ u = t + 1
      BY <1>3, <2>1, <3>2 DEF line
    <3> QED
      BY <1>4, <3>1, <3>2
  <2>4. \A ev \in ToSet(q) : c \in ev.tools => ev.msg = c
    <3>1. ASSUME NEW ev \in ToSet(line), c \in ev.tools PROVE ev.msg = c
      BY <1>1, <3>1, LineTells DEF line
    <3> QED
      BY <1>3, <2>1, <3>1 DEF Kept
  <2>5. ASSUME NEW m \in {1, 2}, m <= u, w[m] = d,
               \A i \in {1, 2} : m < i /\ i <= z => w[i] # d
        PROVE  UsageLast(q, k, m)
    <3>1. CASE m <= t
      <4>1. t + 1 = 3
        BY <1>1, <1>6, <2>5, <3>1
      <4>2. UsageSilent(evs, k)
        <5>1. UsageSilent(line, k) /\ Len(line) = 1
          BY <4>1, LineUsage DEF line
        <5>2. u = t + 1
          BY <5>1 DEF u
        <5> QED
          BY <1>3, <5>1, <5>2
      <4>3. \A i \in {1, 2} : m < i /\ i <= r => w[i] # d
        BY <1>1, <2>5
      <4>4. UsageLast(s, k, m)
        BY <2>5, <3>1, <4>3 DEF Kept
      <4> QED
        BY <1>3, <4>2, <4>4, UsageConcat
    <3>2. CASE m = t + 1 /\ u = t + 1
      <4>1. UsageLast(evs, k, m)
        BY <1>3, <3>2, LineUsage DEF line
      <4> QED
        BY <1>3, <4>1, UsageConcat
    <3>3. m <= t \/ (m = t + 1 /\ u = t + 1)
      BY <1>1, <2>5
    <3> QED
      BY <3>1, <3>2, <3>3
  <2> HIDE DEF q
  <2>6. Kept(c, d, q, w, u, z)
    BY <2>2, <2>3, <2>4, <2>5 DEF Kept
  <2> QED
    BY <1>6, <2>6 DEF u, z, line, q, evs
<1> QED
  BY <1>5, <1>6

LinesInv ==
    \A c \in Tailed \ Proxied : \A d \in 1..MaxDay :
        Kept(c, d, stored[d], wrote[c], tail[c], reached[c])

\* What is known of a transcript in every state.
LEMMA LineBounds ==
    ASSUME StoredInv, BoundsInv, NEW c \in Tailed
    PROVE  /\ tail[c] \in Nat /\ reached[c] \in 0..3 /\ tail[c] <= reached[c]
           /\ Len(wrote[c]) \in 0..3 /\ reached[c] <= Len(wrote[c])
           /\ wrote[c] \in Seq(1..MaxDay)
<1>1. /\ tail[c] \in Nat /\ reached[c] \in Nat /\ wrote[c] \in Seq(1..MaxDay)
      /\ tail[c] <= reached[c] /\ reached[c] <= Len(wrote[c]) /\ Len(wrote[c]) <= 3
  BY DEF StoredInv, BoundsInv
<1>2. Len(wrote[c]) \in Nat
  BY <1>1
<1>3. \A t, r, n \in Nat : t <= r /\ r <= n /\ n <= 3 => r \in 0..3 /\ n \in 0..3
  OBVIOUS
<1>4. reached[c] \in 0..3 /\ Len(wrote[c]) \in 0..3
  BY <1>1, <1>2, <1>3
<1> QED
  BY <1>1, <1>4

\* Steps that store nothing of these transcripts and append no line of them.
LEMMA OthersKept ==
    ASSUME StoredInv, BoundsInv, LinesInv, NEW c \in Tailed \ Proxied, NEW d \in 1..MaxDay,
           \/ stored'[d] = stored[d]
           \/ \E evs \in Seq(Event) : /\ stored'[d] = stored[d] \o evs
                                      /\ \A x \in ToSet(evs) : ~Concerns(x, c),
           \A n \in 1..reached[c] : wrote'[c][n] = wrote[c][n],
           tail'[c] \in 0..tail[c], reached'[c] = reached[c]
    PROVE  Kept(c, d, stored[d], wrote[c], tail[c], reached[c])'
<1>1. /\ tail[c] \in Nat /\ reached[c] \in Nat /\ tail[c] <= reached[c]
      /\ stored[d] \in Seq(Event) /\ c # None
      /\ Kept(c, d, stored[d], wrote[c], tail[c], reached[c])
  <2>1. tail[c] \in Nat /\ reached[c] \in 0..3 /\ tail[c] <= reached[c]
    BY LineBounds
  <2>2. stored[d] \in Seq(Event) /\ c # None
    BY CaptureAssumption DEF StoredInv
  <2>3. Kept(c, d, stored[d], wrote[c], tail[c], reached[c])
    BY DEF LinesInv
  <2> QED
    BY <2>1, <2>2, <2>3
<1>2. PICK evs \in Seq(Event) : /\ stored'[d] = stored[d] \o evs
                                /\ \A x \in ToSet(evs) : ~Concerns(x, c)
  <2>1. CASE stored'[d] = stored[d]
    <3>1. <<>> \in Seq(Event) /\ ToSet(<<>>) = {} /\ stored[d] \o <<>> = stored[d]
      BY <1>1 DEF ToSet
    <3> QED
      BY <2>1, <3>1
  <2> QED
    BY <2>1
<1>3. PICK v : v = wrote'[c]
  OBVIOUS
<1>4. PICK u : u = tail'[c]
  OBVIOUS
<1>5. Kept(c, d, stored[d] \o evs, v, u, reached[c])
  <2>1. u \in 0..tail[c] /\ \A n \in 1..reached[c] : v[n] = wrote[c][n]
    BY <1>3, <1>4
  <2> QED
    BY <1>1, <1>2, <2>1, KeptGrows
<1>6. Kept(c, d, stored'[d], wrote'[c], tail'[c], reached'[c])
  BY <1>2, <1>3, <1>4, <1>5
<1> QED
  BY <1>6 DEF Kept, Lines, Measure, Content, Result, Blank

LEMMA LinesNext == CaptureInv /\ BoundsInv /\ LinesInv /\ [Next]_vars => LinesInv'
<1> SUFFICES ASSUME StoredInv, BoundsInv, LinesInv, [Next]_vars,
                    NEW c \in Tailed \ Proxied, NEW d \in 1..MaxDay
             PROVE  Kept(c, d, stored[d], wrote[c], tail[c], reached[c])'
  BY DEF CaptureInv, LinesInv
<1>0. /\ tail[c] \in Nat /\ reached[c] \in 0..3 /\ tail[c] <= reached[c]
      /\ Len(wrote[c]) \in 0..3 /\ reached[c] <= Len(wrote[c]) /\ stored[d] \in Seq(Event)
      /\ c # None /\ c \in Tailed /\ c \notin Proxied /\ wrote[c] \in Seq(1..MaxDay)
  BY LineBounds, CaptureAssumption DEF StoredInv
<1> DEFINE Goal == Kept(c, d, stored[d], wrote[c], tail[c], reached[c])'
<1> HIDE DEF Goal
<1>1. ASSUME NEW p \in Proxied, NEW ev \in {Request(p), Response(p), Error(p)}, Record(p, ev),
             UNCHANGED <<wrote, tailer>>
      PROVE  Goal
  <2>1. ~Concerns(ev, c)
    <3>1. /\ ev.msg = None /\ ev.type # "result" /\ ev.tools \subseteq {p}
      BY DEF Request, Response, Error, Blank
    <3> QED
      BY <1>0, <3>1 DEF Concerns, IsResult
  <2>2. \/ stored'[d] = stored[d]
        \/ \E evs \in Seq(Event) : /\ stored'[d] = stored[d] \o evs
                                   /\ \A x \in ToSet(evs) : ~Concerns(x, c)
    <3>1. ev \in Event /\ day \in 1..MaxDay
      BY ProxyEvents DEF StoredInv
    <3>2. /\ <<ev>> \in Seq(Event) /\ ToSet(<<ev>>) = {ev}
          /\ Append(stored[d], ev) = stored[d] \o <<ev>>
      <4>1. ToSet(<<ev>>) = {ev}
        BY DEF ToSet
      <4>2. \A T : \A q \in Seq(T) : \A x \in T : <<x>> \in Seq(T) /\ Append(q, x) = q \o <<x>>
        OBVIOUS
      <4> QED
        BY <1>0, <3>1, <4>1, <4>2
    <3>3. stored'[d] = stored[d] \/ stored'[d] = Append(stored[d], ev)
      BY <1>1, <3>1 DEF Record, StoredInv
    <3> QED
      BY <2>1, <3>2, <3>3
  <2>3. tail'[c] \in 0..tail[c] /\ reached'[c] = reached[c] /\ wrote'[c] = wrote[c]
    BY <1>0, <1>1 DEF tailer
  <2> QED
    BY <2>2, <2>3, OthersKept DEF Goal
<1>2. ASSUME UNCHANGED <<stored, wrote, tailer>> PROVE Goal
  BY <1>0, <1>2, OthersKept DEF Goal, tailer
<1>3. ASSUME NEW p \in Proxied, Exchange(p) PROVE Goal
  <2>1. CASE ServeHTTP(p)
    BY <1>1, <2>1 DEF ServeHTTP
  <2>2. CASE HandleError(p)
    BY <1>1, <2>2 DEF HandleError
  <2>3. CASE ReadEnds(p)
    BY <1>1, <2>3 DEF ReadEnds
  <2>4. CASE Close(p)
    BY <1>1, <1>2, <2>4 DEF Close
  <2>5. CASE ModifyResponse(p) \/ Read(p)
    BY <1>2, <2>5 DEF ModifyResponse, Read
  <2> QED
    BY <1>3, <2>1, <2>2, <2>3, <2>4, <2>5 DEF Exchange
<1>4. ASSUME Killed \/ Midnight \/ UNCHANGED vars PROVE Goal
  <2>1. CASE Killed
    BY <1>2, <2>1 DEF Killed
  <2>2. CASE Midnight
    BY <1>2, <2>2 DEF Midnight
  <2>3. CASE UNCHANGED vars
    BY <1>2, <2>3 DEF vars
  <2> QED
    BY <1>4, <2>1, <2>2, <2>3
<1>5. ASSUME NEW a \in Tailed, WriteLine(a) PROVE Goal
  <2>1. \A n \in 1..reached[c] : wrote'[c][n] = wrote[c][n]
    <3>1. day \in 1..MaxDay /\ wrote' = [wrote EXCEPT ![a] = Append(@, day)]
      BY <1>5 DEF WriteLine, StoredInv
    <3>2. wrote'[c] = wrote[c] \/ wrote'[c] = Append(wrote[c], day)
      BY <1>0, <3>1 DEF StoredInv
    <3>3. \A n \in 1..reached[c] : n \in 1..Len(wrote[c])
      BY <1>0
    <3>4. \A n \in 1..Len(wrote[c]) : Append(wrote[c], day)[n] = wrote[c][n]
      BY <1>0, <3>1
    <3> QED
      BY <3>2, <3>3, <3>4
  <2>2. UNCHANGED <<stored, tail, reached>>
    BY <1>5 DEF WriteLine, tailer
  <2> QED
    BY <1>0, <2>1, <2>2, OthersKept DEF Goal
<1>6. ASSUME NEW a \in Tailed, Replay(a) PROVE Goal
  <2>1. PICK n \in 0..tail[a] - 1 : tail' = [tail EXCEPT ![a] = n]
    BY <1>6 DEF Replay
  <2>2. tail'[c] \in 0..tail[c]
    BY <1>0, <2>1 DEF StoredInv
  <2>3. UNCHANGED <<stored, wrote, reached>>
    BY <1>6 DEF Replay
  <2> QED
    BY <1>0, <2>2, <2>3, OthersKept DEF Goal
<1>7. ASSUME NEW a \in Tailed, NEW n \in 1..2, AppendLine(a, n) PROVE Goal
  <2> DEFINE next == tail[a] + 1
             line == Lines(a)[next]
             evs == SubSeq(line, 1, n)
             f == wrote[a][next]
  <2>1. /\ next \in 1..3 /\ next <= Len(wrote[a]) /\ f \in 1..MaxDay
        /\ line \in Seq(Event) /\ n <= Len(line)
        /\ evs \in Seq(Event) /\ ToSet(evs) \subseteq ToSet(line)
        /\ stored' = [stored EXCEPT ![f] = @ \o evs]
    BY <1>7, LineAppended
  <2>2. /\ tail' = IF n < Len(line) THEN tail ELSE [tail EXCEPT ![a] = next]
        /\ reached' = [reached EXCEPT ![a] = IF next > reached[a] THEN next ELSE reached[a]]
        /\ wrote' = wrote
    BY <1>7 DEF AppendLine
  <2>3. stored'[d] = IF f = d THEN stored[d] \o evs ELSE stored[d]
    <3> HIDE DEF evs, f
    <3> QED
      BY <2>1 DEF StoredInv
  <2>4. CASE a = c
    <3>1. /\ tail'[c] = IF n < Len(line) THEN tail[c] ELSE tail[c] + 1
          /\ reached'[c] = IF tail[c] + 1 > reached[c] THEN tail[c] + 1 ELSE reached[c]
      <4> HIDE DEF line
      <4> QED
        BY <1>0, <2>2, <2>4 DEF StoredInv, BoundsInv
    <3>2. Kept(c, d, IF f = d THEN stored[d] \o evs ELSE stored[d], wrote[c],
               IF n < Len(line) THEN tail[c] ELSE tail[c] + 1,
               IF tail[c] + 1 > reached[c] THEN tail[c] + 1 ELSE reached[c])
      <4>1. tail[c] \in 0..2 /\ Kept(c, d, stored[d], wrote[c], tail[c], reached[c])
        <5>1. tail[c] \in Nat /\ tail[c] + 1 \in 1..3
          BY <1>0, <2>1, <2>4
        <5>2. Kept(c, d, stored[d], wrote[c], tail[c], reached[c])
          BY DEF LinesInv
        <5> QED
          BY <5>1, <5>2
      <4>2. n <= Len(Lines(c)[tail[c] + 1])
        BY <2>1, <2>4
      <4>3. Kept(c, d, IF wrote[c][tail[c] + 1] = d
                       THEN stored[d] \o SubSeq(Lines(c)[tail[c] + 1], 1, n) ELSE stored[d],
                 wrote[c], IF n < Len(Lines(c)[tail[c] + 1]) THEN tail[c] ELSE tail[c] + 1,
                 IF tail[c] + 1 > reached[c] THEN tail[c] + 1 ELSE reached[c])
        BY <1>0, <4>1, <4>2, KeptLine
      <4> QED
        BY <2>4, <4>3
    <3>3. Kept(c, d, stored'[d], wrote'[c], tail'[c], reached'[c])
      <4> HIDE DEF evs, line, f
      <4> QED
        BY <2>2, <2>3, <3>1, <3>2
    <3> QED
      BY <3>3 DEF Goal, Kept, Lines, Measure, Content, Result, Blank
  <2>5. CASE a # c
    <3>1. tail'[c] = tail[c] /\ reached'[c] = reached[c] /\ wrote'[c] = wrote[c]
      <4> HIDE DEF line, next
      <4> QED
        BY <1>0, <2>2, <2>5 DEF StoredInv, BoundsInv
    <3>2. \A x \in ToSet(evs) : ~Concerns(x, c)
      <4>1. ASSUME NEW x \in ToSet(line)
            PROVE  /\ x.msg \in {a, None} /\ x.tools \subseteq {a}
                   /\ x.type = "result" => x.answers = a
        BY <2>1, <4>1, LineTells
      <4> HIDE DEF evs, line
      <4> QED
        BY <1>0, <2>1, <2>5, <4>1 DEF Concerns, IsResult
    <3> HIDE DEF evs, line, f, next
    <3>3. \/ stored'[d] = stored[d]
          \/ \E q \in Seq(Event) : /\ stored'[d] = stored[d] \o q
                                   /\ \A x \in ToSet(q) : ~Concerns(x, c)
      BY <2>1, <2>3, <3>2
    <3>4. tail'[c] \in 0..tail[c]
      BY <1>0, <3>1
    <3> QED
      BY <3>1, <3>3, <3>4, OthersKept DEF Goal
  <2> QED
    BY <2>4, <2>5
<1>8. Goal
  <2>1. Next \/ UNCHANGED vars
    OBVIOUS
  <2>2. ASSUME NEW p \in Proxied, Exchange(p) PROVE Goal
    BY <1>3, <2>2
  <2>3. ASSUME NEW a \in Tailed, WriteLine(a) \/ (\E n \in 1..2 : AppendLine(a, n)) \/ Replay(a)
        PROVE  Goal
    BY <1>5, <1>6, <1>7, <2>3
  <2> QED
    BY <1>4, <2>1, <2>2, <2>3 DEF Next
<1> QED
  BY <1>8 DEF Goal

\* What Once holds of the lines that have a day.
LEMMA OnceTells ==
    ASSUME StoredInv, BoundsInv, NEW c \in Tailed, NEW d \in 1..MaxDay
    PROVE  /\ Once(c, d) \in Seq(Event)
           /\ \A e : e \in ToSet(Once(c, d)) <=>
                 \E n \in 1..tail[c] : wrote[c][n] = d /\ e \in ToSet(Lines(c)[n])
           /\ 2 <= tail[c] /\ wrote[c][2] = d => UsageLast(Once(c, d), <<"msg", c>>, 2)
           /\ 1 <= tail[c] /\ wrote[c][1] = d /\ ~(2 <= tail[c] /\ wrote[c][2] = d) =>
                 UsageLast(Once(c, d), <<"msg", c>>, 1)
<1> DEFINE line(n) == IF n <= tail[c] /\ wrote[c][n] = d THEN Lines(c)[n] ELSE <<>>
           k == <<"msg", c>>
<1>1. tail[c] \in 0..3
  <2>1. tail[c] \in Nat /\ reached[c] \in 0..3 /\ tail[c] <= reached[c]
    BY LineBounds
  <2> QED
    BY <2>1
<1>2. Once(c, d) = line(1) \o line(2) \o line(3)
  BY DEF Once
<1>3. \A n \in 1..3 : line(n) \in Seq(Event)
  <2>1. \A n \in 1..3 : Lines(c)[n] \in Seq(Event)
    BY LineEvents
  <2>2. <<>> \in Seq(Event)
    OBVIOUS
  <2> QED
    BY <2>1, <2>2
<1>4. ASSUME NEW e, NEW n \in 1..3
      PROVE  e \in ToSet(line(n)) <=>
                n \in 1..tail[c] /\ wrote[c][n] = d /\ e \in ToSet(Lines(c)[n])
  <2>1. ToSet(<<>>) = {}
    BY DEF ToSet
  <2> QED
    BY <1>1, <2>1
<1>5. /\ 2 <= tail[c] /\ wrote[c][2] = d => UsageLast(line(2), k, 2)
      /\ 1 <= tail[c] /\ wrote[c][1] = d => UsageLast(line(1), k, 1)
      /\ ~(2 <= tail[c] /\ wrote[c][2] = d) => UsageSilent(line(2), k)
      /\ UsageSilent(line(3), k)
  BY LineUsage
<1> HIDE DEF line
<1> DEFINE two == line(1) \o line(2)
<1>6. two \in Seq(Event) /\ ToSet(two) = ToSet(line(1)) \cup ToSet(line(2))
  BY <1>3, ConcatSet
<1>7. \A q, r \in Seq(Event) : ToSet(q \o r) = ToSet(q) \cup ToSet(r) /\ q \o r \in Seq(Event)
  BY ConcatSet
<1>8. /\ \A u : UsageLast(line(2), k, u) => UsageLast(two, k, u)
      /\ \A u : UsageLast(line(1), k, u) /\ UsageSilent(line(2), k) => UsageLast(two, k, u)
  BY <1>3, UsageConcat
<1> HIDE DEF two
<1>9. \A u : UsageLast(two, k, u) => UsageLast(two \o line(3), k, u)
  BY <1>3, <1>5, <1>6, UsageConcat
<1>10. Once(c, d) = two \o line(3)
  BY <1>2 DEF two
<1>11. ToSet(Once(c, d)) = ToSet(line(1)) \cup ToSet(line(2)) \cup ToSet(line(3))
  BY <1>3, <1>6, <1>7, <1>10
<1>12. \A e : e \in ToSet(Once(c, d)) <=> \E n \in 1..3 : e \in ToSet(line(n))
  <2>1. \A n : n \in 1..3 <=> n = 1 \/ n = 2 \/ n = 3
    OBVIOUS
  <2> QED
    BY <1>11, <2>1
<1>13. \A e : e \in ToSet(Once(c, d)) <=>
          \E n \in 1..tail[c] : wrote[c][n] = d /\ e \in ToSet(Lines(c)[n])
  <2>1. \A n : n \in 1..tail[c] => n \in 1..3
    BY <1>1
  <2> QED
    BY <1>4, <1>12, <2>1
<1>14. Once(c, d) \in Seq(Event)
  BY <1>3, <1>6, <1>7, <1>10
<1>15. 2 <= tail[c] /\ wrote[c][2] = d => UsageLast(Once(c, d), k, 2)
  BY <1>5, <1>8, <1>9, <1>10
<1>16. 1 <= tail[c] /\ wrote[c][1] = d /\ ~(2 <= tail[c] /\ wrote[c][2] = d) =>
          UsageLast(Once(c, d), k, 1)
  BY <1>5, <1>8, <1>9, <1>10
<1> QED
  BY <1>13, <1>14, <1>15, <1>16

LEMMA OnceEvents ==
    ASSUME StoredInv, BoundsInv, NEW c \in Tailed, NEW d \in 1..MaxDay,
           NEW e \in ToSet(Once(c, d))
    PROVE  /\ e.tools \subseteq {c} /\ (c \in e.tools => e.msg = c)
           /\ Names(e) => e.model = Served
           /\ IsResult(e) => e.answers = c
           /\ Sets(e) => \E n \in {1, 2} : n <= tail[c] /\ wrote[c][n] = d
<1>1. PICK n \in 1..tail[c] : wrote[c][n] = d /\ e \in ToSet(Lines(c)[n])
  BY OnceTells
<1>2. n \in 1..3 /\ n <= tail[c]
  <2>1. tail[c] \in Nat /\ reached[c] \in 0..3 /\ tail[c] <= reached[c]
    BY LineBounds
  <2> QED
    BY <2>1
<1>3. /\ e.tools \subseteq {c} /\ (c \in e.tools => e.msg = c)
      /\ e.type = "result" => e.answers = c
      /\ e.type = "response" => n \in 1..2
  BY <1>1, <1>2, LineTells
<1>4. e.type = "result" \/ (e.msg # None /\ e.model \in {None, Served})
  BY <1>1, <1>2, LineTells
<1> QED
  BY <1>1, <1>2, <1>3, <1>4 DEF Names, Sets, IsResult

\* A transcript whose tailer is where it has been once: its turn in the stream says
\* what its lines say.
LEMMA LinesHarmless == CaptureInv /\ BoundsInv /\ LinesInv => ReplayHarmless
<1> SUFFICES ASSUME StoredInv, BoundsInv, LinesInv, NEW c \in Tailed \ Proxied,
                    NEW d \in 1..MaxDay, tail[c] = reached[c],
                    <<"msg", c>> \in DOMAIN BuildTurns(Once(c, d))
             PROVE  Measured(BuildTurns(stored[d])[<<"msg", c>>])
                       = Measured(BuildTurns(Once(c, d))[<<"msg", c>>])
  BY DEF CaptureInv, ReplayHarmless
<1> DEFINE k == <<"msg", c>>
           E == ToSet(stored[d])
           O == ToSet(Once(c, d))
           t == BuildTurns(stored[d])[k]
           u == BuildTurns(Once(c, d))[k]
<1>0. /\ stored[d] \in Seq(Event) /\ Once(c, d) \in Seq(Event) /\ c # None /\ tail[c] \in 0..3
      /\ Kept(c, d, stored[d], wrote[c], tail[c], tail[c])
  <2>1. tail[c] \in Nat /\ reached[c] \in 0..3 /\ tail[c] <= reached[c]
    BY LineBounds
  <2>2. stored[d] \in Seq(Event) /\ c # None
    BY CaptureAssumption DEF StoredInv
  <2>3. Kept(c, d, stored[d], wrote[c], tail[c], reached[c])
    BY DEF LinesInv
  <2> QED
    BY <2>1, <2>2, <2>3, OnceTells
<1>1. \A e : e \in O <=> \E n \in 1..tail[c] : wrote[c][n] = d /\ e \in ToSet(Lines(c)[n])
  BY OnceTells
<1>2. \A n \in 1..tail[c] : n \in 1..3
  BY <1>0
<1> HIDE DEF E, O, t, u
<1>3. ASSUME NEW e \in O PROVE e \in E
  <2>1. PICK n \in 1..tail[c] : wrote[c][n] = d /\ e \in ToSet(Lines(c)[n])
    BY <1>1
  <2>2. ToSet(Lines(c)[n]) \subseteq E
    BY <1>0, <2>1 DEF Kept, E
  <2> QED
    BY <2>1, <2>2
<1>4. ASSUME NEW e \in E, e.msg = c \/ (IsResult(e) /\ e.answers = c) PROVE e \in O
  BY <1>0, <1>1, <1>4 DEF Kept, E
<1>5. ASSUME NEW e \in O
      PROVE  /\ e.tools \subseteq {c} /\ (c \in e.tools => e.msg = c)
             /\ Names(e) => e.model = Served
             /\ IsResult(e) => e.answers = c
             /\ Sets(e) => \E n \in {1, 2} : n <= tail[c] /\ wrote[c][n] = d
  BY OnceEvents DEF O
<1>6. \A e : Key(e) = k => e.msg = c
  BY <1>0 DEF Key
<1>7. \A e : e \in E /\ Key(e) = k <=> e \in O /\ Key(e) = k
  BY <1>3, <1>4, <1>6
<1>8. Makers(E, c) = Makers(O, c)
  <2>1. \A e : e \in E /\ e.type = "response" /\ c \in e.tools
               <=> e \in O /\ e.type = "response" /\ c \in e.tools
    BY <1>0, <1>3, <1>4 DEF Kept, E
  <2> QED
    BY <2>1 DEF Makers
<1>9. \A x : k \in Makers(E, x) \/ k \in Makers(O, x) => x = c
  <2>1. ASSUME NEW x, NEW e, e \in E \/ e \in O, Key(e) = k, x \in e.tools PROVE x = c
    BY <1>5, <1>7, <2>1
  <2> QED
    BY <2>1 DEF Makers
<1>10. k \in DOMAIN BuildTurns(Once(c, d)) /\ k \in DOMAIN BuildTurns(stored[d])
  <2>1. \E e \in O : IsOrdinary(e) /\ Key(e) = k
    BY <1>0, TurnsBuilt DEF O
  <2>2. \E e \in E : IsOrdinary(e) /\ Key(e) = k
    BY <1>3, <2>1
  <2> QED
    BY <1>0, <2>2, TurnsBuilt DEF E
<1>11. Says(E, k, t) /\ Says(O, k, u)
  BY <1>0, <1>10, TurnsBuilt DEF E, O, t, u
<1>12. t \in TurnType /\ u \in TurnType
  BY <1>11 DEF Says
<1>13. (t.pending <=> u.pending) /\ (t.failed <=> u.failed) /\ t.tools = u.tools
  <2>1. (t.pending <=> u.pending) /\ (t.failed <=> u.failed)
    BY <1>7, <1>11 DEF Says
  <2>2. \A x : x \in t.tools <=> x \in u.tools
    BY <1>7, <1>11 DEF Says
  <2> QED
    BY <1>12, <2>1, <2>2 DEF TurnType
<1>14. t.model = u.model
  BY <1>5, <1>7, <1>11 DEF Says
<1>15. ToSet(t.blobs) = ToSet(u.blobs)
  <2>1. ASSUME NEW b
        PROVE  (\E e \in E : Key(e) = k /\ e.type = "content" /\ e.blob = b /\ b # 0) <=>
                  \E e \in O : Key(e) = k /\ e.type = "content" /\ e.blob = b /\ b # 0
    BY <1>7
  <2> DEFINE Goes(S, e) == /\ Makers(S, e.answers) # {}
                           /\ k = CHOOSE o \in Makers(S, e.answers) : TRUE
  <2>2. ASSUME NEW e, IsResult(e)
        PROVE  e \in E /\ Goes(E, e) <=> e \in O /\ Goes(O, e)
    <3>1. Goes(E, e) => k \in Makers(E, e.answers)
      OBVIOUS
    <3>2. Goes(O, e) => k \in Makers(O, e.answers)
      OBVIOUS
    <3>3. Goes(E, e) \/ Goes(O, e) => e.answers = c
      BY <1>9, <3>1, <3>2
    <3>4. e.answers = c => (Goes(E, e) <=> Goes(O, e))
      BY <1>8
    <3> HIDE DEF Goes
    <3> QED
      BY <1>3, <1>4, <2>2, <3>3, <3>4
  <2>3. ASSUME NEW b
        PROVE  (\E e \in E : IsResult(e) /\ e.blob = b /\ b # 0 /\ Goes(E, e)) <=>
                  \E e \in O : IsResult(e) /\ e.blob = b /\ b # 0 /\ Goes(O, e)
    <3> HIDE DEF Goes
    <3> QED
      BY <2>2
  <2>4. \A b : b \in ToSet(t.blobs) <=>
           \/ \E e \in E : Key(e) = k /\ e.type = "content" /\ e.blob = b /\ b # 0
           \/ \E e \in E : IsResult(e) /\ e.blob = b /\ b # 0 /\ Goes(E, e)
    BY <1>11 DEF Says
  <2>5. \A b : b \in ToSet(u.blobs) <=>
           \/ \E e \in O : Key(e) = k /\ e.type = "content" /\ e.blob = b /\ b # 0
           \/ \E e \in O : IsResult(e) /\ e.blob = b /\ b # 0 /\ Goes(O, e)
    BY <1>11 DEF Says
  <2> HIDE DEF Goes
  <2>6. \A b : b \in ToSet(t.blobs) <=> b \in ToSet(u.blobs)
    BY <2>1, <2>3, <2>4, <2>5
  <2> QED
    BY <2>6
<1>16. t.usage = u.usage
  <2>1. CASE 2 <= tail[c] /\ wrote[c][2] = d
    <3>1. UsageLast(stored[d], k, 2)
      BY <1>0, <2>1 DEF Kept
    <3>2. UsageLast(Once(c, d), k, 2)
      BY <2>1, OnceTells
    <3> QED
      BY <1>0, <3>1, <3>2, UsageBuilt DEF t, u
  <2>2. CASE 1 <= tail[c] /\ wrote[c][1] = d /\ ~(2 <= tail[c] /\ wrote[c][2] = d)
    <3>1. UsageLast(stored[d], k, 1)
      BY <1>0, <2>2 DEF Kept
    <3>2. UsageLast(Once(c, d), k, 1)
      BY <2>2, OnceTells
    <3> QED
      BY <1>0, <3>1, <3>2, UsageBuilt DEF t, u
  <2>3. CASE ~ \E n \in {1, 2} : n <= tail[c] /\ wrote[c][n] = d
    <3>1. \A e \in O : ~Sets(e)
      BY <1>5, <2>3
    <3>2. t.usage = 0 /\ u.usage = 0
      BY <1>7, <1>11, <3>1 DEF Says
    <3> QED
      BY <3>2
  <2> QED
    BY <2>1, <2>2, <2>3
<1>17. Measured(t) = Measured(u)
  <2>1. t.pending = u.pending /\ t.failed = u.failed
    BY <1>12, <1>13 DEF TurnType
  <2> QED
    BY <1>12, <1>13, <1>14, <1>15, <1>16, <2>1 DEF Measured, TurnType
<1> QED
  BY <1>17 DEF t, u

LEMMA LinesInit == Init => LinesInv
<1> SUFFICES ASSUME Init, NEW c \in Tailed \ Proxied, NEW d \in 1..MaxDay
             PROVE  Kept(c, d, stored[d], wrote[c], tail[c], reached[c])
  BY DEF LinesInv
<1>1. stored[d] = <<>> /\ tail[c] = 0 /\ reached[c] = 0 /\ ToSet(<<>>) = {}
  BY DEF Init, ToSet
<1> QED
  BY <1>1 DEF Kept

\* A tailer that goes back and appends lines again, or stores the first events of a
\* line and comes back to it, harms no reader once it has caught up: the turn of a
\* call that only a transcript records says what its lines say appended once each
\* (Store.Append of internal/eventstore, applyEvent and attachResults of
\* internal/query).  In between, usage may be that of an earlier line.
THEOREM ReplayIsHarmless == Spec => []ReplayHarmless
<1>1. Init => CaptureInv /\ BoundsInv /\ LinesInv
  BY CaptureInit, BoundsInit, LinesInit
<1>2. CaptureInv /\ BoundsInv /\ LinesInv /\ [Next]_vars => CaptureInv' /\ BoundsInv' /\ LinesInv'
  BY CaptureNext, BoundsNext, LinesNext DEF CaptureInv
<1>3. CaptureInv /\ BoundsInv /\ LinesInv => ReplayHarmless
  BY LinesHarmless
<1> QED
  BY <1>1, <1>2, <1>3, PTL DEF Spec
=============================================================================
