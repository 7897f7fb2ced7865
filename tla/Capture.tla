------------------------------ MODULE Capture -------------------------------
(***************************************************************************)
(* What the archive learns of API calls: the proxy of internal/proxy       *)
(* records a request and how it ended, the tailer appends what the agent   *)
(* wrote in its transcript, and readers build turns (module Turns) from    *)
(* the events of a day.                                                    *)
(*                                                                         *)
(* A proxied exchange is one handler of the HTTP server and the            *)
(* captureReader around the upstream body; exchanges run beside each other *)
(* and beside the tailer.  The client may hang up, the upstream may break  *)
(* off, an append may fail and the process may be killed at any point.     *)
(***************************************************************************)
EXTENDS Turns, FiniteSets

CONSTANTS
    Call,        \* API calls
    Proxied,     \* the calls that go through the proxy
    Tailed,      \* the calls an agent writes to a transcript
    Alias,       \* the model a request names
    Served,      \* the model the API answers with
    MaxCapture,  \* what the capture holds of an answer, in frames
    MaxDay,      \* bound: the last day
    MaxFaults,   \* bound: appends that fail and kills
    MaxReplays   \* bound: times the tailer goes back in a transcript

ASSUME CaptureAssumption ==
    /\ Proxied \subseteq Call /\ Tailed \subseteq Call
    /\ Id = Call /\ None \notin Call /\ Model = {Alias, Served}
    /\ MaxCapture \in Nat \ {0} /\ MaxDay \in Nat \ {0}
    /\ MaxFaults \in Nat /\ MaxReplays \in Nat

VARIABLES
    day,        \* the day it is
    stored,     \* day -> the events of that day, in the order of their appends
    kind,       \* call -> what the upstream answers with
    pc,         \* call -> where its proxied exchange is
    sent,       \* call -> how many frames the upstream has delivered
    buf,        \* call -> the frames the capture kept
    truncated,  \* call -> the capture has left something out
    wrote,      \* call -> the days its transcript lines were written on
    tail,       \* call -> the lines of it that are appended
    reached,    \* history: call -> the lines of which some event is appended
    lost,       \* history: exchanges whose record an append or a kill has lost
    faults, replays

exchange == <<kind, pc, sent, buf, truncated>>
tailer == <<tail, reached, replays>>
vars == <<day, stored, exchange, wrote, tailer, lost, faults>>

\* A streamed answer, one with a long tool call, a JSON document, one in an
\* encoding the proxy cannot decode, and traffic of another API.
Kind == {"sse", "long", "json", "encoded", "other"}

Frames == <<"message_start", "content_block_start", "message_delta">>

Size(c, frame) ==
    IF kind[c] = "long" /\ frame = "content_block_start" THEN MaxCapture ELSE 1

\* What the capture of a call holds: its frames are distinct, one of them long.
Held(c) == Len(buf[c]) + IF kind[c] = "long" /\ "content_block_start" \in ToSet(buf[c])
                         THEN MaxCapture - 1 ELSE 0

Blank(type, c) == [type |-> type, turn |-> c, msg |-> None, tools |-> {},
                   usage |-> 0, model |-> None, blob |-> 0, answers |-> None]

\* The proxy knows the request's model and its own id of the exchange.
Request(c) == [Blank("request", c) EXCEPT !.model = Alias]
Error(c) == [Blank("error", c) EXCEPT !.model = Alias]

\* summarizeSSE takes what it finds, summarizeResponse a whole document or none.
Readable(c) ==
    CASE kind[c] \in {"sse", "long"} -> ToSet(buf[c])
      [] kind[c] = "json" -> IF buf[c] = Frames THEN ToSet(Frames) ELSE {}
      [] OTHER -> {}

\* Mutant: the usage of the first frame is taken for the whole.
UsageAtStart(c) ==
    [Request(c) EXCEPT
        !.type = "response",
        !.usage = IF "message_start" \in Readable(c) THEN 1 ELSE 0,
        !.tools = IF "content_block_start" \in Readable(c) THEN {c} ELSE {}]

\* Usage comes with the first frame and is restated in the last.
Response(c) ==
    [Request(c) EXCEPT
        !.type = "response",
        !.usage = IF "message_delta" \in Readable(c) THEN 2
                  ELSE IF "message_start" \in Readable(c) THEN 1 ELSE 0,
        !.tools = IF "content_block_start" \in Readable(c) THEN {c} ELSE {}]

\* The lines of a transcript for a call: text, then a tool call, each a record
\* with the message id and the usage so far, then the result of the tool.
Measure(c, usage, tools) ==
    [Blank("response", c) EXCEPT !.msg = c, !.usage = usage, !.tools = tools,
                                 !.model = Served]
Content(c, n) == [Blank("content", c) EXCEPT !.msg = c, !.blob = n]
Result(c, n) == [Blank("result", c) EXCEPT !.blob = n, !.answers = c]

Lines(c) == << <<Measure(c, 1, {}), Content(c, 1)>>,
               <<Measure(c, 2, {c}), Content(c, 2)>>,
               <<Result(c, 3)>> >>

Init ==
    /\ day = 1
    /\ stored = [d \in 1..MaxDay |-> <<>>]
    /\ kind \in [Proxied -> Kind]
    /\ pc = [c \in Proxied |-> "new"]
    /\ sent = [c \in Proxied |-> 0]
    /\ buf = [c \in Proxied |-> <<>>]
    /\ truncated = [c \in Proxied |-> FALSE]
    /\ wrote = [c \in Tailed |-> <<>>]
    /\ tail = [c \in Tailed |-> 0] /\ reached = tail
    /\ lost = {} /\ faults = 0 /\ replays = 0

-----------------------------------------------------------------------------
\* The proxy.

At(c, from, to) == pc[c] = from /\ pc' = [pc EXCEPT ![c] = to]

\* append: a failure is logged and the exchange goes on.  Only Messages traffic
\* is recorded.
Record(c, ev) ==
    \/ /\ kind[c] # "other"
       /\ stored' = [stored EXCEPT ![day] = Append(@, ev)]
       /\ UNCHANGED <<lost, faults>>
    \/ /\ kind[c] # "other" /\ faults < MaxFaults
       /\ faults' = faults + 1 /\ lost' = lost \cup {c}
       /\ UNCHANGED stored
    \/ /\ kind[c] = "other"
       /\ UNCHANGED <<stored, lost, faults>>

ServeHTTP(c) ==
    /\ At(c, "new", "sent")
    /\ Record(c, Request(c))
    /\ UNCHANGED <<day, kind, sent, buf, truncated, wrote, tailer>>

\* handleError: no answer came, or the client went before it did.
HandleError(c) ==
    /\ At(c, "sent", "closed")
    /\ Record(c, Error(c))
    /\ UNCHANGED <<day, kind, sent, buf, truncated, wrote, tailer>>

\* modifyResponse puts the captureReader around the body.
ModifyResponse(c) ==
    /\ At(c, "sent", "streaming")
    /\ UNCHANGED <<day, stored, kind, sent, buf, truncated, wrote, tailer, lost,
                   faults>>

\* Mutant: the copy keeps a frame as long as there is any room.
ReadToTheBrim(c) ==
    /\ At(c, "streaming", "streaming") /\ sent[c] < Len(Frames)
    /\ LET frame == Frames[sent[c] + 1]
           fits == Held(c) < MaxCapture
       IN  /\ buf' = IF fits THEN [buf EXCEPT ![c] = Append(@, frame)] ELSE buf
           /\ truncated' = [truncated EXCEPT ![c] = @ \/ ~fits]
    /\ sent' = [sent EXCEPT ![c] = @ + 1]
    /\ UNCHANGED <<day, stored, kind, wrote, tailer, lost, faults>>

\* A Read that returns the next frame; the copy keeps it if it fits.
Read(c) ==
    /\ At(c, "streaming", "streaming") /\ sent[c] < Len(Frames)
    /\ LET frame == Frames[sent[c] + 1]
           fits == Held(c) + Size(c, frame) <= MaxCapture
       IN  /\ buf' = IF fits THEN [buf EXCEPT ![c] = Append(@, frame)] ELSE buf
           /\ truncated' = [truncated EXCEPT ![c] = @ \/ ~fits]
    /\ sent' = [sent EXCEPT ![c] = @ + 1]
    /\ UNCHANGED <<day, stored, kind, wrote, tailer, lost, faults>>

\* A Read that fails: the end of the answer, or the upstream broke off.
ReadEnds(c) ==
    /\ At(c, "streaming", "ended")
    /\ Record(c, Response(c))
    /\ UNCHANGED <<day, kind, sent, buf, truncated, wrote, tailer>>

\* Mutant: Close finishes whether or not the end of the stream has.
CloseAgain(c) ==
    /\ At(c, "ended", "closed") \/ At(c, "streaming", "closed")
    /\ Record(c, Response(c))
    /\ UNCHANGED <<day, kind, sent, buf, truncated, wrote, tailer>>

\* Close, after the end or because the client went; finish runs once.
Close(c) ==
    /\ \/ At(c, "ended", "closed") /\ UNCHANGED <<stored, lost, faults>>
       \/ At(c, "streaming", "closed") /\ Record(c, Response(c))
    /\ UNCHANGED <<day, kind, sent, buf, truncated, wrote, tailer>>

Exchange(c) == \/ ServeHTTP(c) \/ HandleError(c) \/ ModifyResponse(c)
               \/ Read(c) \/ ReadEnds(c) \/ Close(c)

\* The process is killed; what it was serving ends without a record.
Killed ==
    LET open == {c \in Proxied : pc[c] \in {"sent", "streaming", "ended"}}
    IN  /\ faults < MaxFaults /\ open # {}
        /\ faults' = faults + 1
        /\ pc' = [c \in Proxied |-> IF c \in open THEN "closed" ELSE pc[c]]
        /\ lost' = lost \cup {c \in open : pc[c] # "ended"}
        /\ UNCHANGED <<day, stored, kind, sent, buf, truncated, wrote, tailer>>

-----------------------------------------------------------------------------
\* The agent and the tailer (the module Ingest has the whole story).

WriteLine(c) ==
    /\ Len(wrote[c]) < Len(Lines(c))
    /\ wrote' = [wrote EXCEPT ![c] = Append(@, day)]
    /\ UNCHANGED <<day, stored, exchange, tailer, lost, faults>>

\* The first n events of the next line; the offset passes a line that is stored
\* whole, and the tailer comes back to one that is not.
AppendLine(c, n) ==
    LET next == tail[c] + 1
        line == Lines(c)[next]
        failed == n < Len(line)
    IN  /\ next <= Len(wrote[c]) /\ n <= Len(line)
        /\ failed => replays < MaxReplays
        /\ replays' = IF failed THEN replays + 1 ELSE replays
        /\ stored' = [stored EXCEPT ![wrote[c][next]] = @ \o SubSeq(line, 1, n)]
        /\ tail' = IF failed THEN tail ELSE [tail EXCEPT ![c] = next]
        /\ reached' = [reached EXCEPT ![c] = IF next > @ THEN next ELSE @]
        /\ UNCHANGED <<day, exchange, wrote, lost, faults>>

\* A restart finds a checkpoint from before some lines were appended.
Replay(c) ==
    /\ replays < MaxReplays
    /\ \E n \in 0..tail[c] - 1 : tail' = [tail EXCEPT ![c] = n]
    /\ replays' = replays + 1
    /\ UNCHANGED <<day, stored, exchange, wrote, reached, lost, faults>>

Midnight ==
    /\ day < MaxDay
    /\ day' = day + 1
    /\ UNCHANGED <<stored, exchange, wrote, tailer, lost, faults>>

Next == \/ \E c \in Proxied : Exchange(c)
        \/ Killed
        \/ \E c \in Tailed : WriteLine(c) \/ (\E n \in 1..2 : AppendLine(c, n)) \/ Replay(c)
        \/ Midnight

Spec == Init /\ [][Next]_vars

-----------------------------------------------------------------------------
\* Types; a capture never holds more than it may, and no line is stored that
\* was not written.
TypeOK ==
    /\ day \in 1..MaxDay
    /\ \A d \in 1..MaxDay : ToSet(stored[d]) \subseteq Event
    /\ kind \in [Proxied -> Kind]
    /\ pc \in [Proxied -> {"new", "sent", "streaming", "ended", "closed"}]
    /\ sent \in [Proxied -> 0..Len(Frames)]
    /\ truncated \in [Proxied -> BOOLEAN]
    /\ \A c \in Proxied :
          Held(c) <= MaxCapture /\ Len(buf[c]) + (IF truncated[c] THEN 1 ELSE 0) <= sent[c]
    /\ \A c \in Tailed : tail[c] <= reached[c] /\ reached[c] <= Len(wrote[c])
    /\ lost \subseteq Proxied /\ faults \in 0..MaxFaults /\ replays \in 0..MaxReplays

EndsIn(c, d) == {i \in DOMAIN stored[d] :
                    /\ stored[d][i].type \in {"response", "error"}
                    /\ stored[d][i].turn = c /\ stored[d][i].msg = None}

Ends(c) == UNION {{<<d, i>> : i \in EndsIn(c, d)} : d \in 1..MaxDay}

\* An exchange is recorded as ended at most once, and once it is over exactly
\* once, however the upstream, the client and the end of the stream meet
\* (captureReader: "invokes onEOF exactly once").
EndedOnce ==
    \A c \in Proxied :
        /\ Cardinality(Ends(c)) <= 1
        /\ pc[c] = "closed" /\ kind[c] # "other" /\ c \notin lost => Ends(c) # {}

DaysOf(c) ==
    {d \in 1..MaxDay :
        \E ev \in ToSet(stored[d]) : IsOrdinary(ev) /\ Key(ev) = <<"turn", c>>}

\* The turn of an exchange that kept to one day is pending while the exchange is
\* under way and not after; after, it has the usage and the tool calls the
\* client was sent, of a stream as far as it came, unless the capture left
\* something out.
TurnTellsExchange ==
    \A c \in Proxied : \A d \in DaysOf(c) :
        DaysOf(c) = {d} /\ c \notin lost =>
            LET t == BuildTurns(stored[d])[<<"turn", c>>]
            IN  /\ t.pending <=> pc[c] \in {"sent", "streaming"}
                /\ ~t.pending /\ ~t.failed /\ ~truncated[c] /\ kind[c] \in {"sse", "long"} =>
                      /\ t.tools = IF sent[c] >= 2 THEN {c} ELSE {}
                      /\ t.usage = <<0, 1, 1, 2>>[sent[c] + 1]
                /\ /\ ~t.pending /\ ~t.failed /\ ~truncated[c]
                   /\ kind[c] = "json" /\ sent[c] = Len(Frames)
                   => t.tools = {c} /\ t.usage = 2

\* Events are matched by key rather than adjacency: a day with any one of its
\* events ahead of all others has the same turns (BuildTurns: "Events may
\* arrive in any order within the stream").
OrderIndependent ==
    \A d \in 1..MaxDay :
        LET turns == PairedTurns(stored[d])
        IN  \A i \in 1..Len(stored[d]) :
                PairedTurns(Brought(stored[d], i)) = turns

\* What the lines of c that have day d hold, appended once.
Once(c, d) ==
    LET line(n) == IF n <= tail[c] /\ wrote[c][n] = d THEN Lines(c)[n] ELSE <<>>
    IN  line(1) \o line(2) \o line(3)

\* Once a tailer that went back has caught up, each turn measures what its lines
\* say, as if every line had been appended once (Store.Append of
\* internal/eventstore: "the same event appended twice is one event's worth of
\* truth").  Of a call that two sources record the result may go to either turn.
ReplayHarmless ==
    \A c \in Tailed \ Proxied : \A d \in 1..MaxDay :
        LET k == <<"msg", c>>
            turns == BuildTurns(Once(c, d))
        IN  tail[c] = reached[c] /\ k \in DOMAIN turns =>
                Measured(BuildTurns(stored[d])[k]) = Measured(turns[k])

\* The claim of BuildTurns that a call collapses into one turn no matter how
\* many sources recorded it.
OneTurnPerCall ==
    \A c \in Call :
        Cardinality({dk \in (1..MaxDay) \X ({"msg", "turn"} \X {c}) :
                        dk[2] \in DOMAIN BuildTurns(stored[dk[1]])}) <= 1

\* The claim of applyEvent that the model the API served wins over the alias.
ServedModelShown ==
    \A c \in Proxied : \A d \in DaysOf(c) :
        c \notin lost /\ pc[c] = "closed" /\ sent[c] = Len(Frames) =>
            BuildTurns(stored[d])[<<"turn", c>>].model = Served
=============================================================================
