------------------------------- MODULE Turns --------------------------------
(***************************************************************************)
(* How the events of one day become turns: BuildTurns of internal/query.   *)
(* Two sources, the proxy and a tailed transcript, may describe one call;  *)
(* events are matched by key, wherever they are in the stream.             *)
(*                                                                         *)
(* An event has a type, the ids it is matched by, and of what it carries   *)
(* one field for each way of merging: a set that is added to (tool calls), *)
(* a value the last observer sets (usage, with 0 for none), one the        *)
(* response may override (model), and a list (captured content).  What the *)
(* other fields of a turn hold is merged like one of these.                *)
(***************************************************************************)
EXTENDS Integers, Sequences, SequencesExt

CONSTANTS
    None,       \* no id, no model
    Id,         \* turn ids, message ids and ids of tool calls
    Model

EventType == {"request", "response", "content", "result", "error"}

Event == [type : EventType, turn : Id, msg : Id \cup {None},
          tools : SUBSET Id, usage : Nat, model : Model \cup {None},
          blob : Nat, answers : Id \cup {None}]

\* turnKey: the message id where there is one, the observer's own id otherwise.
Key(ev) == IF ev.msg # None THEN <<"msg", ev.msg>> ELSE <<"turn", ev.turn>>

NewTurn == [pending |-> TRUE, failed |-> FALSE, tools |-> {}, usage |-> 0,
            model |-> None, blobs |-> <<>>]

WithBlob(t, ev) == IF ev.blob = 0 THEN t ELSE [t EXCEPT !.blobs = Append(@, ev.blob)]

SetIfEmpty(old, new) == IF old = None THEN new ELSE old

\* Mutant: usage restated by a later record is added to what is there.
AddUsage(t, ev) ==
    CASE ev.type = "request" -> [t EXCEPT !.model = SetIfEmpty(@, ev.model)]
      [] ev.type = "response" ->
            [t EXCEPT !.pending = FALSE,
                      !.tools = @ \cup ev.tools,
                      !.usage = @ + ev.usage,
                      !.model = SetIfEmpty(ev.model, @)]
      [] ev.type = "content" -> WithBlob(t, ev)
      [] ev.type = "error" -> [t EXCEPT !.pending = FALSE, !.failed = TRUE]

\* applyEvent: merge, never overwrite with emptiness.
ApplyEvent(t, ev) ==
    CASE ev.type = "request" -> [t EXCEPT !.model = SetIfEmpty(@, ev.model)]
      [] ev.type = "response" ->
            [t EXCEPT !.pending = FALSE,
                      !.tools = @ \cup ev.tools,
                      !.usage = IF ev.usage = 0 THEN @ ELSE ev.usage,
                      !.model = SetIfEmpty(ev.model, @)]
      [] ev.type = "content" -> WithBlob(t, ev)
      [] ev.type = "error" -> [t EXCEPT !.pending = FALSE, !.failed = TRUE]

\* One event on the turns built so far.
Pair(turns, ev) ==
    LET k == Key(ev)
        t == IF k \in DOMAIN turns THEN turns[k] ELSE NewTurn
    IN  [j \in DOMAIN turns \cup {k} |-> IF j = k THEN ApplyEvent(t, ev) ELSE turns[j]]

\* The turns that made the call a result answers.
Owners(turns, ev) == {k \in DOMAIN turns : ev.answers \in turns[k].tools}

\* attachResults: a result goes to the turn that made the call, if it is here.
\* Of two such turns the code takes either, as a map is walked; no property here
\* tells which.
Attach(turns, ev) ==
    IF Owners(turns, ev) = {} THEN turns
    ELSE LET k == CHOOSE o \in Owners(turns, ev) : TRUE
         IN  [turns EXCEPT ![k] = WithBlob(@, ev)]

IsResult(ev) == ev.type = "result"
IsOrdinary(ev) == ev.type # "result"

\* Mutant: each event is merged where it stands in the stream.
InOnePass(events) ==
    FoldLeft(LAMBDA turns, ev : IF IsResult(ev) THEN Attach(turns, ev) ELSE Pair(turns, ev),
             <<>>, events)

\* The turns after the first n events, the results among them held back.
Merged(events) ==
    LET turns[n \in 0..Len(events)] ==
            IF n = 0 THEN <<>>
            ELSE IF IsResult(events[n]) THEN turns[n - 1]
            ELSE Pair(turns[n - 1], events[n])
    IN  turns

\* All turns, after the first n events have given their results to them.
Attached(events) ==
    LET turns[n \in 0..Len(events)] ==
            IF n = 0 THEN Merged(events)[Len(events)]
            ELSE IF IsResult(events[n]) THEN Attach(turns[n - 1], events[n])
            ELSE turns[n - 1]
    IN  turns

BuildTurns(events) == Attached(events)[Len(events)]

-----------------------------------------------------------------------------
\* What of a turn must not depend on the order its events came in.
Paired(t) == [pending |-> t.pending, failed |-> t.failed, tools |-> t.tools,
              model |-> t.model, blobs |-> ToSet(t.blobs)]

\* The content of results whose call turn k made and another turn too.
Disputed(events, turns, k) ==
    {ev.blob : ev \in {ev \in ToSet(events) : /\ IsResult(ev) /\ k \in Owners(turns, ev)
                                              /\ Owners(turns, ev) # {k}}}

PairedTurns(events) ==
    LET turns == BuildTurns(events)
    IN  [k \in DOMAIN turns |->
            [Paired(turns[k]) EXCEPT !.blobs = @ \ Disputed(events, turns, k)]]

\* The stream with its event i ahead of all others.
Brought(s, i) == <<s[i]>> \o RemoveAt(s, i)

\* What of a turn one more copy of its events must not change: a replayed batch
\* adds copies of content, and nothing else.
Measured(t) == [t EXCEPT !.blobs = ToSet(@)]
=============================================================================
