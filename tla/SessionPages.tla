---------------------------- MODULE SessionPages ----------------------------
(***************************************************************************)
(* The session list of internal/compact, read a page at a time:            *)
(* SessionsPage (newest first, walking the days backwards and stopping as  *)
(* soon as a page is full), SessionsRanked (any other order, the whole     *)
(* window read for each page) and SessionDetail (one session).             *)
(*                                                                         *)
(* A reader follows the cursors from page to page while the compactor      *)
(* writes partitions, rebuilds the index, and today gains turns.  The      *)
(* index is five objects: one says which days it covers, another which     *)
(* days a session touched.  They are put one by one, read one by one, and  *)
(* what was read may be kept in memory after the next version is out.      *)
(*                                                                         *)
(* Time is counted in ticks, TicksPerMilli of them to the millisecond that *)
(* partitions and cursors keep, and DayLength of them to a day.            *)
(***************************************************************************)
EXTENDS Integers, FiniteSets, Sequences, SequencesExt, FiniteSetsExt

CONSTANTS
    Session,       \* session ids, positive numbers in the order of the ids
    Histories,     \* the sets of turns an archive may start with
    Arrivals,      \* the turns today may still gain
    Swept,         \* the sets of days the last sweep may have compacted
    Wishes,        \* what a reader may ask: an order, the ids let through
    TicksPerMilli,
    DayLength,
    LastDay,       \* the last day of the window, which is today
    From, To,      \* the window
    Limit,         \* how many sessions make a page
    MaxRows        \* bound: the rows after which a reader stops asking

TurnRecord == [id : Session, at : Nat, ms : Nat]

ASSUME PagesAssumption ==
    /\ Session \subseteq Nat \ {0}
    /\ TicksPerMilli \in Nat \ {0} /\ DayLength \in Nat \ {0}
    /\ DayLength % TicksPerMilli = 0
    /\ LastDay \in Nat /\ Limit \in Nat \ {0} /\ MaxRows \in Nat
    /\ From \in Nat /\ To \in Nat /\ From <= To /\ To \div DayLength = LastDay

\* An archive starts with what has begun by today; what arrives begins today.  A
\* detail is of one session.
ASSUME ArchiveAssumption ==
    /\ \A h \in Histories : /\ h \subseteq TurnRecord /\ IsFiniteSet(h)
                            /\ \A t \in h : t.at \div DayLength <= LastDay
    /\ Arrivals \subseteq {t \in TurnRecord : t.at \div DayLength = LastDay}
    /\ Swept \subseteq SUBSET (0..LastDay - 1)
    /\ Wishes \subseteq [order : {"recent", "turns", "detail"}, ids : SUBSET Session]
    /\ \A w \in Wishes : w.order = "detail" => \E s \in Session : w.ids = {s}

VARIABLES
    turns,      \* the turns the archive holds
    compacted,  \* the days with a partition
    versions,   \* the versions of the index put so far, or in part: their days
    wish,       \* the order and the filter asked for
    pc,         \* where the request being served is
    cursor,     \* the cursor of SessionsPage
    offset,     \* the cursor of SessionsRanked
    covers,     \* the days of the index the request loaded; none: no index
    known,      \* the days whose sessions that index has
    hot,        \* the days with raw events, as the request listed them
    day,        \* the next day to read
    plan,       \* SessionDetail: the days to read
    pending,    \* the turns read of sessions not yet complete
    complete,   \* the rows of this page and perhaps of a next one
    listed,     \* history: the rows of every page answered, in order
    arrived     \* history: the turns that came after the first request

archive == <<turns, compacted, versions, arrived>>
request == <<cursor, offset, covers, known, hot, day, plan, pending, complete, listed>>
vars == <<archive, request, wish, pc>>

Today == LastDay
Day(t) == t \div DayLength
Milli(t) == TicksPerMilli * (t \div TicksPerMilli)
FirstDay == Day(From)

\* A partition keeps a turn's start to the millisecond.
AsRead(t) == IF Day(t.at) \in compacted THEN [t EXCEPT !.at = Milli(t.at)] ELSE t

InWindow(t) == From <= t.at /\ t.at <= To

HasTurns(d) == \E t \in turns : Day(t.at) = d

OnDay(d) == {AsRead(t) : t \in {u \in turns : Day(u.at) = d}}

Ids(S) == {x.id : x \in S}
Of(ts, s) == {t \in ts : t.id = s}

\* summarize: what a row shows of the turns it was given.
Row(ts, s) ==
    [id |-> s, turns |-> Of(ts, s), known |-> known,
     ended |-> Max({t.at + TicksPerMilli * t.ms : t \in Of(ts, s)})]

\* The days on which the index of the request knows session s.
IndexedDays(s) == {d \in known : \E t \in turns : t.id = s /\ Day(t.at) = d}

\* Mutant: only the turns read so far place the start of a session.
OldestSeen(ts, s) == Min({Day(t.at) : t \in Of(ts, s)})

OldestDay(ts, s) == Min({Day(t.at) : t \in Of(ts, s)} \cup IndexedDays(s))

\* No cursor is the cursor with no id.
NoCursor == [ended |-> 0, id |-> 0]

CursorOf(r) == [ended |-> Milli(r.ended), id |-> r.id]

\* Mutants: the row the cursor names comes again; rows that end together with it
\* are skipped.
FromCursorOn(r) ==
    \/ cursor.id = 0
    \/ r.ended = cursor.ended /\ r.id <= cursor.id
    \/ r.ended < cursor.ended

BeforeCursorEnd(r) == cursor.id = 0 \/ r.ended < cursor.ended

After(r) ==
    \/ cursor.id = 0
    \/ r.ended = cursor.ended /\ r.id < cursor.id
    \/ r.ended < cursor.ended

Match(r) == r.id \in wish.ids

Newer(a, b) == a.ended > b.ended \/ (a.ended = b.ended /\ a.id > b.id)

Ranked(a, b) ==
    \/ Cardinality(a.turns) > Cardinality(b.turns)
    \/ Cardinality(a.turns) = Cardinality(b.turns) /\ Newer(a, b)

Rows(ts, ids) == {r \in {Row(ts, s) : s \in ids} : After(r) /\ Match(r)}

\* What sort.Slice may make of the rows: ties stay as they fall.
Sorted(rows, Before(_, _)) ==
    {q \in Bijection(1..Cardinality(rows), rows) :
        \A i, j \in DOMAIN q : i < j => ~Before(q[j], q[i])}

Init ==
    /\ turns \in Histories
    /\ \E days \in Swept : compacted = {d \in days : HasTurns(d)}
    /\ versions = {compacted}
    /\ wish \in Wishes
    /\ pc = "idle"
    /\ cursor = NoCursor /\ offset = 0
    /\ covers = {} /\ known = {} /\ hot = {} /\ day = LastDay /\ plan = {}
    /\ pending = {} /\ complete = {} /\ listed = <<>> /\ arrived = {}

-----------------------------------------------------------------------------
\* The archive, as the compactor and the recorders move it.

\* A sweep gives the closed days their partitions, oldest first, and rebuilds the
\* index at its end (the module Archive has the whole story).
Closed == {d \in 0..Today - 1 : HasTurns(d)}

CompactDay(d) ==
    /\ d \in Closed \ compacted
    /\ \A e \in Closed \ compacted : d <= e
    /\ compacted' = compacted \cup {d}
    /\ UNCHANGED <<turns, versions, arrived, request, wish, pc>>

RebuildIndex ==
    /\ Closed \subseteq compacted
    /\ versions' = versions \cup {compacted}
    /\ UNCHANGED <<turns, compacted, arrived, request, wish, pc>>

Arrive(t) ==
    /\ t \notin turns
    /\ turns' = turns \cup {t}
    /\ arrived' = arrived \cup {t}
    /\ UNCHANGED <<compacted, versions, request, wish, pc>>

-----------------------------------------------------------------------------
\* A request starts: SessionsPage walks backwards, the others forwards.

Start(order, first, at) == wish.order = order /\ day' = first /\ pc' = at

\* loadIndex gives the copy in memory, which another request may have read before
\* the index was rebuilt and kept after, or reads the objects one by one, of which
\* some may be of an older version than others.  So the days may be those of any
\* version, and the sessions those of any.
LoadIndex ==
    /\ pc = "idle" /\ Len(listed) <= MaxRows
    /\ \E days, sessions \in versions :
          covers' = days /\ known' = IF days = {} THEN {} ELSE sessions
    /\ hot' = {Day(t.at) : t \in turns}
    /\ plan' = {} /\ pending' = {} /\ complete' = {}
    /\ \/ Start("recent", LastDay, "scan")
       \/ Start("turns", FirstDay, "range")
       \/ Start("detail", FirstDay, "plan")
    /\ UNCHANGED <<archive, wish, cursor, offset, listed>>

\* Mutant: the scan goes one day beyond the window.
ScanDayBeyond ==
    LET read == pending \cup {t \in OnDay(day) : InWindow(t)}
    IN  /\ pc = "scan" /\ day >= FirstDay - 1
        /\ pending' = read
        /\ day' = day - 1
        /\ UNCHANGED <<archive, wish, pc, cursor, offset, covers, known, hot, plan, complete,
                       listed>>

\* SessionsPage reads a day; sessions no older day can add to are complete.
ScanDay ==
    LET read == pending \cup {t \in OnDay(day) : InWindow(t)}
        closed == {s \in Ids(read) : OldestDay(read, s) > day}
    IN  /\ pc = "scan" /\ day >= FirstDay
        /\ pending' = {t \in read : t.id \notin closed}
        /\ complete' = complete \cup Rows(read, closed)
        /\ day' = day - 1
        /\ pc' = IF Cardinality(complete') > Limit THEN "page" ELSE "scan"
        /\ UNCHANGED <<archive, wish, cursor, offset, covers, known, hot, plan, listed>>

\* There are no older days: whatever is pending is complete.
Exhaust ==
    /\ pc = "scan" /\ day < FirstDay
    /\ complete' = complete \cup Rows(pending, Ids(pending))
    /\ pc' = "page"
    /\ UNCHANGED <<archive, wish, cursor, offset, covers, known, hot, day, plan, pending,
                   listed>>

\* The page is cut; the cursor is its last row, if more rows are there.
AnswerPage ==
    LET more == Cardinality(complete) > Limit
    IN  /\ pc = "page"
        /\ \E rows \in Sorted(complete, Newer) :
              /\ listed' = listed \o SubSeq(rows, 1, IF more THEN Limit ELSE Len(rows))
              /\ cursor' = IF more THEN CursorOf(rows[Limit]) ELSE NoCursor
        /\ pc' = IF more THEN "idle" ELSE "done"
        /\ complete' = {} /\ pending' = {}
        /\ UNCHANGED <<archive, wish, offset, covers, known, hot, day, plan>>

\* Mutant: the write-ahead window is forgotten.
NotInIndex(d) == covers # {} /\ d \notin covers

KnownEmpty(d) == covers # {} /\ d \notin covers /\ d \notin hot

\* SessionsRange, for SessionsRanked: every day of the window is read.
RangeDay ==
    /\ pc = "range" /\ day <= LastDay
    /\ pending' = pending \cup
          IF KnownEmpty(day) THEN {} ELSE {t \in OnDay(day) : InWindow(t)}
    /\ day' = day + 1
    /\ UNCHANGED <<archive, wish, pc, cursor, offset, covers, known, hot, plan, complete,
                   listed>>

\* Mutant: the page ends before its last row.
PageEndEarly(n) == IF offset + Limit > n THEN n ELSE offset + Limit - 1

\* Where the page of a list of n rows ends, and the next one starts.
PageEnd(n) == IF offset + Limit > n THEN n ELSE offset + Limit

AnswerRanked ==
    LET matched == {r \in {Row(pending, s) : s \in Ids(pending)} : Match(r)}
        n == Cardinality(matched)
        end == PageEnd(n)
    IN  /\ pc = "range" /\ day > LastDay
        /\ IF offset < n
           THEN \E rows \in Sorted(matched, Ranked) :
                   /\ listed' = listed \o SubSeq(rows, offset + 1, end)
                   /\ offset' = end
                   /\ pc' = IF end < n THEN "idle" ELSE "done"
           ELSE pc' = "done" /\ UNCHANGED <<listed, offset>>
        /\ pending' = {}
        /\ UNCHANGED <<archive, wish, cursor, covers, known, hot, day, plan, complete>>

\* daysHolding: the index rules out only days that it covers.
Holding(d) ==
    \/ covers = {}
    \/ d \notin compacted
    \/ d \notin covers
    \/ \E s \in wish.ids : d \in IndexedDays(s)

PlanDay ==
    /\ pc = "plan"
    /\ IF day <= LastDay
       THEN /\ plan' = IF Holding(day) THEN plan \cup {day} ELSE plan
            /\ day' = day + 1
            /\ pc' = pc
       ELSE pc' = "detail" /\ UNCHANGED <<plan, day>>
    /\ UNCHANGED <<archive, wish, cursor, offset, covers, known, hot, pending, complete,
                   listed>>

\* SessionDetail reads the days it planned, oldest first.
DetailDay ==
    LET d == Min(plan)
    IN  /\ pc = "detail" /\ plan # {}
        /\ pending' = pending \cup {t \in OnDay(d) : t.id \in wish.ids /\ InWindow(t)}
        /\ plan' = plan \ {d}
        /\ UNCHANGED <<archive, wish, pc, cursor, offset, covers, known, hot, day, complete,
                       listed>>

AnswerDetail ==
    /\ pc = "detail" /\ plan = {}
    /\ listed' = IF pending = {} THEN <<>>
                 ELSE <<Row(pending, CHOOSE s \in wish.ids : TRUE)>>
    /\ pc' = "done"
    /\ UNCHANGED <<archive, wish, cursor, offset, covers, known, hot, day, plan, pending,
                   complete>>

Serve == \/ LoadIndex \/ ScanDay \/ Exhaust \/ AnswerPage
         \/ RangeDay \/ AnswerRanked \/ PlanDay \/ DetailDay \/ AnswerDetail

Next == \/ Serve
        \/ \E d \in FirstDay..LastDay : CompactDay(d)
        \/ RebuildIndex
        \/ \E t \in Arrivals : Arrive(t)

Spec == Init /\ [][Next]_vars /\ WF_vars(Serve)

-----------------------------------------------------------------------------
Turn == (UNION Histories) \cup Arrivals

\* Types; a request never reads outside its window.
TypeOK ==
    /\ turns \subseteq Turn /\ arrived \subseteq turns
    /\ compacted \subseteq 0..LastDay - 1 /\ versions \subseteq SUBSET compacted
    /\ pc \in {"idle", "scan", "range", "plan", "detail", "page", "done"}
    /\ wish \in Wishes
    /\ cursor \in [ended : Nat, id : Session \cup {0}] /\ offset \in Nat
    /\ covers \subseteq compacted /\ known \subseteq compacted /\ hot \subseteq 0..LastDay
    /\ day \in FirstDay - 1..LastDay + 1
    /\ plan \subseteq FirstDay..LastDay
    /\ Ids(pending) \subseteq Session
    /\ \A t \in pending : Day(t.at) \in FirstDay..LastDay /\ InWindow(t)
    /\ \A r \in complete \cup ToSet(listed) : r.id \in Session /\ r.turns # {}

\* Transcripts keep whole milliseconds; what the proxy records does not, and a
\* row of its may show another end once its day has a partition.
Exact == \A t \in turns : t.at % TicksPerMilli = 0

Held(s) == {t \in turns \ arrived : t.id = s /\ InWindow(t)}

End(ts) == Max({t.at + TicksPerMilli * t.ms : t \in ts})
Oldest(ts) == Min({Day(t.at) : t \in ts})

\* Between turn t and all of row r their session was idle for a whole day, and the
\* index of the row's request knew none of the days before.
Split(r, t) ==
    \E d \in FirstDay..LastDay :
        /\ \A u \in r.turns : (Day(u.at) > d) # (Day(t.at) > d)
        /\ \A u \in Held(r.id) :
              Day(u.at) # d /\ (Day(u.at) < d => Day(u.at) \notin r.known)

\* The request loaded an index that covers the day of t, but is without the
\* sessions of that day.
HalfIndexed(t) == Day(t.at) \in covers \ known

\* A row shows every turn of its session in the window, and a detail finds its
\* session, with two exceptions.  A row of SessionsPage may lack what lies beyond an
\* idle day, when the index has yet to learn of the days before; a detail, turns of
\* days that the index covers without their sessions
\* (TestSessionsPageKeepsResumedSessionWhole and TestSessionDetailSpansIdleDays
\* of compact_test.go, with days being compacted and the index rebuilt under the
\* reader).
RowsWhole ==
    Exact =>
        /\ \A r \in ToSet(listed) : \A t \in Held(r.id) :
              \/ t \in r.turns
              \/ wish.order = "recent" /\ Split(r, t)
              \/ wish.order = "detail" /\ HalfIndexed(t)
        /\ wish.order = "detail" /\ pc = "done" =>
              \A s \in wish.ids \ Ids(ToSet(listed)) :
                  \A t \in Held(s) : HalfIndexed(t)

\* Following the cursors of SessionsPage, a session is listed again only as a part of
\* it, which an idle day sets apart from turns already listed and which the index of
\* that page could not join to them; whatever days are compacted, whatever turns
\* arrive between the pages, and however old the index that a page goes by.
ListedOnce ==
    Exact /\ wish.order = "recent" =>
        \A i, j \in DOMAIN listed :
            i < j /\ listed[i].id = listed[j].id =>
                \E t \in listed[i].turns : Split(listed[j], t)

\* Of the sessions the filter admits, the pages leave out only one that began, in
\* the window or before it, on an earlier day than the turns shown of a listed one
\* that it ranks before: it was still held back when a page was cut, and the cursor
\* of that page rules it out for good.
OnlyEnclosingMissed ==
    Exact /\ wish.order = "recent" /\ pc = "done" =>
        \A s \in wish.ids \ Ids(ToSet(listed)) :
            Held(s) = {} \/ Of(arrived, s) # {}
              \/ \E r \in ToSet(listed) :
                    /\ Newer([id |-> s, ended |-> End(Held(s))], r)
                    /\ Oldest(Of(turns \ arrived, s)) < Oldest(r.turns)

\* What TestSessionsPageMatchesUnpaged says of every window: paging through it
\* yields the same sessions as reading it at once.
NothingMissed ==
    Exact /\ wish.order = "recent" /\ pc = "done" =>
        \A s \in wish.ids :
            Held(s) = {} \/ Of(arrived, s) # {}
              \/ s \in Ids(ToSet(listed))

\* The row of a session that was read whole.
Whole(s) == [id |-> s, turns |-> Held(s), ended |-> End(Held(s))]

\* The offsets of SessionsRanked tile the ranked list: the pages answered so far
\* are its beginning, in its order, and in the end all of it, while the days are
\* compacted.
RankedTiles ==
    LET asked == {s \in wish.ids : Held(s) # {}}
        left == asked \ Ids(ToSet(listed))
        ranked(i, s) == Ranked(Whole(listed[i].id), Whole(s))
    IN  Exact /\ arrived = {} /\ wish.order = "turns" =>
            /\ \A i \in DOMAIN listed : listed[i].id \in asked
            /\ \A i, j \in DOMAIN listed : i < j => ranked(i, listed[j].id)
            /\ \A i \in DOMAIN listed, s \in left : ranked(i, s)
            /\ pc = "done" => left = {}

\* A reader who follows the cursors comes to the last page
\* (TestSessionsPageMatchesUnpaged: "pagination did not terminate").
ListingEnds == <>(pc = "done")
=============================================================================
