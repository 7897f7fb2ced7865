------------------------- MODULE SessionPagesProofs -------------------------
(***************************************************************************)
(* Theorems about module SessionPages, for any sessions, archives, windows *)
(* and page sizes, whatever days are compacted and whatever turns arrive   *)
(* while the pages are read.                                               *)
(***************************************************************************)
EXTENDS SessionPages, FiniteSetTheorems, WellFoundedInduction, TLAPS

-----------------------------------------------------------------------------
(* Numbers: least and greatest elements, days and milliseconds.            *)

\* Any set of natural numbers has a least one.
LEMMA MinIsLeast ==
    ASSUME NEW S \in SUBSET Nat, S # {}
    PROVE  Min(S) \in S /\ \A y \in S : Min(S) <= y
<1>1. PICK x \in S : \A y \in S : ~(<<y, x>> \in OpToRel(<, Nat))
  BY NatLessThanWellFounded, WFMin
<1>2. \A y \in S : <<y, x>> \in OpToRel(<, Nat) <=> y < x
  BY DEF OpToRel
<1>3. \A y \in S : y \in Nat /\ ~(y < x)
  BY <1>1, <1>2
<1>4. \A y \in S : x <= y
  BY <1>3
<1> QED
  BY <1>4 DEF Min

\* A finite one has a greatest: of the sizes a counterexample may have there
\* would be a least, and taking one element out of it leaves no smaller one.
LEMMA MaxIsGreatest ==
    ASSUME NEW S \in SUBSET Nat, IsFiniteSet(S), S # {}
    PROVE  Max(S) \in S /\ \A y \in S : y <= Max(S)
<1> DEFINE Topped(T) == \E x \in T : \A y \in T : y <= x
           Bad == {T \in SUBSET Nat : IsFiniteSet(T) /\ T # {} /\ ~Topped(T)}
           Sizes == {n \in Nat : \E T \in Bad : Cardinality(T) = n}
<1>1. Sizes = {}
  <2> SUFFICES ASSUME Sizes # {} PROVE FALSE
    OBVIOUS
  <2>1. Min(Sizes) \in Sizes /\ \A n \in Sizes : Min(Sizes) <= n
    BY MinIsLeast
  <2>2. PICK T \in Bad : Cardinality(T) = Min(Sizes)
    BY <2>1
  <2>3. PICK x \in T : TRUE
    BY <2>2
  <2> DEFINE U == T \ {x}
  <2>4. IsFiniteSet(U) /\ Cardinality(U) = Cardinality(T) - 1 /\ U \in SUBSET Nat
    BY <2>2, <2>3, FS_RemoveElement
  <2>5. Cardinality(U) \in Nat /\ Cardinality(T) \in Nat
    BY <2>2, <2>4, FS_CardinalityType
  <2>6. U \notin Bad
    <3>1. SUFFICES ASSUME U \in Bad PROVE FALSE
      OBVIOUS
    <3>2. Min(Sizes) <= Cardinality(U)
      BY <2>1, <2>5, <3>1
    <3> HIDE DEF U, Sizes
    <3> QED
      BY <2>2, <2>4, <2>5, <3>2
  <2>7. CASE U = {}
    <3>1. T = {x} /\ x \in Nat
      BY <2>2, <2>3, <2>7
    <3>2. Topped(T)
      BY <3>1
    <3> QED
      BY <2>2, <3>2
  <2>8. CASE U # {}
    <3>1. PICK m \in U : \A y \in U : y <= m
      BY <2>4, <2>6, <2>8
    <3>2. m \in T /\ m \in Nat /\ x \in Nat /\ \A y \in T : y = x \/ y \in U
      BY <2>2, <3>1
    <3>3. CASE x <= m
      <4>1. \A y \in T : y <= m
        BY <3>1, <3>2, <3>3
      <4> QED
        BY <2>2, <3>2, <4>1
    <3>4. CASE m < x
      <4>1. \A y \in T : y \in Nat
        BY <2>2
      <4>2. \A y \in T : y <= x
        BY <3>1, <3>2, <3>4, <4>1
      <4> QED
        BY <2>2, <3>2, <4>2
    <3> QED
      BY <3>2, <3>3, <3>4
  <2> QED
    BY <2>7, <2>8
<1>2. Topped(S)
  <2>1. Cardinality(S) \in Nat
    BY FS_CardinalityType
  <2> QED
    BY <1>1, <2>1
<1>3. PICK x \in S : \A y \in S : y <= x
  BY <1>2
<1>4. \A y \in S : x >= y
  BY <1>3
<1>5. Max(S) \in S /\ \A y \in S : Max(S) >= y
  BY <1>4 DEF Max
<1> QED
  BY <1>5

\* Days follow the times.
LEMMA DaysFollow ==
    /\ \A a \in Nat : a \div DayLength \in Nat
    /\ \A a, b \in Nat : a <= b => a \div DayLength <= b \div DayLength
<1>1. DayLength \in Nat /\ DayLength > 0
  BY PagesAssumption
<1>2. \A a \in Nat : /\ a \div DayLength \in Int /\ a % DayLength \in 0..DayLength - 1
                     /\ a = DayLength * (a \div DayLength) + (a % DayLength)
  BY <1>1
<1>3. ASSUME NEW a \in Nat PROVE a \div DayLength \in Nat
  BY <1>1
<1>4. ASSUME NEW a \in Nat, NEW b \in Nat, a <= b
      PROVE  a \div DayLength <= b \div DayLength
  <2> DEFINE x == a \div DayLength
             y == b \div DayLength
  <2>1. x \in Nat /\ y \in Nat /\ a % DayLength >= 0 /\ b % DayLength < DayLength
        /\ a % DayLength \in Nat /\ b % DayLength \in Nat
    BY <1>1, <1>2, <1>3
  <2>2. SUFFICES ASSUME y + 1 <= x PROVE FALSE
    BY <2>1
  <2>3. DayLength * (y + 1) <= DayLength * x
    <3> HIDE DEF x, y
    <3> QED
      BY <1>1, <2>1, <2>2
  <2> QED
    BY <1>1, <1>2, <1>4, <2>1, <2>3
<1> QED
  BY <1>3, <1>4

\* Whole milliseconds are kept as they are, and so are ends of such turns.
LEMMA WholeMillis ==
    ASSUME NEW x \in Nat, x % TicksPerMilli = 0
    PROVE  /\ Milli(x) = x
           /\ \A m \in Nat : x + TicksPerMilli * m \in Nat
                             /\ Milli(x + TicksPerMilli * m) = x + TicksPerMilli * m
<1> DEFINE T == TicksPerMilli
<1>1. T \in Nat /\ T > 0
  BY PagesAssumption
<1>2. x = T * (x \div T) /\ x \div T \in Nat
  BY <1>1
<1>3. ASSUME NEW m \in Nat
      PROVE  /\ x + T * m \in Nat
             /\ T * ((x + T * m) \div T) = x + T * m
  <2> DEFINE k == x \div T
  <2>1. k \in Nat /\ x + T * m = T * (k + m)
    BY <1>1, <1>2
  <2> HIDE DEF k
  <2>2. (T * (k + m)) \div T = k + m
    BY <1>1, <2>1
  <2>3. (x + T * m) \div T = k + m
    BY <2>1, <2>2
  <2>4. T * ((x + T * m) \div T) = T * (k + m)
    BY <2>3
  <2>5. x + T * m \in Nat
    BY <1>1
  <2> HIDE DEF T
  <2> QED
    BY <2>1, <2>4, <2>5
<1> QED
  BY <1>2, <1>3 DEF Milli

-----------------------------------------------------------------------------
(* The archive, and what no step changes about it.                         *)

\* Turns of days up to today, of which those that arrived are of today; any version
\* of the index is of days that have partitions, and today has none.
ArchiveInv ==
    /\ turns \subseteq Turn /\ IsFiniteSet(turns) /\ arrived \subseteq turns
    /\ \A t \in arrived : Day(t.at) = LastDay
    /\ compacted \subseteq 0..LastDay - 1 /\ versions \subseteq SUBSET compacted
    /\ covers \subseteq compacted /\ known \subseteq compacted

LEMMA Turns ==
    \A t \in Turn : /\ t \in TurnRecord /\ t.id \in Session /\ t.at \in Nat /\ t.ms \in Nat
                    /\ Day(t.at) \in 0..LastDay
<1> SUFFICES ASSUME NEW t \in Turn
             PROVE  t \in TurnRecord /\ t.at \div DayLength <= LastDay
  BY DaysFollow, PagesAssumption DEF TurnRecord, Day
<1>1. CASE t \in Arrivals
  BY <1>1, ArchiveAssumption, PagesAssumption
<1>2. CASE \E h \in Histories : t \in h
  BY <1>2, ArchiveAssumption
<1> QED
  BY <1>1, <1>2 DEF Turn

LEMMA InitArchive == Init => ArchiveInv
<1> SUFFICES ASSUME Init PROVE ArchiveInv
  OBVIOUS
<1>1. /\ turns \in Histories /\ arrived = {} /\ versions = {compacted}
      /\ covers = {} /\ known = {}
  BY DEF Init
<1>2. compacted \subseteq 0..LastDay - 1
  <2>1. PICK days \in Swept : compacted = {d \in days : HasTurns(d)}
    BY DEF Init
  <2> QED
    BY <2>1, ArchiveAssumption
<1> QED
  BY <1>1, <1>2, ArchiveAssumption DEF ArchiveInv, Turn

LEMMA StepArchive == ArchiveInv /\ [Next]_vars => ArchiveInv'
<1> SUFFICES ASSUME ArchiveInv, [Next]_vars PROVE ArchiveInv'
  OBVIOUS
<1>1. CASE Serve \/ UNCHANGED vars
  <2>1. /\ UNCHANGED archive
        /\ covers' \in {covers} \cup versions /\ known' \in {known, {}} \cup versions
    BY <1>1 DEF Serve, LoadIndex, ScanDay, Exhaust, AnswerPage, RangeDay, AnswerRanked,
                PlanDay, DetailDay, AnswerDetail, request, vars
  <2> QED
    BY <2>1 DEF ArchiveInv, archive
<1>2. ASSUME NEW d \in FirstDay..LastDay, CompactDay(d) PROVE ArchiveInv'
  BY <1>2 DEF CompactDay, Closed, Today, ArchiveInv, request
<1>3. CASE RebuildIndex
  BY <1>3 DEF RebuildIndex, ArchiveInv, request
<1>4. ASSUME NEW t \in Arrivals, Arrive(t) PROVE ArchiveInv'
  <2>1. IsFiniteSet(turns \cup {t})
    BY FS_AddElement DEF ArchiveInv
  <2>2. t \in Turn /\ Day(t.at) = LastDay
    BY ArchiveAssumption DEF Turn, Day
  <2> QED
    BY <1>4, <2>1, <2>2 DEF Arrive, ArchiveInv, request
<1> QED
  BY <1>1, <1>2, <1>3, <1>4 DEF Next

\* What a reader asked for, and the turns that were there when it did.
LEMMA Lasting ==
    ASSUME ArchiveInv, [Next]_vars
    PROVE  /\ wish' = wish /\ turns' \ arrived' = turns \ arrived
           /\ turns \subseteq turns' /\ arrived \subseteq arrived'
           /\ \A s : Held(s)' = Held(s)
           /\ Exact' => Exact
<1>1. CASE UNCHANGED <<turns, arrived, wish>>
  BY <1>1 DEF Held, Exact, InWindow
<1>2. ASSUME NEW t, Arrive(t)
      PROVE  /\ wish' = wish /\ turns' \ arrived' = turns \ arrived
             /\ turns \subseteq turns' /\ arrived \subseteq arrived'
             /\ Exact' => Exact
  BY <1>2 DEF Arrive, Exact
<1>3. ASSUME turns' \ arrived' = turns \ arrived PROVE \A s : Held(s)' = Held(s)
  BY <1>3 DEF Held, InWindow
<1>4. UNCHANGED <<turns, arrived, wish>> \/ \E t : Arrive(t)
  BY DEF Next, Serve, LoadIndex, ScanDay, Exhaust, AnswerPage, RangeDay, AnswerRanked,
         PlanDay, DetailDay, AnswerDetail, CompactDay, RebuildIndex, archive, request, vars
<1> QED
  BY <1>1, <1>2, <1>3, <1>4

\* What a day is read as, where partitions lose nothing.
LEMMA ReadExactly ==
    ASSUME ArchiveInv, Exact
    PROVE  \A d : OnDay(d) = {t \in turns : Day(t.at) = d}
<1>1. ASSUME NEW t \in turns PROVE AsRead(t) = t
  <2>1. t \in TurnRecord /\ t.at \in Nat /\ t.at % TicksPerMilli = 0
    BY Turns DEF ArchiveInv, Exact
  <2>2. Milli(t.at) = t.at
    BY <2>1, WholeMillis
  <2> QED
    BY <2>1, <2>2 DEF AsRead, TurnRecord
<1>2. ASSUME NEW d PROVE OnDay(d) = {t \in turns : Day(t.at) = d}
  <2> DEFINE A == {u \in turns : Day(u.at) = d}
  <2>1. \A u \in A : u \in turns
    OBVIOUS
  <2> HIDE DEF A
  <2>2. {AsRead(t) : t \in A} = A
    BY <1>1, <2>1
  <2> QED
    BY <2>2 DEF OnDay, A
<1> QED
  BY <1>2

\* What is read of a day is turns of the window's days, whatever it was read from.
LEMMA ReadTurns ==
    ASSUME ArchiveInv, NEW d
    PROVE  OnDay(d) \subseteq TurnRecord /\ IsFiniteSet(OnDay(d))
<1> DEFINE A == {u \in turns : Day(u.at) = d}
<1>1. IsFiniteSet(A) /\ A \subseteq turns
  BY FS_Subset DEF ArchiveInv
<1>2. OnDay(d) = {AsRead(t) : t \in A}
  BY DEF OnDay
<1> HIDE DEF A
<1>3. [t \in A |-> AsRead(t)] \in Surjection(A, OnDay(d))
  BY <1>2 DEF Surjection
<1>4. IsFiniteSet(OnDay(d))
  BY <1>1, <1>3, FS_Surjection
<1>5. ASSUME NEW t \in turns PROVE AsRead(t) \in TurnRecord
  <2>1. t \in TurnRecord /\ t.at \in Nat
    BY Turns DEF ArchiveInv
  <2>2. Milli(t.at) \in Nat
    <3>1. t.at \div TicksPerMilli \in Nat /\ TicksPerMilli \in Nat
      BY <2>1, PagesAssumption
    <3> QED
      BY <3>1 DEF Milli
  <2> QED
    BY <2>1, <2>2 DEF AsRead, TurnRecord
<1> QED
  BY <1>1, <1>2, <1>4, <1>5

\* The days of the window.
LEMMA WindowDays ==
    /\ FirstDay \in Nat /\ LastDay \in Nat /\ FirstDay <= LastDay
    /\ \A t \in TurnRecord : InWindow(t) => Day(t.at) \in FirstDay..LastDay
<1>1. From \in Nat /\ To \in Nat /\ From <= To /\ To \div DayLength = LastDay /\ LastDay \in Nat
  BY PagesAssumption
<1>2. ASSUME NEW t \in TurnRecord, InWindow(t) PROVE Day(t.at) \in FirstDay..LastDay
  <2>1. t.at \in Nat /\ From <= t.at /\ t.at <= To
    BY <1>2 DEF TurnRecord, InWindow
  <2> QED
    BY <1>1, <2>1, DaysFollow DEF Day, FirstDay
<1> QED
  BY <1>1, <1>2, DaysFollow DEF FirstDay, Day

-----------------------------------------------------------------------------
(* Rows.                                                                   *)

EndOf(t) == t.at + TicksPerMilli * t.ms

\* The end of a row is the end of one of its turns, and of none is later.
LEMMA EndIsLatest ==
    ASSUME NEW ts \in SUBSET TurnRecord, IsFiniteSet(ts), ts # {}
    PROVE  /\ End(ts) \in Nat
           /\ \E t \in ts : End(ts) = EndOf(t)
           /\ \A t \in ts : EndOf(t) \in Nat /\ EndOf(t) <= End(ts)
<1> DEFINE ends == {EndOf(t) : t \in ts}
<1>1. ASSUME NEW t \in ts PROVE EndOf(t) \in Nat
  <2>1. t.at \in Nat /\ t.ms \in Nat /\ TicksPerMilli \in Nat
    BY PagesAssumption DEF TurnRecord
  <2> QED
    BY <2>1 DEF EndOf
<1>2. IsFiniteSet(ends)
  <2>1. [t \in ts |-> EndOf(t)] \in Surjection(ts, ends)
    BY DEF Surjection
  <2> HIDE DEF ends
  <2> QED
    BY <2>1, FS_Surjection
<1>3. Max(ends) \in ends /\ \A e \in ends : e <= Max(ends)
  BY <1>1, <1>2, MaxIsGreatest
<1>4. End(ts) = Max(ends)
  BY DEF End, EndOf
<1> QED
  BY <1>1, <1>3, <1>4

RowType == [id : Session, turns : SUBSET TurnRecord, known : SUBSET Nat, ended : Nat]

\* A row is of turns of its session in the window, and ends when they do.
ProperRow(r) ==
    /\ r \in RowType /\ IsFiniteSet(r.turns) /\ r.turns # {}
    /\ r.ended = End(r.turns)
    /\ \A t \in r.turns : t.id = r.id /\ InWindow(t)

LEMMA RowIsProper ==
    ASSUME NEW ts \in SUBSET TurnRecord, IsFiniteSet(ts), \A t \in ts : InWindow(t),
           known \subseteq Nat, NEW s \in Ids(ts)
    PROVE  /\ ProperRow(Row(ts, s)) /\ Row(ts, s).id = s /\ Row(ts, s).turns = Of(ts, s)
           /\ Row(ts, s).known = known
<1>1. /\ Of(ts, s) \subseteq ts /\ Of(ts, s) # {} /\ \A t \in Of(ts, s) : t.id = s
      /\ s \in Session
  BY DEF Of, Ids, TurnRecord
<1>2. IsFiniteSet(Of(ts, s))
  BY <1>1, FS_Subset
<1>3. Row(ts, s) = [id |-> s, turns |-> Of(ts, s), known |-> known, ended |-> End(Of(ts, s))]
  BY DEF Row, End
<1>4. End(Of(ts, s)) \in Nat
  BY <1>1, <1>2, EndIsLatest
<1> QED
  BY <1>1, <1>2, <1>3, <1>4 DEF ProperRow, RowType

\* One row of every session of a set makes a finite set of rows.
LEMMA RowsFinite ==
    ASSUME NEW ts, IsFiniteSet(ts), NEW S, S \subseteq {Row(ts, s) : s \in Ids(ts)}
    PROVE  IsFiniteSet(S)
<1>1. [t \in ts |-> t.id] \in Surjection(ts, Ids(ts))
  BY DEF Surjection, Ids
<1>2. IsFiniteSet(Ids(ts))
  BY <1>1, FS_Surjection
<1> DEFINE all == {Row(ts, s) : s \in Ids(ts)}
<1>3. [s \in Ids(ts) |-> Row(ts, s)] \in Surjection(Ids(ts), all)
  BY DEF Surjection
<1> HIDE DEF all
<1>4. IsFiniteSet(all)
  BY <1>2, <1>3, FS_Surjection
<1> QED
  BY <1>4, FS_Subset DEF all

\* A sorted set of rows is a sequence of them all, each once.
LEMMA SortedRows ==
    ASSUME NEW S, IsFiniteSet(S), NEW q \in Bijection(1..Cardinality(S), S)
    PROVE  /\ Cardinality(S) \in Nat
           /\ q \in Seq(S) /\ Len(q) = Cardinality(S) /\ DOMAIN q = 1..Cardinality(S)
           /\ \A i \in 1..Cardinality(S) : q[i] \in S
           /\ \A x \in S : \E i \in 1..Cardinality(S) : q[i] = x
           /\ \A i, j \in 1..Cardinality(S) : q[i] = q[j] => i = j
<1>1. Cardinality(S) \in Nat
  BY FS_CardinalityType
<1>2. /\ q \in [1..Cardinality(S) -> S]
      /\ \A x \in S : \E i \in 1..Cardinality(S) : q[i] = x
  BY DEF Bijection, Surjection
<1>3. \A i, j \in 1..Cardinality(S) : q[i] = q[j] => i = j
  BY <1>2 DEF Bijection, Injection, IsInjective
<1>4. q \in Seq(S) /\ Len(q) = Cardinality(S)
  BY <1>1, <1>2
<1> QED
  BY <1>1, <1>2, <1>3, <1>4

\* The rows added to the list, from the a-th to the b-th.
LEMMA Added ==
    ASSUME NEW R, NEW old \in Seq(R), NEW q \in Seq(R),
           NEW a \in Nat, NEW b \in Nat, a <= b, b <= Len(q)
    PROVE  /\ old \o SubSeq(q, a + 1, b) \in Seq(R)
           /\ Len(old \o SubSeq(q, a + 1, b)) = Len(old) + (b - a)
           /\ \A i \in 1..Len(old) : (old \o SubSeq(q, a + 1, b))[i] = old[i]
           /\ \A i \in 1..(b - a) : (old \o SubSeq(q, a + 1, b))[Len(old) + i] = q[a + i]
<1> DEFINE new == SubSeq(q, a + 1, b)
<1>1. /\ new \in Seq(R) /\ Len(new) = b - a
      /\ \A i \in 1..(b - a) : new[i] = q[a + i]
  OBVIOUS
<1> HIDE DEF new
<1>2. /\ old \o new \in Seq(R) /\ Len(old \o new) = Len(old) + (b - a)
      /\ \A i \in 1..Len(old) : (old \o new)[i] = old[i]
      /\ \A i \in 1..(b - a) : (old \o new)[Len(old) + i] = new[i]
  BY <1>1
<1> QED
  BY <1>1, <1>2 DEF new

-----------------------------------------------------------------------------
(* Types of a request.                                                     *)

RequestInv ==
    /\ wish \in Wishes
    /\ pc \in {"idle", "scan", "range", "plan", "detail", "page", "done"}
    /\ pc \in {"scan", "page"} => wish.order = "recent"
    /\ pc = "range" => wish.order = "turns"
    /\ pc \in {"plan", "detail"} => wish.order = "detail"
    /\ day \in FirstDay - 1..LastDay + 1
    /\ pc = "scan" => day <= LastDay
    /\ pc \in {"range", "plan"} => day >= FirstDay
    /\ cursor \in [ended : Nat, id : Session \cup {0}] /\ offset \in Nat
    /\ hot \subseteq 0..LastDay
    /\ plan \subseteq FirstDay..LastDay
    /\ pending \subseteq TurnRecord /\ IsFiniteSet(pending)
    /\ \A t \in pending : InWindow(t)
    /\ pc = "plan" => pending = {}
    /\ pc = "detail" => \A t \in pending : t.id \in wish.ids
    /\ IsFiniteSet(complete) /\ \A r \in complete : ProperRow(r)
    /\ listed \in Seq(RowType) /\ \A i \in 1..Len(listed) : ProperRow(listed[i])

LEMMA InitRequest == Init => RequestInv
<1> SUFFICES ASSUME Init PROVE RequestInv
  OBVIOUS
<1>1. /\ wish \in Wishes /\ pc = "idle" /\ cursor = [ended |-> 0, id |-> 0] /\ offset = 0
      /\ hot = {} /\ day = LastDay /\ plan = {}
      /\ pending = {} /\ complete = {} /\ listed = <<>>
  BY DEF Init, NoCursor
<1>2. IsFiniteSet({})
  BY FS_EmptySet
<1> QED
  BY <1>1, <1>2, WindowDays DEF RequestInv

\* The turns read so far, with those of one more day.
LEMMA ReadMore ==
    ASSUME ArchiveInv, RequestInv, NEW d, NEW S, S \subseteq {t \in OnDay(d) : InWindow(t)}
    PROVE  /\ pending \cup S \subseteq TurnRecord /\ IsFiniteSet(pending \cup S)
           /\ \A t \in pending \cup S : InWindow(t)
<1>1. S \subseteq TurnRecord /\ IsFiniteSet(S) /\ \A t \in S : InWindow(t)
  <2>1. S \subseteq OnDay(d)
    OBVIOUS
  <2> QED
    BY <2>1, ReadTurns, FS_Subset
<1> QED
  BY <1>1, FS_Union DEF RequestInv

\* The rows of some of what was read.
LEMMA RowsProper ==
    ASSUME ArchiveInv, NEW ts \in SUBSET TurnRecord, IsFiniteSet(ts),
           \A t \in ts : InWindow(t), NEW S, S \subseteq {Row(ts, s) : s \in Ids(ts)}
    PROVE  IsFiniteSet(S) /\ \A r \in S : ProperRow(r)
<1>1. known \subseteq Nat
  BY PagesAssumption DEF ArchiveInv
<1> QED
  BY <1>1, RowIsProper, RowsFinite

LEMMA ScanRequest ==
    ASSUME ArchiveInv, RequestInv, ScanDay PROVE RequestInv'
<1> DEFINE read == pending \cup {t \in OnDay(day) : InWindow(t)}
           closed == {s \in Ids(read) : OldestDay(read, s) > day}
<1>1. /\ pc = "scan" /\ day >= FirstDay /\ pending' = {t \in read : t.id \notin closed}
      /\ complete' = complete \cup Rows(read, closed) /\ day' = day - 1
      /\ pc' = IF Cardinality(complete') > Limit THEN "page" ELSE "scan"
      /\ UNCHANGED <<wish, cursor, offset, hot, plan, listed>>
  BY DEF ScanDay
<1>2. read \subseteq TurnRecord /\ IsFiniteSet(read) /\ \A t \in read : InWindow(t)
  BY ReadMore
<1>3. IsFiniteSet(Rows(read, closed)) /\ \A r \in Rows(read, closed) : ProperRow(r)
  <2>1. closed \subseteq Ids(read)
    OBVIOUS
  <2> HIDE DEF read, closed
  <2>2. Rows(read, closed) \subseteq {Row(read, s) : s \in Ids(read)}
    BY <2>1 DEF Rows
  <2> QED
    BY <1>2, <2>2, RowsProper
<1> HIDE DEF read
<1>4. pending' \subseteq read /\ IsFiniteSet(pending')
  <2>1. pending' \subseteq read
    BY <1>1
  <2> QED
    BY <1>2, <2>1, FS_Subset
<1> HIDE DEF closed
<1>5. IsFiniteSet(complete') /\ \A r \in complete' : ProperRow(r)
  BY <1>1, <1>3, FS_Union DEF RequestInv
<1>6. day' \in FirstDay - 1..LastDay + 1 /\ day' <= LastDay
  BY <1>1, WindowDays DEF RequestInv
<1>7. pc' \in {"page", "scan"}
  BY <1>1
<1>8. \A t \in pending' : InWindow(t)'
  BY <1>2, <1>4 DEF InWindow
<1> QED
  BY <1>1, <1>2, <1>4, <1>5, <1>6, <1>7, <1>8 DEF RequestInv, ProperRow

LEMMA ExhaustRequest ==
    ASSUME ArchiveInv, RequestInv, Exhaust PROVE RequestInv'
<1>1. /\ pc = "scan" /\ pc' = "page"
      /\ complete' = complete \cup Rows(pending, Ids(pending))
      /\ UNCHANGED <<wish, cursor, offset, hot, day, plan, pending, listed>>
  BY DEF Exhaust
<1>2. /\ IsFiniteSet(Rows(pending, Ids(pending)))
      /\ \A r \in Rows(pending, Ids(pending)) : ProperRow(r)
  <2>1. Rows(pending, Ids(pending)) \subseteq {Row(pending, s) : s \in Ids(pending)}
    BY DEF Rows
  <2> QED
    BY <2>1, RowsProper DEF RequestInv
<1>3. IsFiniteSet(complete') /\ \A r \in complete' : ProperRow(r)
  BY <1>1, <1>2, FS_Union DEF RequestInv
<1> QED
  BY <1>1, <1>3 DEF RequestInv, ProperRow, InWindow

\* The list after an answer, of rows a + 1 to b of a sorted set.
LEMMA AnswerProper ==
    ASSUME RequestInv, NEW S, IsFiniteSet(S), \A r \in S : ProperRow(r),
           NEW q \in Bijection(1..Cardinality(S), S), NEW a \in Nat, NEW b \in Nat,
           a <= b, b <= Cardinality(S)
    PROVE  LET new == listed \o SubSeq(q, a + 1, b)
           IN  /\ new \in Seq(RowType) /\ \A i \in 1..Len(new) : ProperRow(new[i])
               /\ Len(new) = Len(listed) + (b - a)
               /\ \A i \in 1..Len(listed) : new[i] = listed[i]
               /\ \A i \in 1..(b - a) : new[Len(listed) + i] = q[a + i]
<1> DEFINE new == listed \o SubSeq(q, a + 1, b)
<1>1. /\ Cardinality(S) \in Nat /\ q \in Seq(S) /\ Len(q) = Cardinality(S)
      /\ \A i \in 1..Cardinality(S) : q[i] \in S
  BY SortedRows
<1>2. S \subseteq RowType
  BY DEF ProperRow
<1>3. q \in Seq(RowType) /\ listed \in Seq(RowType) /\ Len(listed) \in Nat
  BY <1>1, <1>2 DEF RequestInv
<1>4. /\ new \in Seq(RowType) /\ Len(new) = Len(listed) + (b - a)
      /\ \A i \in 1..Len(listed) : new[i] = listed[i]
      /\ \A i \in 1..(b - a) : new[Len(listed) + i] = q[a + i]
  BY <1>1, <1>3, Added
<1> HIDE DEF new
<1>5. ASSUME NEW i \in 1..Len(new) PROVE ProperRow(new[i])
  <2>1. CASE i <= Len(listed)
    BY <1>3, <1>4, <2>1 DEF RequestInv
  <2>2. CASE i > Len(listed)
    <3> DEFINE k == i - Len(listed)
    <3>1. i \in Nat /\ i <= Len(listed) + (b - a) /\ Len(listed) \in Nat
          /\ Cardinality(S) \in Nat
      BY <1>1, <1>3, <1>4
    <3>2. k \in 1..(b - a) /\ Len(listed) + k = i /\ a + k \in 1..Cardinality(S)
      BY <2>2, <3>1
    <3> QED
      BY <1>1, <1>4, <3>2
  <2> QED
    BY <1>3, <1>4, <2>1, <2>2
<1> QED
  BY <1>4, <1>5 DEF new

LEMMA PageRequest ==
    ASSUME RequestInv, AnswerPage PROVE RequestInv'
<1> DEFINE more == Cardinality(complete) > Limit
<1>1. PICK rows \in Sorted(complete, Newer) :
        /\ listed' = listed \o SubSeq(rows, 1, IF more THEN Limit ELSE Len(rows))
        /\ cursor' = IF more THEN CursorOf(rows[Limit]) ELSE NoCursor
  BY DEF AnswerPage
<1>2. /\ pc = "page" /\ pc' = IF more THEN "idle" ELSE "done"
      /\ complete' = {} /\ pending' = {}
      /\ UNCHANGED <<wish, offset, hot, day, plan>>
  BY DEF AnswerPage
<1>3. rows \in Bijection(1..Cardinality(complete), complete)
  BY <1>1 DEF Sorted
<1>4. IsFiniteSet(complete) /\ \A r \in complete : ProperRow(r)
  BY DEF RequestInv
<1>5. /\ Cardinality(complete) \in Nat /\ Len(rows) = Cardinality(complete)
      /\ \A i \in 1..Cardinality(complete) : rows[i] \in complete
  BY <1>3, <1>4, SortedRows
<1> DEFINE b == IF more THEN Limit ELSE Len(rows)
<1>6. b \in Nat /\ 0 <= b /\ b <= Cardinality(complete)
  BY <1>5, PagesAssumption
<1>7. listed' = listed \o SubSeq(rows, 0 + 1, b)
  BY <1>1
<1> HIDE DEF b
<1>8. listed' \in Seq(RowType) /\ \A i \in 1..Len(listed') : ProperRow(listed'[i])
  BY <1>3, <1>4, <1>6, <1>7, AnswerProper
<1>9. cursor' \in [ended : Nat, id : Session \cup {0}]
  <2>1. CASE more
    <3>1. rows[Limit] \in complete
      BY <1>5, <2>1, PagesAssumption
    <3>2. rows[Limit].ended \in Nat /\ rows[Limit].id \in Session
      BY <1>4, <3>1 DEF ProperRow, RowType
    <3>3. Milli(rows[Limit].ended) \in Nat
      <4>1. rows[Limit].ended \div TicksPerMilli \in Nat /\ TicksPerMilli \in Nat
        BY <3>2, PagesAssumption
      <4> QED
        BY <4>1 DEF Milli
    <3> QED
      BY <1>1, <2>1, <3>2, <3>3 DEF CursorOf
  <2>2. CASE ~more
    BY <1>1, <2>2 DEF NoCursor
  <2> QED
    BY <2>1, <2>2
<1>10. IsFiniteSet({})
  BY FS_EmptySet
<1>11. pc' \in {"idle", "done"}
  BY <1>2
<1> HIDE DEF more
<1> QED
  BY <1>2, <1>8, <1>9, <1>10, <1>11 DEF RequestInv, ProperRow

LEMMA RankedRequest ==
    ASSUME ArchiveInv, RequestInv, AnswerRanked PROVE RequestInv'
<1> DEFINE matched == {r \in {Row(pending, s) : s \in Ids(pending)} : Match(r)}
           n == Cardinality(matched)
           end == PageEnd(n)
<1>1. /\ pc = "range" /\ pending' = {}
      /\ UNCHANGED <<wish, cursor, hot, day, plan, complete>>
  BY DEF AnswerRanked
<1>2. IsFiniteSet(matched) /\ \A r \in matched : ProperRow(r)
  BY RowsProper DEF RequestInv
<1>3. n \in Nat
  BY <1>2, FS_CardinalityType
<1>4. /\ listed' \in Seq(RowType) /\ \A i \in 1..Len(listed') : ProperRow(listed'[i])
      /\ offset' \in Nat /\ pc' \in {"idle", "done"}
  <2>1. CASE offset < n
    <3>1. PICK rows \in Sorted(matched, Ranked) :
            /\ listed' = listed \o SubSeq(rows, offset + 1, end)
            /\ offset' = end
            /\ pc' = IF end < n THEN "idle" ELSE "done"
      BY <2>1 DEF AnswerRanked
    <3>2. rows \in Bijection(1..n, matched)
      BY <3>1 DEF Sorted
    <3>3. end \in Nat /\ offset \in Nat /\ offset <= end /\ end <= n
      BY <1>3, <2>1, PagesAssumption DEF RequestInv, PageEnd
    <3>4. pc' \in {"idle", "done"}
      BY <3>1
    <3> HIDE DEF matched, end
    <3> QED
      BY <1>2, <3>1, <3>2, <3>3, <3>4, AnswerProper
  <2>2. CASE ~(offset < n)
    BY <2>2 DEF AnswerRanked, RequestInv, ProperRow
  <2> QED
    BY <2>1, <2>2
<1>5. IsFiniteSet({})
  BY FS_EmptySet
<1> HIDE DEF matched
<1> QED
  BY <1>1, <1>4, <1>5 DEF RequestInv, ProperRow

LEMMA DetailRequest ==
    ASSUME ArchiveInv, RequestInv, AnswerDetail PROVE RequestInv'
<1>1. /\ pc = "detail" /\ pc' = "done" /\ wish.order = "detail"
      /\ UNCHANGED <<wish, cursor, offset, hot, day, plan, pending, complete>>
  BY DEF AnswerDetail, RequestInv
<1>2. listed' \in Seq(RowType) /\ \A i \in 1..Len(listed') : ProperRow(listed'[i])
  <2>1. CASE pending = {}
    BY <2>1 DEF AnswerDetail
  <2>2. CASE pending # {}
    <3> DEFINE s == CHOOSE s \in wish.ids : TRUE
    <3>1. PICK s0 \in Session : wish.ids = {s0}
      BY <1>1, ArchiveAssumption DEF RequestInv
    <3>2. s = s0
      BY <3>1
    <3>3. s \in Ids(pending)
      BY <1>1, <2>2, <3>1, <3>2 DEF RequestInv, Ids
    <3>4. ProperRow(Row(pending, s))
      <4>1. known \subseteq Nat
        BY PagesAssumption DEF ArchiveInv
      <4> HIDE DEF s
      <4> QED
        BY <3>3, <4>1, RowIsProper DEF RequestInv
    <3>5. listed' = <<Row(pending, s)>>
      BY <2>2 DEF AnswerDetail
    <3> HIDE DEF s
    <3> QED
      BY <3>4, <3>5 DEF ProperRow
  <2> QED
    BY <2>1, <2>2
<1> QED
  BY <1>1, <1>2 DEF RequestInv, ProperRow, InWindow

LEMMA StepRequest == ArchiveInv /\ RequestInv /\ [Next]_vars => RequestInv'
<1> SUFFICES ASSUME ArchiveInv, RequestInv, [Next]_vars PROVE RequestInv'
  OBVIOUS
<1>1. CASE LoadIndex
  <2>1. IsFiniteSet({}) /\ hot' \subseteq 0..LastDay
    <3>1. \A t \in turns : Day(t.at) \in 0..LastDay
      BY Turns DEF ArchiveInv
    <3> QED
      BY <1>1, <3>1, FS_EmptySet DEF LoadIndex
  <2>2. UNCHANGED <<wish, cursor, offset, listed>> /\ plan' = {} /\ pending' = {}
        /\ complete' = {}
    BY <1>1 DEF LoadIndex
  <2>3. \/ wish.order = "recent" /\ day' = LastDay /\ pc' = "scan"
        \/ wish.order = "turns" /\ day' = FirstDay /\ pc' = "range"
        \/ wish.order = "detail" /\ day' = FirstDay /\ pc' = "plan"
    BY <1>1 DEF LoadIndex, Start
  <2> QED
    BY <2>1, <2>2, <2>3, WindowDays DEF RequestInv, ProperRow
<1>2. CASE RangeDay
  <2> DEFINE S == IF KnownEmpty(day) THEN {} ELSE {t \in OnDay(day) : InWindow(t)}
  <2>1. pending' = pending \cup S /\ S \subseteq {t \in OnDay(day) : InWindow(t)}
    BY <1>2 DEF RangeDay
  <2>2. /\ pc = "range" /\ day <= LastDay /\ day' = day + 1
        /\ UNCHANGED <<wish, pc, cursor, offset, hot, plan, complete, listed>>
    BY <1>2 DEF RangeDay
  <2> HIDE DEF S
  <2>3. /\ pending' \subseteq TurnRecord /\ IsFiniteSet(pending')
        /\ \A t \in pending' : InWindow(t)
    BY <2>1, ReadMore
  <2>4. day' \in FirstDay - 1..LastDay + 1 /\ day' >= FirstDay
    BY <2>2, WindowDays DEF RequestInv
  <2> QED
    BY <2>2, <2>3, <2>4 DEF RequestInv, ProperRow, InWindow
<1>3. CASE PlanDay
  <2>1. /\ pc = "plan" /\ UNCHANGED <<wish, cursor, offset, hot, pending, complete, listed>>
    BY <1>3 DEF PlanDay
  <2>2. CASE day <= LastDay
    <3>1. plan' \subseteq plan \cup {day} /\ day' = day + 1 /\ pc' = "plan"
      BY <1>3, <2>2 DEF PlanDay
    <3>2. day \in FirstDay..LastDay /\ day' \in FirstDay - 1..LastDay + 1 /\ day' >= FirstDay
      BY <2>1, <2>2, <3>1, WindowDays DEF RequestInv
    <3> QED
      BY <2>1, <3>1, <3>2 DEF RequestInv, ProperRow, InWindow
  <2>3. CASE ~(day <= LastDay)
    <3>1. pc' = "detail" /\ UNCHANGED <<plan, day>>
      BY <1>3, <2>3 DEF PlanDay
    <3> QED
      BY <2>1, <3>1 DEF RequestInv, ProperRow, InWindow
  <2> QED
    BY <2>2, <2>3
<1>4. CASE DetailDay
  <2> DEFINE S == {t \in OnDay(Min(plan)) : t.id \in wish.ids /\ InWindow(t)}
  <2>1. /\ pending' = pending \cup S /\ S \subseteq {t \in OnDay(Min(plan)) : InWindow(t)}
        /\ \A t \in S : t.id \in wish.ids
    BY <1>4 DEF DetailDay
  <2>2. /\ pc = "detail" /\ plan' \subseteq plan
        /\ UNCHANGED <<wish, pc, cursor, offset, hot, day, complete, listed>>
    BY <1>4 DEF DetailDay
  <2> HIDE DEF S
  <2>3. /\ pending' \subseteq TurnRecord /\ IsFiniteSet(pending')
        /\ \A t \in pending' : InWindow(t)
    BY <2>1, ReadMore
  <2> QED
    BY <2>1, <2>2, <2>3 DEF RequestInv, ProperRow, InWindow
<1>5. CASE ScanDay
  BY <1>5, ScanRequest
<1>6. CASE Exhaust
  BY <1>6, ExhaustRequest
<1>7. CASE AnswerPage
  BY <1>7, PageRequest
<1>8. CASE AnswerRanked
  BY <1>8, RankedRequest
<1>9. CASE AnswerDetail
  BY <1>9, DetailRequest
<1>10. CASE UNCHANGED <<request, wish, pc>>
  BY <1>10 DEF RequestInv, ProperRow, InWindow, request
<1>11. (RebuildIndex \/ (\E d \in FirstDay..LastDay : CompactDay(d))
         \/ (\E t \in Arrivals : Arrive(t)) \/ UNCHANGED vars)
         => UNCHANGED <<request, wish, pc>>
  BY DEF RebuildIndex, CompactDay, Arrive, vars
<1> QED
  BY <1>1, <1>2, <1>3, <1>4, <1>5, <1>6, <1>7, <1>8, <1>9, <1>10, <1>11 DEF Next, Serve

\* Sessions lists keep their types: a request never reads outside the days of its
\* window or shows a row without turns, and the index it loaded covers only days
\* that have partitions (SessionsPage, SessionsRanked, SessionDetail).
THEOREM PagesTypeCorrect == Spec => []TypeOK
<1>1. Init => ArchiveInv /\ RequestInv
  BY InitArchive, InitRequest
<1>2. ArchiveInv /\ RequestInv /\ [Next]_vars => (ArchiveInv /\ RequestInv)'
  BY StepArchive, StepRequest
<1>3. ArchiveInv /\ RequestInv => TypeOK
  <2> SUFFICES ASSUME ArchiveInv, RequestInv PROVE TypeOK
    OBVIOUS
  <2>1. Ids(pending) \subseteq Session
    BY DEF RequestInv, Ids, TurnRecord
  <2>2. \A t \in pending : Day(t.at) \in FirstDay..LastDay /\ InWindow(t)
    BY WindowDays DEF RequestInv
  <2>3. \A r \in complete \cup ToSet(listed) : r.id \in Session /\ r.turns # {}
    <3>1. \A r : ProperRow(r) => r.id \in Session /\ r.turns # {}
      BY DEF ProperRow, RowType
    <3>2. ASSUME NEW r \in ToSet(listed) PROVE ProperRow(r)
      <4>1. \E i \in 1..Len(listed) : listed[i] = r
        BY DEF ToSet, RequestInv
      <4> QED
        BY <4>1 DEF RequestInv
    <3> QED
      BY <3>1, <3>2 DEF RequestInv
  <2> QED
    BY <2>1, <2>2, <2>3 DEF ArchiveInv, RequestInv, TypeOK
<1> QED
  BY <1>1, <1>2, <1>3, PTL DEF Spec

-----------------------------------------------------------------------------
(* The scan of SessionsPage, where nothing is lost to milliseconds.        *)

\* What a request must find: the turns of the window that were there before the
\* first request, and those of the rows already listed.
Standing ==
    {t \in turns \ arrived : InWindow(t)}
        \cup UNION {listed[i].turns : i \in 1..Len(listed)}

\* The scan of a request with this index lets session s go on day d: it reads no
\* turn of it there, and the index knows of none before.
Closes(s, days, d) ==
    \A u \in turns \ arrived :
        u.id = s /\ Day(u.at) <= d =>
            Day(u.at) \notin days /\ (Day(u.at) = d => ~InWindow(u))

\* Day d lies between t and all of these turns.
Across(ts, d, t) ==
    \/ Day(t.at) > d /\ \A u \in ts : Day(u.at) <= d
    \/ Day(t.at) <= d /\ \A u \in ts : Day(u.at) > d

Cut(r, t) ==
    \E d \in FirstDay..LastDay - 1 : Closes(r.id, r.known, d) /\ Across(r.turns, d, t)

\* Two rows of one session are of different pieces of it.
Apart(r, q) == \A t \in q.turns : Cut(r, t)

\* What is read is what the archive holds.
ReadInv ==
    Exact =>
        /\ pending \subseteq turns
        /\ \A r \in complete : r.turns \subseteq turns
        /\ \A i \in 1..Len(listed) : listed[i].turns \subseteq turns

\* The scan holds the turns of the days behind it but those of sessions it let go.
ScanInv ==
    Exact /\ pc = "scan" =>
        /\ \A t \in pending : Day(t.at) > day
        /\ \A t \in Standing :
              Day(t.at) > day =>
                  \/ t \in pending
                  \/ \E d \in day + 1..LastDay - 1 : d < Day(t.at) /\ Closes(t.id, known, d)
        /\ \A u \in pending, d \in day + 1..LastDay - 1 :
              Closes(u.id, known, d) => Day(u.at) <= d
        /\ \A r \in complete :
              \E d \in day + 1..LastDay - 1 :
                  Closes(r.id, known, d) /\ \A u \in r.turns : Day(u.at) > d

\* The rows of a page.
RowsInv ==
    Exact /\ pc \in {"scan", "page"} =>
        /\ \A r \in complete :
              /\ r.known = known /\ After(r) /\ Match(r)
              /\ \A t \in Standing : t.id = r.id => t \in r.turns \/ Cut(r, t)
        /\ \A r, q \in complete : r.id = q.id => r = q \/ Apart(r, q)

\* The rows of the pages answered are before the cursor.
CursorInv ==
    Exact /\ wish.order = "recent" =>
        /\ pc # "done" /\ cursor.id = 0 => listed = <<>>
        /\ cursor.id # 0 => \A i \in 1..Len(listed) : ~After(listed[i])

LEMMA StandingTurns ==
    ASSUME ArchiveInv, RequestInv, ReadInv, Exact
    PROVE  /\ Standing \subseteq turns /\ Standing \subseteq TurnRecord
           /\ \A t \in Standing : InWindow(t) /\ Day(t.at) \in FirstDay..LastDay
<1>1. \A t \in turns : t \in TurnRecord
  BY Turns DEF ArchiveInv
<1>2. ASSUME NEW t \in Standing PROVE t \in turns /\ InWindow(t)
  <2>1. CASE t \in turns \ arrived /\ InWindow(t)
    BY <2>1
  <2>2. ASSUME NEW i \in 1..Len(listed), t \in listed[i].turns
        PROVE  t \in turns /\ InWindow(t)
    BY <2>2 DEF ReadInv, RequestInv, ProperRow
  <2> QED
    BY <2>1, <2>2 DEF Standing
<1> QED
  BY <1>1, <1>2, WindowDays

\* What the scan lets go on day d, as it computes it and as Closes says it.
LEMMA ClosesAsRead ==
    ASSUME ArchiveInv, NEW d \in FirstDay..LastDay,
           NEW read \in SUBSET turns, \A t \in read : InWindow(t) /\ Day(t.at) >= d,
           \A t \in turns : Day(t.at) = d /\ InWindow(t) => t \in read,
           NEW s \in Ids(read)
    PROVE  /\ OldestDay(read, s) > d <=> d < LastDay /\ Closes(s, known, d)
           /\ OldestDay(read, s) > d => \A t \in Of(read, s) : Day(t.at) > d
<1> DEFINE S == {Day(t.at) : t \in Of(read, s)} \cup IndexedDays(s)
<1>1. \A t \in turns : Day(t.at) \in 0..LastDay
  BY Turns DEF ArchiveInv
<1>2. \A t \in Of(read, s) : t \in turns /\ t \in read /\ t.id = s
  BY DEF Of
<1>3. PICK t0 \in Of(read, s) : TRUE
  BY DEF Of, Ids
<1>4. known \subseteq 0..LastDay - 1 /\ LastDay \in Nat
  BY PagesAssumption DEF ArchiveInv
<1>5. S \subseteq Nat /\ S # {}
  BY <1>1, <1>2, <1>3, <1>4 DEF IndexedDays
<1>6. OldestDay(read, s) = Min(S)
  BY DEF OldestDay
<1> HIDE DEF S
<1>7. Min(S) \in S /\ \A y \in S : Min(S) <= y
  BY <1>5, MinIsLeast
<1>8. \A y \in S : y \in Nat
  BY <1>5
<1>9. d \in Nat
  BY WindowDays
<1>10. Min(S) > d <=> \A y \in S : y > d
  BY <1>7, <1>8, <1>9
<1>11. ASSUME \A y \in S : y > d
       PROVE  d < LastDay /\ Closes(s, known, d) /\ \A t \in Of(read, s) : Day(t.at) > d
  <2>1. \A t \in Of(read, s) : Day(t.at) > d
    BY <1>11 DEF S
  <2>2. d < LastDay
    BY <1>1, <1>2, <1>3, <1>4, <1>9, <2>1
  <2>3. ASSUME NEW u \in turns \ arrived, u.id = s, Day(u.at) <= d
        PROVE  Day(u.at) \notin known /\ (Day(u.at) = d => ~InWindow(u))
    <3>1. Day(u.at) \in known => Day(u.at) \in S
      BY <2>3 DEF S, IndexedDays
    <3>2. Day(u.at) = d /\ InWindow(u) => u \in Of(read, s)
      BY <2>3 DEF Of
    <3>3. Day(u.at) \in Nat
      BY <1>1
    <3>4. ~(Day(u.at) > d)
      BY <1>9, <2>3, <3>3
    <3> QED
      BY <1>11, <2>1, <3>1, <3>2, <3>4
  <2> QED
    BY <2>1, <2>2, <2>3 DEF Closes
<1>12. ASSUME d < LastDay, Closes(s, known, d), NEW y \in S PROVE y > d
  <2>1. ASSUME NEW t \in Of(read, s), y = Day(t.at) PROVE y > d
    <3>1. t \in turns /\ t.id = s /\ InWindow(t) /\ Day(t.at) >= d /\ Day(t.at) \in Nat
      BY <1>1, <1>2
    <3>2. t \in arrived => Day(t.at) = LastDay
      BY DEF ArchiveInv
    <3>3. t \notin arrived => Day(t.at) # d
      BY <1>12, <3>1 DEF Closes
    <3>4. Day(t.at) # d
      BY <1>4, <1>9, <1>12, <3>2, <3>3
    <3> QED
      BY <1>9, <2>1, <3>1, <3>4
  <2>2. ASSUME y \in IndexedDays(s) PROVE y > d
    <3>1. PICK t \in turns : t.id = s /\ Day(t.at) = y /\ y \in known
      BY <2>2 DEF IndexedDays
    <3>2. y \in Nat /\ y < LastDay
      BY <1>4, <3>1
    <3>3. t \notin arrived
      BY <1>4, <3>1, <3>2 DEF ArchiveInv
    <3>4. ~(y <= d)
      BY <1>12, <3>1, <3>3 DEF Closes
    <3> QED
      BY <1>9, <3>2, <3>4
  <2> QED
    BY <2>1, <2>2 DEF S
<1> QED
  BY <1>6, <1>10, <1>11, <1>12

\* A row made when the days after e are behind the scan, of a session that is let
\* go on day e or when e lies before the window.
LEMMA NewRow ==
    ASSUME ArchiveInv, RequestInv, ReadInv, Exact,
           NEW read \in SUBSET turns, IsFiniteSet(read), \A t \in read : InWindow(t),
           NEW e \in FirstDay - 1..LastDay,
           \A u \in read, d \in e + 1..LastDay - 1 :
               Closes(u.id, known, d) => Day(u.at) <= d,
           \A t \in Standing : Day(t.at) > e =>
               t \in read \/ \E d \in e + 1..LastDay - 1 :
                                 d < Day(t.at) /\ Closes(t.id, known, d),
           NEW s \in Ids(read), \A u \in Of(read, s) : Day(u.at) > e,
           e >= FirstDay => e < LastDay /\ Closes(s, known, e)
    PROVE  /\ Row(read, s).id = s /\ Row(read, s).known = known
           /\ \A t \in Standing :
                 t.id = s => t \in Row(read, s).turns \/ Cut(Row(read, s), t)
           /\ \A q : /\ q.id = s /\ q.known = known /\ q.turns \subseteq turns
                     /\ \E d \in e + 1..LastDay - 1 :
                           Closes(s, known, d) /\ \A u \in q.turns : Day(u.at) > d
                     => Apart(Row(read, s), q) /\ Apart(q, Row(read, s))
<1> DEFINE r == Row(read, s)
<1>1. \A t \in turns : t \in TurnRecord /\ Day(t.at) \in 0..LastDay
  BY Turns DEF ArchiveInv
<1>2. r.id = s /\ r.turns = Of(read, s) /\ r.known = known
  BY DEF Row
<1> HIDE DEF r
<1>3. FirstDay \in Nat /\ LastDay \in Nat /\ e \in Int
  BY WindowDays
<1>4. \A u \in r.turns : u \in read /\ u \in turns /\ u.id = s /\ Day(u.at) > e
                         /\ Day(u.at) \in Nat
  BY <1>1, <1>2 DEF Of
<1>5. \A u \in r.turns, d \in e + 1..LastDay - 1 : Closes(s, known, d) => Day(u.at) <= d
  BY <1>4
<1>7. ASSUME NEW t \in Standing, t.id = s PROVE t \in r.turns \/ Cut(r, t)
  <2>1. t \in turns /\ Day(t.at) \in FirstDay..LastDay
    BY StandingTurns
  <2>2. t \in read => t \in r.turns
    BY <1>2, <1>7 DEF Of
  <2>3. ASSUME Day(t.at) <= e PROVE Cut(r, t)
    <3>1. e \in FirstDay..LastDay - 1 /\ Closes(s, known, e)
      BY <1>3, <2>1, <2>3
    <3>2. Across(r.turns, e, t)
      BY <1>4, <2>3 DEF Across
    <3> QED
      BY <1>2, <3>1, <3>2 DEF Cut
  <2>4. ASSUME NEW d \in e + 1..LastDay - 1, d < Day(t.at), Closes(s, known, d)
        PROVE  Cut(r, t)
    <3>1. Across(r.turns, d, t)
      BY <1>5, <2>1, <2>4, <1>3 DEF Across
    <3>2. d \in FirstDay..LastDay - 1
      BY <1>3
    <3> QED
      BY <1>2, <2>4, <3>1, <3>2 DEF Cut
  <2>5. Day(t.at) > e \/ Day(t.at) <= e
    BY <1>3, <2>1
  <2> QED
    BY <1>7, <2>2, <2>3, <2>4, <2>5
<1>8. ASSUME NEW q, q.id = s, q.known = known, q.turns \subseteq turns,
             NEW d \in e + 1..LastDay - 1, Closes(s, known, d),
             \A u \in q.turns : Day(u.at) > d
      PROVE  Apart(r, q) /\ Apart(q, r)
  <2>1. d \in FirstDay..LastDay - 1
    BY <1>3
  <2>2. ASSUME NEW t \in q.turns PROVE Cut(r, t)
    <3>1. Across(r.turns, d, t)
      BY <1>5, <1>8 DEF Across
    <3> QED
      BY <1>2, <1>8, <2>1, <3>1 DEF Cut
  <2>3. ASSUME NEW t \in r.turns PROVE Cut(q, t)
    <3>1. Across(q.turns, d, t)
      BY <1>5, <1>8 DEF Across
    <3> QED
      BY <1>8, <2>1, <3>1 DEF Cut
  <2> QED
    BY <2>2, <2>3 DEF Apart
<1> QED
  BY <1>2, <1>7, <1>8 DEF r

\* The scan's own state when it has read another day.
LEMMA ReadDay ==
    ASSUME ArchiveInv, RequestInv, ReadInv, ScanInv, Exact, pc = "scan", day >= FirstDay,
           NEW read, read = pending \cup {t \in OnDay(day) : InWindow(t)}
    PROVE  /\ read \subseteq turns /\ IsFiniteSet(read) /\ read \subseteq TurnRecord
           /\ \A t \in read : InWindow(t) /\ Day(t.at) >= day /\ Day(t.at) \in Nat
           /\ \A t \in turns : Day(t.at) = day /\ InWindow(t) => t \in read
           /\ \A u \in read, d \in day + 1..LastDay - 1 :
                 Closes(u.id, known, d) => Day(u.at) <= d
           /\ \A t \in Standing : Day(t.at) >= day =>
                 t \in read \/ \E d \in day + 1..LastDay - 1 :
                                   d < Day(t.at) /\ Closes(t.id, known, d)
<1>1. OnDay(day) = {t \in turns : Day(t.at) = day}
  BY ReadExactly
<1>2. \A t \in turns : t \in TurnRecord /\ Day(t.at) \in 0..LastDay
  BY Turns DEF ArchiveInv
<1>3. pending \subseteq turns /\ \A t \in pending : Day(t.at) > day
  BY DEF ReadInv, ScanInv
<1>4. read \subseteq TurnRecord /\ IsFiniteSet(read) /\ \A t \in read : InWindow(t)
  BY ReadMore
<1>5. \A t \in read : t \in pending \/ (t \in turns /\ Day(t.at) = day)
  BY <1>1
<1>6. day \in Nat /\ LastDay \in Nat
  BY WindowDays DEF RequestInv
<1>7. \A t \in turns : Day(t.at) = day /\ InWindow(t) => t \in read
  BY <1>1
<1>8. \A t \in read : t \in turns /\ Day(t.at) \in Nat /\ Day(t.at) >= day
  BY <1>2, <1>3, <1>5, <1>6
<1>9. ASSUME NEW u \in read, NEW d \in day + 1..LastDay - 1, Closes(u.id, known, d)
      PROVE  Day(u.at) <= d
  <2>1. CASE u \in pending
    BY <1>9, <2>1 DEF ScanInv
  <2>2. CASE Day(u.at) = day
    BY <1>6, <2>2
  <2> QED
    BY <1>5, <2>1, <2>2
<1>10. ASSUME NEW t \in Standing, Day(t.at) >= day
       PROVE  t \in read \/ \E d \in day + 1..LastDay - 1 :
                                d < Day(t.at) /\ Closes(t.id, known, d)
  <2>1. t \in turns /\ InWindow(t) /\ Day(t.at) \in Nat
    BY <1>2, StandingTurns
  <2>2. CASE Day(t.at) = day
    BY <1>7, <2>1, <2>2
  <2>3. CASE Day(t.at) > day
    <3>1. \/ t \in pending
          \/ \E d \in day + 1..LastDay - 1 : d < Day(t.at) /\ Closes(t.id, known, d)
      BY <2>3 DEF ScanInv
    <3> QED
      BY <3>1
  <2> QED
    BY <1>6, <1>10, <2>1, <2>2, <2>3
<1> QED
  BY <1>4, <1>7, <1>8, <1>9, <1>10

\* What the steps leave of it.
LEMMA ClosesLasts ==
    ASSUME ArchiveInv, [Next]_vars
    PROVE  /\ \A s, days, d : Closes(s, days, d)' <=> Closes(s, days, d)
           /\ \A r, t : Cut(r, t)' <=> Cut(r, t)
           /\ \A r, q : Apart(r, q)' <=> Apart(r, q)
<1>1. turns' \ arrived' = turns \ arrived
  BY Lasting
<1>2. ASSUME NEW s, NEW days, NEW d PROVE Closes(s, days, d)' <=> Closes(s, days, d)
  BY <1>1 DEF Closes, InWindow
<1>3. ASSUME NEW r, NEW t PROVE Cut(r, t)' <=> Cut(r, t)
  BY <1>2 DEF Cut, Across
<1>4. ASSUME NEW r, NEW q PROVE Apart(r, q)' <=> Apart(r, q)
  BY <1>3 DEF Apart
<1> QED
  BY <1>2, <1>3, <1>4

\* The rows of one more page of SessionsPage.
LEMMA PageAnswered ==
    ASSUME RequestInv, AnswerPage
    PROVE  \E q \in Bijection(1..Cardinality(complete), complete),
              b \in 0..Cardinality(complete) :
             /\ \A i, j \in 1..Cardinality(complete) : i < j => ~Newer(q[j], q[i])
             /\ \A i \in 1..Cardinality(complete) : q[i] \in complete
             /\ \A r \in complete : \E i \in 1..Cardinality(complete) : q[i] = r
             /\ \A i, j \in 1..Cardinality(complete) : q[i] = q[j] => i = j
             /\ Len(listed') = Len(listed) + b
             /\ \A i \in 1..Len(listed) : listed'[i] = listed[i]
             /\ \A i \in 1..b : listed'[Len(listed) + i] = q[i]
             /\ \/ /\ Cardinality(complete) > Limit /\ b = Limit
                   /\ cursor' = CursorOf(q[Limit]) /\ pc' = "idle"
                \/ /\ Cardinality(complete) <= Limit /\ b = Cardinality(complete)
                   /\ cursor' = NoCursor /\ pc' = "done"
<1> DEFINE more == Cardinality(complete) > Limit
<1>1. PICK q \in Sorted(complete, Newer) :
        /\ listed' = listed \o SubSeq(q, 1, IF more THEN Limit ELSE Len(q))
        /\ cursor' = IF more THEN CursorOf(q[Limit]) ELSE NoCursor
  BY DEF AnswerPage
<1>2. pc' = IF more THEN "idle" ELSE "done"
  BY DEF AnswerPage
<1>3. q \in Bijection(1..Cardinality(complete), complete)
      /\ \A i, j \in DOMAIN q : i < j => ~Newer(q[j], q[i])
  BY <1>1 DEF Sorted
<1>4. IsFiniteSet(complete) /\ \A r \in complete : ProperRow(r)
  BY DEF RequestInv
<1>5. /\ Cardinality(complete) \in Nat /\ Len(q) = Cardinality(complete)
      /\ DOMAIN q = 1..Cardinality(complete)
      /\ \A i \in 1..Cardinality(complete) : q[i] \in complete
      /\ \A r \in complete : \E i \in 1..Cardinality(complete) : q[i] = r
      /\ \A i, j \in 1..Cardinality(complete) : q[i] = q[j] => i = j
  BY <1>3, <1>4, SortedRows
<1> DEFINE b == IF more THEN Limit ELSE Len(q)
<1>6. b \in Nat /\ 0 <= b /\ b <= Cardinality(complete) /\ b \in 0..Cardinality(complete)
  BY <1>5, PagesAssumption
<1>7. listed' = listed \o SubSeq(q, 0 + 1, b)
  BY <1>1
<1>8. \/ more /\ b = Limit /\ cursor' = CursorOf(q[Limit]) /\ pc' = "idle"
      \/ ~more /\ b = Cardinality(complete) /\ cursor' = NoCursor /\ pc' = "done"
  BY <1>1, <1>2, <1>5
<1>9. ~more <=> Cardinality(complete) <= Limit
  BY <1>5, PagesAssumption
<1> HIDE DEF b
<1>10. /\ Len(listed') = Len(listed) + (b - 0)
       /\ \A i \in 1..Len(listed) : listed'[i] = listed[i]
       /\ \A i \in 1..(b - 0) : listed'[Len(listed) + i] = q[0 + i]
  BY <1>3, <1>4, <1>6, <1>7, AnswerProper
<1>11. b - 0 = b /\ \A i \in 1..b : 0 + i = i
  BY <1>6
<1>12. /\ Len(listed') = Len(listed) + b
       /\ \A i \in 1..b : listed'[Len(listed) + i] = q[i]
  BY <1>10, <1>11
<1> QED
  BY <1>3, <1>5, <1>6, <1>8, <1>9, <1>10, <1>12

\* Every row of the longer list is an old one or one of those added.
LEMMA Indices ==
    ASSUME NEW n \in Nat, NEW b \in Nat, NEW i \in 1..(n + b)
    PROVE  i \in 1..n \/ \E k \in 1..b : i = n + k
<1>1. i > n => i - n \in 1..b /\ i = n + (i - n)
  OBVIOUS
<1> QED
  BY <1>1

\* The rows of SessionsRanked that the filter lets through.
Matched == {r \in {Row(pending, s) : s \in Ids(pending)} : Match(r)}

LEMMA MatchedRows ==
    ASSUME ArchiveInv, RequestInv
    PROVE  /\ IsFiniteSet(Matched) /\ Cardinality(Matched) \in Nat
           /\ \A r \in Matched : /\ ProperRow(r) /\ r.id \in wish.ids /\ r.id \in Ids(pending)
                                 /\ r = Row(pending, r.id) /\ r.turns = Of(pending, r.id)
           /\ \A s \in Ids(pending) : s \in wish.ids => Row(pending, s) \in Matched
<1>1. Matched \subseteq {Row(pending, s) : s \in Ids(pending)}
  BY DEF Matched
<1>2. IsFiniteSet(Matched) /\ \A r \in Matched : ProperRow(r)
  BY <1>1, RowsProper DEF RequestInv
<1>3. \A s : Row(pending, s).id = s /\ Row(pending, s).turns = Of(pending, s)
  BY DEF Row
<1> QED
  BY <1>2, <1>3, FS_CardinalityType DEF Matched, Match

\* One more page of SessionsRanked.
LEMMA RankedAnswered ==
    ASSUME ArchiveInv, RequestInv, AnswerRanked
    PROVE  \/ /\ offset >= Cardinality(Matched)
              /\ pc' = "done" /\ UNCHANGED <<listed, offset>>
           \/ \E q \in Bijection(1..Cardinality(Matched), Matched),
                 end \in 0..Cardinality(Matched) :
                /\ offset < end /\ offset' = end
                /\ pc' = IF end < Cardinality(Matched) THEN "idle" ELSE "done"
                /\ \A i, j \in 1..Cardinality(Matched) : i < j => ~Ranked(q[j], q[i])
                /\ \A i \in 1..Cardinality(Matched) : q[i] \in Matched
                /\ \A r \in Matched : \E i \in 1..Cardinality(Matched) : q[i] = r
                /\ \A i, j \in 1..Cardinality(Matched) : q[i] = q[j] => i = j
                /\ Len(listed') = Len(listed) + (end - offset)
                /\ \A i \in 1..Len(listed) : listed'[i] = listed[i]
                /\ \A i \in 1..(end - offset) : listed'[Len(listed) + i] = q[offset + i]
<1> DEFINE n == Cardinality(Matched)
           end == PageEnd(n)
<1>1. IsFiniteSet(Matched) /\ n \in Nat /\ \A r \in Matched : ProperRow(r)
  BY MatchedRows
<1>2. offset \in Nat
  BY DEF RequestInv
<1>3. CASE offset < n
  <2>1. PICK q \in Sorted(Matched, Ranked) :
          /\ listed' = listed \o SubSeq(q, offset + 1, end)
          /\ offset' = end
          /\ pc' = IF end < n THEN "idle" ELSE "done"
    BY <1>3 DEF AnswerRanked, Matched
  <2>2. /\ q \in Bijection(1..n, Matched)
        /\ \A i, j \in DOMAIN q : i < j => ~Ranked(q[j], q[i])
    BY <2>1 DEF Sorted
  <2>3. end \in Nat /\ offset < end /\ offset <= end /\ end <= n /\ end \in 0..n
    BY <1>1, <1>2, <1>3, PagesAssumption DEF PageEnd
  <2>4. /\ DOMAIN q = 1..n /\ \A i \in 1..n : q[i] \in Matched
        /\ \A r \in Matched : \E i \in 1..n : q[i] = r
        /\ \A i, j \in 1..n : q[i] = q[j] => i = j
    BY <1>1, <2>2, SortedRows
  <2> HIDE DEF end
  <2>5. /\ Len(listed') = Len(listed) + (end - offset)
        /\ \A i \in 1..Len(listed) : listed'[i] = listed[i]
        /\ \A i \in 1..(end - offset) : listed'[Len(listed) + i] = q[offset + i]
    BY <1>1, <1>2, <2>1, <2>2, <2>3, AnswerProper
  <2> QED
    BY <1>3, <2>1, <2>2, <2>3, <2>4, <2>5
<1>4. CASE ~(offset < n)
  <2>1. pc' = "done" /\ UNCHANGED <<listed, offset>>
    BY <1>4 DEF AnswerRanked, Matched
  <2> QED
    BY <1>1, <1>2, <1>4, <2>1
<1> QED
  BY <1>3, <1>4

LEMMA StepRead ==
    ArchiveInv /\ RequestInv /\ ReadInv /\ [Next]_vars => ReadInv'
<1> SUFFICES ASSUME ArchiveInv, RequestInv, ReadInv, [Next]_vars, Exact' PROVE
          /\ pending' \subseteq turns'
          /\ \A r \in complete' : r.turns \subseteq turns'
          /\ \A i \in 1..Len(listed') : listed'[i].turns \subseteq turns'
  BY DEF ReadInv
<1>1. Exact /\ turns \subseteq turns'
  BY Lasting
<1>2. /\ pending \subseteq turns /\ \A r \in complete : r.turns \subseteq turns
      /\ \A i \in 1..Len(listed) : listed[i].turns \subseteq turns
  BY <1>1 DEF ReadInv
<1>3. \A d : OnDay(d) \subseteq turns
  BY <1>1, ReadExactly
<1>4. \A ts, s : ts \subseteq turns => Row(ts, s).turns \subseteq turns
  BY DEF Row, Of
<1>5. Len(listed) \in Nat
  BY DEF RequestInv
<1>6. CASE UNCHANGED <<request, wish, pc>>
  BY <1>1, <1>2, <1>6 DEF request
<1>7. CASE LoadIndex
  BY <1>1, <1>2, <1>7 DEF LoadIndex
<1>8. CASE ScanDay
  <2> DEFINE read == pending \cup {t \in OnDay(day) : InWindow(t)}
             closed == {s \in Ids(read) : OldestDay(read, s) > day}
  <2>1. /\ pending' = {t \in read : t.id \notin closed} /\ UNCHANGED listed
        /\ complete' = complete \cup Rows(read, closed)
    BY <1>8 DEF ScanDay
  <2>2. read \subseteq turns
    BY <1>2, <1>3
  <2> HIDE DEF read
  <2>3. \A r \in Rows(read, closed) : r.turns \subseteq turns
    BY <1>4, <2>2 DEF Rows
  <2> HIDE DEF closed
  <2> QED
    BY <1>1, <1>2, <2>1, <2>2, <2>3
<1>9. CASE Exhaust
  <2>1. \A r \in Rows(pending, Ids(pending)) : r.turns \subseteq turns
    BY <1>2, <1>4 DEF Rows
  <2> QED
    BY <1>1, <1>2, <1>9, <2>1 DEF Exhaust
<1>10. CASE AnswerPage
  <2>1. complete' = {} /\ pending' = {}
    BY <1>10 DEF AnswerPage
  <2>2. PICK q \in Bijection(1..Cardinality(complete), complete),
             b \in 0..Cardinality(complete) :
          /\ \A i \in 1..Cardinality(complete) : q[i] \in complete
          /\ Len(listed') = Len(listed) + b
          /\ \A i \in 1..Len(listed) : listed'[i] = listed[i]
          /\ \A i \in 1..b : listed'[Len(listed) + i] = q[i]
    BY <1>10, PageAnswered
  <2>3. Cardinality(complete) \in Nat /\ b \in Nat /\ b <= Cardinality(complete)
    <3>1. Cardinality(complete) \in Nat
      BY FS_CardinalityType DEF RequestInv
    <3> QED
      BY <3>1
  <2>4. ASSUME NEW i \in 1..Len(listed') PROVE listed'[i].turns \subseteq turns'
    <3>1. i \in 1..Len(listed) + b
      BY <2>2
    <3>2. i \in 1..Len(listed) \/ \E k \in 1..b : i = Len(listed) + k
      BY <1>5, <2>3, <3>1, Indices
    <3>3. CASE i \in 1..Len(listed)
      BY <1>1, <1>2, <2>2, <3>3
    <3>4. ASSUME NEW k \in 1..b, i = Len(listed) + k PROVE listed'[i].turns \subseteq turns'
      <4>1. k \in 1..Cardinality(complete)
        BY <2>3
      <4>2. listed'[i] = q[k] /\ q[k] \in complete
        BY <2>2, <3>4, <4>1
      <4> QED
        BY <1>1, <1>2, <4>2
    <3> QED
      BY <3>2, <3>3, <3>4
  <2> QED
    BY <2>1, <2>4
<1>11. CASE RangeDay
  <2>1. pending' \subseteq pending \cup OnDay(day) /\ UNCHANGED <<complete, listed>>
    BY <1>11 DEF RangeDay
  <2> QED
    BY <1>1, <1>2, <1>3, <2>1
<1>12. CASE AnswerRanked
  <2>1. complete' = complete /\ pending' = {}
    BY <1>12 DEF AnswerRanked
  <2>2. UNCHANGED listed => \A i \in 1..Len(listed') : listed'[i].turns \subseteq turns'
    BY <1>1, <1>2
  <2>3. ASSUME NEW q, NEW end \in 0..Cardinality(Matched), offset < end,
               \A i \in 1..Cardinality(Matched) : q[i] \in Matched,
               Len(listed') = Len(listed) + (end - offset),
               \A i \in 1..Len(listed) : listed'[i] = listed[i],
               \A i \in 1..(end - offset) : listed'[Len(listed) + i] = q[offset + i]
        PROVE  \A i \in 1..Len(listed') : listed'[i].turns \subseteq turns'
    <3>1. offset \in Nat /\ Cardinality(Matched) \in Nat
      BY MatchedRows DEF RequestInv
    <3>2. end - offset \in Nat /\ end <= Cardinality(Matched) /\ end \in Nat
      BY <2>3, <3>1
    <3> SUFFICES ASSUME NEW i \in 1..Len(listed')
                 PROVE  listed'[i].turns \subseteq turns'
      OBVIOUS
    <3>3. CASE i \in 1..Len(listed)
      BY <1>1, <1>2, <2>3, <3>3
    <3>4. ASSUME NEW k \in 1..(end - offset), i = Len(listed) + k
          PROVE  listed'[i].turns \subseteq turns'
      <4>1. offset + k \in 1..Cardinality(Matched)
        BY <3>1, <3>2
      <4>2. listed'[i] \in Matched
        BY <2>3, <3>4, <4>1
      <4> QED
        BY <1>1, <1>2, <1>4, <4>2 DEF Matched
    <3>5. i \in 1..Len(listed) + (end - offset)
      BY <2>3
    <3>6. i \in 1..Len(listed) \/ \E k \in 1..(end - offset) : i = Len(listed) + k
      BY <1>5, <3>2, <3>5, Indices
    <3> QED
      BY <3>3, <3>4, <3>6
  <2>4. \A i \in 1..Len(listed') : listed'[i].turns \subseteq turns'
    BY <1>12, <1>1, <1>2, <2>2, <2>3, RankedAnswered
  <2> QED
    BY <1>1, <1>2, <2>1, <2>4
<1>13. CASE PlanDay
  BY <1>1, <1>2, <1>13 DEF PlanDay
<1>14. CASE DetailDay
  <2>1. pending' \subseteq pending \cup OnDay(Min(plan)) /\ UNCHANGED <<complete, listed>>
    BY <1>14 DEF DetailDay
  <2> QED
    BY <1>1, <1>2, <1>3, <2>1
<1>15. CASE AnswerDetail
  <2>1. /\ listed' = <<>> \/ listed' = <<Row(pending, CHOOSE s \in wish.ids : TRUE)>>
        /\ UNCHANGED <<pending, complete>>
    BY <1>15 DEF AnswerDetail
  <2> QED
    BY <1>1, <1>2, <1>4, <2>1
<1>16. (RebuildIndex \/ (\E d \in FirstDay..LastDay : CompactDay(d))
         \/ (\E t \in Arrivals : Arrive(t)) \/ UNCHANGED vars)
         => UNCHANGED <<request, wish, pc>>
  BY DEF RebuildIndex, CompactDay, Arrive, vars
<1> QED
  BY <1>6, <1>7, <1>8, <1>9, <1>10, <1>11, <1>12, <1>13, <1>14, <1>15, <1>16
  DEF Next, Serve

LEMMA RequestLasts ==
    ASSUME ArchiveInv, [Next]_vars, UNCHANGED <<cursor, listed>>
    PROVE  /\ Standing' = Standing
           /\ \A r : (After(r)' <=> After(r)) /\ (Match(r)' <=> Match(r))
<1>1. turns' \ arrived' = turns \ arrived /\ wish' = wish
  BY Lasting
<1> QED
  BY <1>1 DEF Standing, After, Match, InWindow

LEMMA ScanStep ==
    ASSUME ArchiveInv, RequestInv, ReadInv, ScanInv, RowsInv, ScanDay, Exact', [Next]_vars
    PROVE  ScanInv' /\ RowsInv'
<1> DEFINE read == pending \cup {t \in OnDay(day) : InWindow(t)}
           closed == {s \in Ids(read) : OldestDay(read, s) > day}
<1>1. /\ pc = "scan" /\ day >= FirstDay /\ pending' = {t \in read : t.id \notin closed}
      /\ complete' = complete \cup Rows(read, closed) /\ day' = day - 1
      /\ UNCHANGED <<cursor, known, listed>>
  BY DEF ScanDay
<1>2. Exact
  BY Lasting
<1>3. Standing' = Standing /\ \A r : (After(r)' <=> After(r)) /\ (Match(r)' <=> Match(r))
  BY <1>1, RequestLasts
<1>4. day \in FirstDay..LastDay /\ FirstDay \in Nat /\ LastDay \in Nat
  BY <1>1, WindowDays DEF RequestInv
<1>5. /\ read \subseteq turns /\ IsFiniteSet(read)
      /\ \A t \in read : InWindow(t) /\ Day(t.at) >= day /\ Day(t.at) \in Nat
      /\ \A t \in turns : Day(t.at) = day /\ InWindow(t) => t \in read
      /\ \A u \in read, d \in day + 1..LastDay - 1 :
            Closes(u.id, known, d) => Day(u.at) <= d
      /\ \A t \in Standing : Day(t.at) >= day =>
            t \in read \/ \E d \in day + 1..LastDay - 1 :
                              d < Day(t.at) /\ Closes(t.id, known, d)
  BY <1>1, <1>2, ReadDay
<1> HIDE DEF read
<1>6. ASSUME NEW s \in Ids(read)
      PROVE  /\ s \in closed <=> day < LastDay /\ Closes(s, known, day)
             /\ s \in closed => \A t \in Of(read, s) : Day(t.at) > day
  BY <1>4, <1>5, ClosesAsRead
<1>7. closed \subseteq Ids(read)
  OBVIOUS
<1> HIDE DEF closed
<1>8. ASSUME NEW t \in read PROVE t.id \in Ids(read) /\ t \in Of(read, t.id)
  BY DEF Ids, Of
<1>9. \A t \in Standing : Day(t.at) \in FirstDay..LastDay
  BY <1>2, StandingTurns
<1>10. ASSUME NEW s \in closed
       PROVE  /\ Row(read, s).id = s /\ Row(read, s).known = known
              /\ \A t \in Standing :
                    t.id = s => t \in Row(read, s).turns \/ Cut(Row(read, s), t)
              /\ \A q : /\ q.id = s /\ q.known = known /\ q.turns \subseteq turns
                        /\ \E d \in day + 1..LastDay - 1 :
                              Closes(s, known, d) /\ \A u \in q.turns : Day(u.at) > d
                        => Apart(Row(read, s), q) /\ Apart(q, Row(read, s))
              /\ \A u \in Row(read, s).turns : Day(u.at) > day
              /\ day \in FirstDay..LastDay - 1 /\ Closes(s, known, day)
  <2>1. s \in Ids(read) /\ day < LastDay /\ Closes(s, known, day)
        /\ \A t \in Of(read, s) : Day(t.at) > day
    BY <1>6, <1>7
  <2>2. day \in FirstDay - 1..LastDay /\ day \in FirstDay..LastDay - 1
    BY <1>4, <2>1
  <2>3. \A t \in Standing : Day(t.at) > day =>
            t \in read \/ \E d \in day + 1..LastDay - 1 :
                              d < Day(t.at) /\ Closes(t.id, known, d)
    BY <1>4, <1>5, <1>9
  <2>4. Row(read, s).turns = Of(read, s)
    BY DEF Row
  <2>5. read \in SUBSET turns /\ \A t \in read : InWindow(t)
    BY <1>5
  <2>6. /\ Row(read, s).id = s /\ Row(read, s).known = known
        /\ \A t \in Standing :
              t.id = s => t \in Row(read, s).turns \/ Cut(Row(read, s), t)
        /\ \A q : /\ q.id = s /\ q.known = known /\ q.turns \subseteq turns
                  /\ \E d \in day + 1..LastDay - 1 :
                        Closes(s, known, d) /\ \A u \in q.turns : Day(u.at) > d
                  => Apart(Row(read, s), q) /\ Apart(q, Row(read, s))
    BY <1>2, <1>5, <2>1, <2>2, <2>3, <2>5, NewRow
  <2> QED
    BY <2>1, <2>2, <2>4, <2>6
<1>11. ASSUME NEW r \in Rows(read, closed)
       PROVE  r.id \in closed /\ r = Row(read, r.id) /\ After(r) /\ Match(r)
  <2>1. \A s \in closed : Row(read, s).id = s
    BY <1>10
  <2> QED
    BY <2>1 DEF Rows
<1>12. \A d \in day + 1..LastDay - 1 : d \in (day - 1) + 1..LastDay - 1
  BY <1>4
<1>13. day < LastDay => day \in (day - 1) + 1..LastDay - 1
  BY <1>4
<1>14. ASSUME NEW d \in (day - 1) + 1..LastDay - 1
       PROVE  (d = day /\ day < LastDay) \/ d \in day + 1..LastDay - 1
  BY <1>4
<1>15. ASSUME pc' = "scan" PROVE ScanInv'
  <2>1. \A t \in pending' : Day(t.at) > day - 1
    BY <1>1, <1>4, <1>5
  <2>2. ASSUME NEW t \in Standing, Day(t.at) > day - 1
        PROVE  \/ t \in pending'
               \/ \E d \in (day - 1) + 1..LastDay - 1 :
                      d < Day(t.at) /\ Closes(t.id, known, d)
    <3>1. Day(t.at) >= day
      BY <1>4, <1>9, <2>2
    <3>2. CASE \E d \in day + 1..LastDay - 1 : d < Day(t.at) /\ Closes(t.id, known, d)
      BY <1>12, <3>2
    <3>3. CASE t \in read /\ t.id \notin closed
      BY <1>1, <3>3
    <3>4. CASE t \in read /\ t.id \in closed
      <4>1. day < LastDay /\ Closes(t.id, known, day) /\ Day(t.at) > day
        BY <1>6, <1>8, <3>4
      <4> QED
        BY <1>13, <4>1
    <3> QED
      BY <1>5, <3>1, <3>2, <3>3, <3>4
  <2>3. ASSUME NEW u \in pending', NEW d \in (day - 1) + 1..LastDay - 1, Closes(u.id, known, d)
        PROVE  Day(u.at) <= d
    <3>1. u \in read /\ u.id \notin closed
      BY <1>1
    <3>2. ~(d = day /\ day < LastDay)
      BY <1>6, <1>8, <2>3, <3>1
    <3> QED
      BY <1>5, <1>14, <2>3, <3>1, <3>2
  <2>4. ASSUME NEW r \in complete'
        PROVE  \E d \in (day - 1) + 1..LastDay - 1 :
                   Closes(r.id, known, d) /\ \A u \in r.turns : Day(u.at) > d
    <3>1. CASE r \in complete
      <4>1. \E d \in day + 1..LastDay - 1 :
                Closes(r.id, known, d) /\ \A u \in r.turns : Day(u.at) > d
        BY <1>1, <1>2, <3>1 DEF ScanInv
      <4> QED
        BY <1>12, <4>1
    <3>2. CASE r \in Rows(read, closed)
      <4>1. day < LastDay /\ Closes(r.id, known, day) /\ \A u \in r.turns : Day(u.at) > day
        <5>1. r.id \in closed /\ r = Row(read, r.id)
          BY <1>11, <3>2
        <5>2. day \in FirstDay..LastDay - 1
          BY <1>10, <5>1
        <5> QED
          BY <1>4, <1>10, <5>1, <5>2
      <4> QED
        BY <1>13, <4>1
    <3> QED
      BY <1>1, <3>1, <3>2
  <2> QED
    BY <1>1, <1>3, <2>1, <2>2, <2>3, <2>4, ClosesLasts DEF ScanInv
<1>16. RowsInv'
  <2>1. ASSUME NEW r \in complete'
        PROVE  /\ r.known = known /\ After(r) /\ Match(r)
               /\ \A t \in Standing : t.id = r.id => t \in r.turns \/ Cut(r, t)
    <3>1. CASE r \in complete
      BY <1>1, <1>2, <3>1 DEF RowsInv
    <3>2. CASE r \in Rows(read, closed)
      <4>1. r.id \in closed /\ r = Row(read, r.id) /\ After(r) /\ Match(r)
        BY <1>11, <3>2
      <4> QED
        BY <1>10, <4>1
    <3> QED
      BY <1>1, <3>1, <3>2
  <2>2. ASSUME NEW r \in complete, NEW q \in Rows(read, closed), r.id = q.id
        PROVE  Apart(r, q) /\ Apart(q, r)
    <3>1. q.id \in closed /\ q = Row(read, q.id)
      BY <1>11
    <3>2. r.known = known /\ r.turns \subseteq turns
      BY <1>1, <1>2 DEF RowsInv, ReadInv
    <3>3. \E d \in day + 1..LastDay - 1 :
              Closes(r.id, known, d) /\ \A u \in r.turns : Day(u.at) > d
      BY <1>1, <1>2 DEF ScanInv
    <3> QED
      BY <1>10, <2>2, <3>1, <3>2, <3>3
  <2>3. ASSUME NEW r \in complete', NEW q \in complete', r.id = q.id
        PROVE  r = q \/ Apart(r, q)
    <3>1. CASE r \in complete /\ q \in complete
      BY <1>1, <1>2, <2>3, <3>1 DEF RowsInv
    <3>2. CASE r \in Rows(read, closed) /\ q \in Rows(read, closed)
      BY <1>11, <2>3, <3>2
    <3>3. r \in complete \/ r \in Rows(read, closed)
      BY <1>1
    <3>4. q \in complete \/ q \in Rows(read, closed)
      BY <1>1
    <3> QED
      BY <2>2, <2>3, <3>1, <3>2, <3>3, <3>4
  <2> QED
    BY <1>1, <1>3, <2>1, <2>3, ClosesLasts DEF RowsInv
<1> QED
  BY <1>15, <1>16 DEF ScanInv

LEMMA ExhaustStep ==
    ASSUME ArchiveInv, RequestInv, ReadInv, ScanInv, RowsInv, Exhaust, Exact', [Next]_vars
    PROVE  ScanInv' /\ RowsInv'
<1> DEFINE new == Rows(pending, Ids(pending))
<1>1. /\ pc = "scan" /\ day < FirstDay /\ pc' = "page"
      /\ complete' = complete \cup new /\ UNCHANGED <<cursor, known, listed>>
  BY DEF Exhaust
<1>2. Exact
  BY Lasting
<1>3. Standing' = Standing /\ \A r : (After(r)' <=> After(r)) /\ (Match(r)' <=> Match(r))
  BY <1>1, RequestLasts
<1>4. day = FirstDay - 1 /\ day \in FirstDay - 1..LastDay /\ FirstDay \in Nat
      /\ ~(day >= FirstDay)
  BY <1>1, WindowDays DEF RequestInv
<1>5. /\ pending \in SUBSET turns /\ IsFiniteSet(pending)
      /\ \A t \in pending : InWindow(t) /\ Day(t.at) > day
  BY <1>1, <1>2 DEF RequestInv, ReadInv, ScanInv
<1>6. /\ \A u \in pending, d \in day + 1..LastDay - 1 :
            Closes(u.id, known, d) => Day(u.at) <= d
      /\ \A t \in Standing : Day(t.at) > day =>
            t \in pending \/ \E d \in day + 1..LastDay - 1 :
                                 d < Day(t.at) /\ Closes(t.id, known, d)
  BY <1>1, <1>2 DEF ScanInv
<1>7. ASSUME NEW s \in Ids(pending)
      PROVE  /\ Row(pending, s).id = s /\ Row(pending, s).known = known
             /\ \A t \in Standing :
                   t.id = s => t \in Row(pending, s).turns \/ Cut(Row(pending, s), t)
             /\ \A q : /\ q.id = s /\ q.known = known /\ q.turns \subseteq turns
                       /\ \E d \in day + 1..LastDay - 1 :
                             Closes(s, known, d) /\ \A u \in q.turns : Day(u.at) > d
                       => Apart(Row(pending, s), q) /\ Apart(q, Row(pending, s))
  <2>1. \A u \in Of(pending, s) : Day(u.at) > day
    BY <1>5 DEF Of
  <2> QED
    BY <1>2, <1>4, <1>5, <1>6, <2>1, NewRow
<1>8. ASSUME NEW r \in new
      PROVE  r.id \in Ids(pending) /\ r = Row(pending, r.id) /\ After(r) /\ Match(r)
  BY <1>7 DEF Rows
<1> HIDE DEF new
<1>9. ASSUME NEW r \in complete'
      PROVE  /\ r.known = known /\ After(r) /\ Match(r)
             /\ \A t \in Standing : t.id = r.id => t \in r.turns \/ Cut(r, t)
  <2>1. CASE r \in complete
    BY <1>1, <1>2, <2>1 DEF RowsInv
  <2>2. CASE r \in new
    BY <1>7, <1>8, <2>2
  <2> QED
    BY <1>1, <2>1, <2>2
<1>10. ASSUME NEW r \in complete, NEW q \in new, r.id = q.id
       PROVE  Apart(r, q) /\ Apart(q, r)
  <2>1. q.id \in Ids(pending) /\ q = Row(pending, q.id)
    BY <1>8
  <2>2. r.known = known /\ r.turns \subseteq turns
    BY <1>1, <1>2 DEF RowsInv, ReadInv
  <2>3. \E d \in day + 1..LastDay - 1 :
            Closes(r.id, known, d) /\ \A u \in r.turns : Day(u.at) > d
    BY <1>1, <1>2 DEF ScanInv
  <2> QED
    BY <1>7, <1>10, <2>1, <2>2, <2>3
<1>11. ASSUME NEW r \in complete', NEW q \in complete', r.id = q.id
       PROVE  r = q \/ Apart(r, q)
  <2>1. CASE r \in complete /\ q \in complete
    BY <1>1, <1>2, <1>11, <2>1 DEF RowsInv
  <2>2. CASE r \in new /\ q \in new
    BY <1>8, <1>11, <2>2
  <2>3. (r \in complete \/ r \in new) /\ (q \in complete \/ q \in new)
    BY <1>1
  <2> QED
    BY <1>10, <1>11, <2>1, <2>2, <2>3
<1>12. RowsInv'
  BY <1>1, <1>3, <1>9, <1>11, ClosesLasts DEF RowsInv
<1> QED
  BY <1>1, <1>12 DEF ScanInv

LEMMA StepScan ==
    /\ ArchiveInv /\ RequestInv /\ ReadInv /\ ScanInv /\ RowsInv /\ [Next]_vars
    => ScanInv' /\ RowsInv'
<1> SUFFICES ASSUME ArchiveInv, RequestInv, ReadInv, ScanInv, RowsInv, [Next]_vars
             PROVE  ScanInv' /\ RowsInv'
  OBVIOUS
<1>1. CASE ~Exact'
  BY <1>1 DEF ScanInv, RowsInv
<1>2. CASE pc' \notin {"scan", "page"}
  BY <1>2 DEF ScanInv, RowsInv
<1>3. CASE ScanDay /\ Exact'
  BY <1>3, ScanStep
<1>4. CASE Exhaust /\ Exact'
  BY <1>4, ExhaustStep
<1>5. CASE LoadIndex /\ Exact'
  <2>1. pending' = {} /\ complete' = {} /\ UNCHANGED <<cursor, listed>>
    BY <1>5 DEF LoadIndex
  <2>2. pc' = "scan" => day' = LastDay
    BY <1>5 DEF LoadIndex, Start
  <2>3. Standing' = Standing
    BY <2>1, RequestLasts
  <2>4. \A t \in Standing : ~(Day(t.at) > LastDay)
    <3>1. Exact
      BY <1>5, Lasting
    <3>2. \A t \in Standing : Day(t.at) \in FirstDay..LastDay
      BY <3>1, StandingTurns
    <3> QED
      BY <3>2, WindowDays
  <2>5. ScanInv'
    BY <2>1, <2>2, <2>3, <2>4 DEF ScanInv
  <2>6. RowsInv'
    BY <2>1 DEF RowsInv
  <2> QED
    BY <2>5, <2>6
<1>6. CASE UNCHANGED <<request, wish, pc>> /\ Exact'
  <2>1. /\ UNCHANGED <<cursor, listed>>
        /\ UNCHANGED <<cursor, known, day, pending, complete, listed, wish, pc>>
    BY <1>6 DEF request
  <2>2. Exact /\ Standing' = Standing
        /\ \A r : (After(r)' <=> After(r)) /\ (Match(r)' <=> Match(r))
    BY <1>6, <2>1, Lasting, RequestLasts
  <2>3. ScanInv'
    BY <2>1, <2>2, ClosesLasts DEF ScanInv
  <2>4. RowsInv'
    BY <2>1, <2>2, ClosesLasts DEF RowsInv
  <2> QED
    BY <2>3, <2>4
<1>7. (RebuildIndex \/ (\E d \in FirstDay..LastDay : CompactDay(d))
         \/ (\E t \in Arrivals : Arrive(t)) \/ UNCHANGED vars)
         => UNCHANGED <<request, wish, pc>>
  BY DEF RebuildIndex, CompactDay, Arrive, vars
<1>8. (AnswerPage \/ RangeDay \/ AnswerRanked \/ PlanDay \/ DetailDay \/ AnswerDetail)
        => pc' \notin {"scan", "page"}
  BY DEF AnswerPage, RangeDay, AnswerRanked, PlanDay, DetailDay, AnswerDetail
<1> QED
  BY <1>1, <1>2, <1>3, <1>4, <1>5, <1>6, <1>7, <1>8 DEF Next, Serve

-----------------------------------------------------------------------------
(* The pages of SessionsPage: whole rows, each piece of a session once.    *)

LEMMA MilliEnd ==
    ASSUME ArchiveInv, Exact, NEW ts \in SUBSET turns, IsFiniteSet(ts), ts # {}
    PROVE  Milli(End(ts)) = End(ts)
<1>1. ts \in SUBSET TurnRecord
  BY Turns DEF ArchiveInv
<1>2. PICK t \in ts : End(ts) = EndOf(t)
  BY <1>1, EndIsLatest
<1>3. t.at \in Nat /\ t.ms \in Nat /\ t.at % TicksPerMilli = 0
  BY <1>1 DEF Exact, TurnRecord
<1> QED
  BY <1>2, <1>3, WholeMillis DEF EndOf

\* Rows before the cursor of a page stay before the next one's.
LEMMA CursorMoves ==
    ASSUME ArchiveInv, RequestInv, ReadInv, RowsInv, CursorInv, AnswerPage, [Next]_vars, Exact'
    PROVE  CursorInv'
<1>1. pc = "page" /\ UNCHANGED <<archive, wish, known>> /\ wish.order = "recent"
  BY DEF AnswerPage, RequestInv
<1>2. Exact
  BY Lasting
<1>3. PICK q \in Bijection(1..Cardinality(complete), complete),
           b \in 0..Cardinality(complete) :
        /\ \A i, j \in 1..Cardinality(complete) : i < j => ~Newer(q[j], q[i])
        /\ \A i \in 1..Cardinality(complete) : q[i] \in complete
        /\ Len(listed') = Len(listed) + b
        /\ \A i \in 1..Len(listed) : listed'[i] = listed[i]
        /\ \A i \in 1..b : listed'[Len(listed) + i] = q[i]
        /\ \/ /\ Cardinality(complete) > Limit /\ b = Limit
              /\ cursor' = CursorOf(q[Limit]) /\ pc' = "idle"
           \/ /\ Cardinality(complete) <= Limit /\ b = Cardinality(complete)
              /\ cursor' = NoCursor /\ pc' = "done"
  BY PageAnswered
<1>4. Cardinality(complete) \in Nat /\ b \in Nat /\ b <= Cardinality(complete)
      /\ Len(listed) \in Nat
  <2>1. Cardinality(complete) \in Nat
    BY FS_CardinalityType DEF RequestInv
  <2>2. Len(listed) \in Nat
    BY DEF RequestInv
  <2> QED
    BY <2>1, <2>2
<1>5. \A r \in complete : /\ r.known = known /\ After(r) /\ ProperRow(r)
                          /\ r.ended \in Nat /\ r.id \in Nat \ {0}
  BY <1>1, <1>2, PagesAssumption DEF RowsInv, RequestInv, ProperRow, RowType
<1>6. \A i \in 1..Len(listed) : /\ cursor.id # 0 => ~After(listed[i])
                                /\ listed[i].ended \in Nat /\ listed[i].id \in Nat \ {0}
  BY <1>1, <1>2, PagesAssumption DEF CursorInv, RequestInv, ProperRow, RowType
<1>7. cursor.id = 0 => Len(listed) = 0
  BY <1>1, <1>2 DEF CursorInv
<1>8. cursor.ended \in Nat /\ cursor.id \in Nat
  <2>1. cursor.ended \in Nat /\ cursor.id \in Session \cup {0}
    BY DEF RequestInv
  <2>2. Session \subseteq Nat
    BY PagesAssumption
  <2>3. cursor.id \in Session \/ cursor.id = 0
    BY <2>1
  <2>4. cursor.id \in Session => cursor.id \in Nat
    BY <2>2
  <2> QED
    BY <2>1, <2>3, <2>4
<1>9. pc' = "idle" =>
         /\ Limit \in 1..Cardinality(complete) /\ b = Limit
         /\ cursor'.ended = q[Limit].ended /\ cursor'.id = q[Limit].id
  <2> SUFFICES ASSUME pc' = "idle"
               PROVE  /\ Limit \in 1..Cardinality(complete) /\ b = Limit
                      /\ cursor'.ended = q[Limit].ended /\ cursor'.id = q[Limit].id
    OBVIOUS
  <2>1. Cardinality(complete) > Limit /\ b = Limit /\ cursor' = CursorOf(q[Limit])
    BY <1>3
  <2>2. Limit \in 1..Cardinality(complete)
    BY <1>4, <2>1, PagesAssumption
  <2>3. q[Limit] \in complete
    BY <1>3, <2>2
  <2>4. Milli(q[Limit].ended) = q[Limit].ended
    BY <1>2, <1>5, <2>3, MilliEnd DEF ReadInv, ProperRow
  <2> QED
    BY <2>1, <2>2, <2>4 DEF CursorOf
<1> DEFINE Behind(r) == ~(\/ cursor'.id = 0
                          \/ r.ended = cursor'.ended /\ r.id < cursor'.id
                          \/ r.ended < cursor'.ended)
<1>10. ASSUME NEW i \in 1..Len(listed')
       PROVE  cursor'.id # 0 => Behind(listed'[i])
  <2>1. i \in 1..Len(listed) + b
    BY <1>3
  <2>2. i \in 1..Len(listed) \/ \E k \in 1..b : i = Len(listed) + k
    BY <1>4, <2>1, Indices
  <2>3. cursor'.id # 0 => pc' = "idle"
    BY <1>3 DEF NoCursor
  <2>4. CASE i \in 1..Len(listed)
    <3>1. listed'[i] = listed[i] /\ cursor.id # 0
      BY <1>3, <1>4, <1>7, <2>4
    <3>2. ~After(listed[i])
      BY <1>6, <2>4, <3>1
    <3>3. ASSUME pc' = "idle" PROVE Behind(listed'[i])
      <4>1. q[Limit] \in complete
        BY <1>3, <1>9, <3>3
      <4>2. After(q[Limit]) /\ q[Limit].ended \in Nat /\ q[Limit].id \in Nat \ {0}
        BY <1>5, <4>1
      <4>3. listed[i].ended \in Nat /\ listed[i].id \in Nat
        BY <1>6, <2>4
      <4>4. /\ ~(listed[i].ended = q[Limit].ended /\ listed[i].id < q[Limit].id)
            /\ ~(listed[i].ended < q[Limit].ended)
        <5>1. \/ listed[i].ended > cursor.ended
              \/ listed[i].ended = cursor.ended /\ listed[i].id >= cursor.id
          <6>1. /\ ~(listed[i].ended = cursor.ended /\ listed[i].id < cursor.id)
                /\ ~(listed[i].ended < cursor.ended)
            BY <3>2 DEF After
          <6>2. \A a, b1, c, d \in Nat :
                   ~(a = c /\ b1 < d) /\ ~(a < c) => a > c \/ (a = c /\ b1 >= d)
            OBVIOUS
          <6> QED
            BY <1>8, <4>3, <6>1, <6>2
        <5>2. \/ q[Limit].ended < cursor.ended
              \/ q[Limit].ended = cursor.ended /\ q[Limit].id < cursor.id
          BY <3>1, <4>2 DEF After
        <5>3. \A a, b1, c, d, e, f \in Nat :
                 (a > c \/ (a = c /\ b1 >= d)) /\ (e < c \/ (e = c /\ f < d))
                 => ~(a = e /\ b1 < f) /\ ~(a < e)
          OBVIOUS
        <5> HIDE DEF Behind
        <5> QED
          BY <1>8, <4>2, <4>3, <5>1, <5>2, <5>3
      <4> QED
        BY <1>9, <3>1, <3>3, <4>2, <4>4
    <3> QED
      BY <1>6, <2>3, <2>4, <3>1, <3>3
  <2>5. ASSUME NEW k \in 1..b, i = Len(listed) + k
        PROVE  cursor'.id # 0 => Behind(listed'[i])
    <3>1. listed'[i] = q[k] /\ k \in 1..Cardinality(complete)
      BY <1>3, <1>4, <2>5
    <3>2. q[k] \in complete
      BY <1>3, <3>1
    <3>3. ASSUME pc' = "idle" PROVE Behind(listed'[i])
      <4>1. Limit \in 1..Cardinality(complete) /\ q[Limit] \in complete /\ k <= Limit
        BY <1>3, <1>9, <3>3
      <4>2. q[k].ended \in Nat /\ q[k].id \in Nat /\ q[Limit].ended \in Nat
            /\ q[Limit].id \in Nat \ {0}
        BY <1>5, <3>2, <4>1
      <4>3. k < Limit => ~Newer(q[Limit], q[k])
        BY <1>3, <3>1, <4>1
      <4>4. k = Limit \/ k < Limit
        BY <3>1, <4>1
      <4>5. /\ ~(q[k].ended = q[Limit].ended /\ q[k].id < q[Limit].id)
            /\ ~(q[k].ended < q[Limit].ended)
        BY <4>2, <4>3, <4>4 DEF Newer
      <4> QED
        BY <1>9, <3>1, <3>3, <4>2, <4>5
    <3> QED
      BY <1>5, <2>3, <3>1, <3>2, <3>3
  <2> QED
    BY <2>2, <2>4, <2>5
<1>11. pc' # "done" /\ cursor'.id = 0 => listed' = <<>>
  <2> SUFFICES ASSUME pc' = "idle" PROVE cursor'.id # 0
    BY <1>3
  <2>1. q[Limit] \in complete
    BY <1>3, <1>9
  <2> QED
    BY <1>5, <1>9, <2>1
<1>12. pc' \notin {"scan", "page"}
  BY <1>3
<1>13. (cursor.id # 0 => \A i \in 1..Len(listed) : ~After(listed[i]))'
  BY <1>10 DEF After
<1> HIDE DEF Behind
<1> QED
  BY <1>11, <1>12, <1>13 DEF CursorInv

LEMMA StepCursor ==
    /\ ArchiveInv /\ RequestInv /\ ReadInv /\ RowsInv /\ CursorInv /\ [Next]_vars
    => CursorInv'
<1> SUFFICES ASSUME ArchiveInv, RequestInv, ReadInv, RowsInv, CursorInv, [Next]_vars
             PROVE  CursorInv'
  OBVIOUS
<1> SUFFICES ASSUME Exact', wish'.order = "recent" PROVE CursorInv'
  BY DEF CursorInv
<1>1. Exact /\ wish' = wish /\ wish.order = "recent"
  BY Lasting
<1>2. CASE AnswerPage
  BY <1>2, CursorMoves
<1>3. ASSUME UNCHANGED <<cursor, listed>>, pc' = "done" => pc = "done",
             pc # pc' => pc # "done"
      PROVE  CursorInv'
  BY <1>1, <1>3 DEF CursorInv, After
<1>4. CASE LoadIndex
  BY <1>3, <1>4 DEF LoadIndex, Start, archive
<1>5. CASE ScanDay
  BY <1>3, <1>5 DEF ScanDay, archive
<1>6. CASE Exhaust
  BY <1>3, <1>6 DEF Exhaust, archive
<1>7. CASE RebuildIndex
  BY <1>3, <1>7 DEF RebuildIndex, request, ArchiveInv
<1>8. ASSUME NEW d \in FirstDay..LastDay, CompactDay(d) PROVE CursorInv'
  BY <1>3, <1>8 DEF CompactDay, request
<1>9. ASSUME NEW t \in Arrivals, Arrive(t) PROVE CursorInv'
  BY <1>3, <1>9 DEF Arrive, request
<1>10. CASE UNCHANGED vars
  BY <1>3, <1>10 DEF vars, archive, request
<1>11. ~(RangeDay \/ AnswerRanked \/ PlanDay \/ DetailDay \/ AnswerDetail)
  BY <1>1 DEF RangeDay, AnswerRanked, PlanDay, DetailDay, AnswerDetail, RequestInv
<1> QED
  BY <1>2, <1>4, <1>5, <1>6, <1>7, <1>8, <1>9, <1>10, <1>11 DEF Next, Serve

\* A cut between a turn and a row of its session splits them.
LEMMA CutIsSplit ==
    ASSUME ArchiveInv, NEW r, r.turns \subseteq TurnRecord, NEW t \in TurnRecord, Cut(r, t)
    PROVE  Split(r, t)
<1>1. PICK d \in FirstDay..LastDay - 1 : Closes(r.id, r.known, d) /\ Across(r.turns, d, t)
  BY DEF Cut
<1>2. d \in FirstDay..LastDay /\ d \in Int
  BY <1>1, WindowDays
<1>0. \A u \in TurnRecord : Day(u.at) \in Nat
  BY DaysFollow DEF Day, TurnRecord
<1>3. ASSUME NEW u \in r.turns PROVE (Day(u.at) > d) # (Day(t.at) > d)
  <2>1. CASE Day(t.at) > d /\ Day(u.at) <= d
    <3>1. ~(Day(u.at) > d)
      BY <1>0, <1>2, <2>1
    <3> QED
      BY <2>1, <3>1
  <2>2. CASE Day(t.at) <= d /\ Day(u.at) > d
    <3>1. ~(Day(t.at) > d)
      BY <1>0, <1>2, <2>2
    <3> QED
      BY <2>2, <3>1
  <2> QED
    BY <1>1, <2>1, <2>2 DEF Across
<1>4. ASSUME NEW u \in Held(r.id)
      PROVE  Day(u.at) # d /\ (Day(u.at) < d => Day(u.at) \notin r.known)
  <2>1. u \in turns \ arrived /\ u.id = r.id /\ InWindow(u) /\ Day(u.at) \in Nat
    BY Turns DEF Held, ArchiveInv
  <2>2. Day(u.at) = d \/ Day(u.at) < d => Day(u.at) <= d
    BY <1>2, <2>1
  <2> QED
    BY <1>1, <2>1, <2>2 DEF Closes
<1> QED
  BY <1>2, <1>3, <1>4 DEF Split

LEMMA SplitLasts ==
    ASSUME ArchiveInv, [Next]_vars
    PROVE  \A r, t : Split(r, t)' <=> Split(r, t)
<1>1. \A s : Held(s)' = Held(s)
  BY Lasting
<1> QED
  BY <1>1 DEF Split

\* SessionsRanked reads the days in order and passes over none with turns;
\* SessionDetail plans every day that holds a turn of its session and reads it, but
\* for those the index covers without their sessions.
GatherInv ==
    /\ pc = "range" => \A t \in turns \ arrived : Day(t.at) \in hot
    /\ Exact /\ pc = "range" =>
          \A t \in turns \ arrived : InWindow(t) /\ Day(t.at) < day => t \in pending
    /\ Exact /\ pc \in {"plan", "detail"} =>
          \A t \in turns \ arrived :
              InWindow(t) /\ t.id \in wish.ids /\ (pc = "plan" => Day(t.at) < day) =>
                  Day(t.at) \in plan \/ t \in pending \/ HalfIndexed(t)

LEMMA StepGather ==
    ArchiveInv /\ RequestInv /\ GatherInv /\ [Next]_vars => GatherInv'
<1> SUFFICES ASSUME ArchiveInv, RequestInv, GatherInv, [Next]_vars PROVE GatherInv'
  OBVIOUS
<1>1. turns' \ arrived' = turns \ arrived /\ wish' = wish /\ (Exact' => Exact)
  BY Lasting
<1>2. \A t \in turns \ arrived : /\ t \in turns /\ t \in TurnRecord
                                 /\ Day(t.at) \in 0..LastDay
                                 /\ (InWindow(t) => Day(t.at) \in FirstDay..LastDay)
  BY Turns, WindowDays DEF ArchiveInv
<1>3. ASSUME Exact, NEW d PROVE OnDay(d) = {t \in turns : Day(t.at) = d}
  BY <1>3, ReadExactly
<1>4. day \in Int /\ FirstDay \in Nat /\ LastDay \in Nat
  BY WindowDays DEF RequestInv
<1>5. CASE UNCHANGED <<request, wish, pc>>
  BY <1>1, <1>5 DEF GatherInv, request, InWindow, HalfIndexed
<1>6. CASE pc' \notin {"range", "plan", "detail"}
  BY <1>6 DEF GatherInv
<1>7. CASE LoadIndex
  <2>1. pc' \in {"range", "plan"} => day' = FirstDay
    BY <1>7 DEF LoadIndex, Start
  <2>2. hot' = {Day(t.at) : t \in turns} /\ pc' \in {"scan", "range", "plan"}
    BY <1>7 DEF LoadIndex, Start
  <2>3. \A t \in turns \ arrived : InWindow(t) => ~(Day(t.at) < FirstDay)
    BY <1>2, <1>4
  <2> QED
    BY <1>1, <2>1, <2>2, <2>3 DEF GatherInv, InWindow
<1>8. CASE RangeDay
  <2>1. /\ pc = "range" /\ pc' = pc /\ hot' = hot /\ day' = day + 1
        /\ pending' = pending \cup
              IF KnownEmpty(day) THEN {} ELSE {t \in OnDay(day) : InWindow(t)}
    BY <1>8 DEF RangeDay
  <2>2. ASSUME Exact, NEW t \in turns \ arrived, InWindow(t), Day(t.at) < day + 1
        PROVE  t \in pending'
    <3>1. CASE Day(t.at) < day
      BY <2>1, <2>2, <3>1 DEF GatherInv
    <3>2. CASE Day(t.at) = day
      <4>1. ~KnownEmpty(day)
        BY <2>1, <3>2 DEF GatherInv, KnownEmpty
      <4>2. t \in OnDay(day)
        BY <1>3, <2>2, <3>2
      <4> QED
        BY <2>1, <2>2, <4>1, <4>2
    <3> QED
      BY <1>2, <1>4, <2>2, <3>1, <3>2
  <2> QED
    BY <1>1, <2>1, <2>2 DEF GatherInv, InWindow
<1>9. CASE PlanDay
  <2>1. pc = "plan" /\ UNCHANGED <<turns, compacted, covers, known, pending>>
    BY <1>9 DEF PlanDay, archive
  <2>2. ASSUME Exact, NEW t \in turns \ arrived, InWindow(t), t.id \in wish.ids,
               pc' = "plan" => Day(t.at) < day', ~HalfIndexed(t)
        PROVE  Day(t.at) \in plan' \/ t \in pending
    <3>1. CASE day <= LastDay
      <4>1. /\ day' = day + 1 /\ pc' = "plan"
            /\ plan' = IF Holding(day) THEN plan \cup {day} ELSE plan
        BY <1>9, <2>1, <3>1 DEF PlanDay
      <4>2. CASE Day(t.at) < day
        BY <2>1, <2>2, <4>1, <4>2 DEF GatherInv
      <4>3. CASE Day(t.at) = day
        <5>1. day \in covers => day \in IndexedDays(t.id)
          BY <1>2, <2>2, <4>3 DEF IndexedDays, HalfIndexed
        <5>2. Holding(day)
          BY <2>2, <5>1 DEF Holding
        <5> QED
          BY <4>1, <4>3, <5>2
      <4> QED
        BY <1>2, <1>4, <2>2, <4>1, <4>2, <4>3
    <3>2. CASE ~(day <= LastDay)
      <4>1. plan' = plan
        BY <1>9, <3>2 DEF PlanDay
      <4>2. Day(t.at) < day
        BY <1>2, <1>4, <3>2
      <4> QED
        BY <2>1, <2>2, <4>1, <4>2 DEF GatherInv
    <3> QED
      BY <3>1, <3>2
  <2>3. pc' \in {"plan", "detail"}
    BY <1>9, <2>1 DEF PlanDay
  <2> QED
    BY <1>1, <2>1, <2>2, <2>3 DEF GatherInv, InWindow, HalfIndexed
<1>10. CASE DetailDay
  <2> DEFINE d == Min(plan)
  <2>1. /\ pc = "detail" /\ pc' = pc /\ plan' = plan \ {d}
        /\ pending' = pending \cup {t \in OnDay(d) : t.id \in wish.ids /\ InWindow(t)}
        /\ UNCHANGED <<covers, known>>
    BY <1>10 DEF DetailDay
  <2> HIDE DEF d
  <2>2. ASSUME Exact, NEW t \in turns \ arrived, InWindow(t), t.id \in wish.ids,
               ~HalfIndexed(t)
        PROVE  Day(t.at) \in plan' \/ t \in pending'
    <3>1. Day(t.at) \in plan \/ t \in pending
      BY <2>1, <2>2 DEF GatherInv
    <3>2. CASE Day(t.at) = d
      <4>1. t \in OnDay(d)
        BY <1>3, <2>2, <3>2
      <4> QED
        BY <2>1, <2>2, <4>1
    <3> QED
      BY <2>1, <3>1, <3>2
  <2> QED
    BY <1>1, <2>1, <2>2 DEF GatherInv, InWindow, HalfIndexed
<1>11. (RebuildIndex \/ (\E d \in FirstDay..LastDay : CompactDay(d))
         \/ (\E t \in Arrivals : Arrive(t)) \/ UNCHANGED vars)
         => UNCHANGED <<request, wish, pc>>
  BY DEF RebuildIndex, CompactDay, Arrive, vars
<1>12. ScanDay \/ Exhaust \/ AnswerPage \/ AnswerRanked \/ AnswerDetail
         => pc' \notin {"range", "plan", "detail"}
  BY DEF ScanDay, Exhaust, AnswerPage, AnswerRanked, AnswerDetail
<1> QED
  BY <1>5, <1>6, <1>7, <1>8, <1>9, <1>10, <1>11, <1>12 DEF Next, Serve

\* RowsWhole, row by row.
Shown(r, t) ==
    \/ t \in r.turns
    \/ wish.order = "recent" /\ Split(r, t)
    \/ wish.order = "detail" /\ HalfIndexed(t)

WholeInv ==
    Exact => \A i \in 1..Len(listed) : \A t \in Held(listed[i].id) : Shown(listed[i], t)

\* A detail lists nothing before it is done.
FoundInv ==
    Exact /\ wish.order = "detail" =>
        IF pc # "done"
        THEN listed = <<>>
        ELSE \A s \in wish.ids \ Ids(ToSet(listed)) : \A t \in Held(s) : HalfIndexed(t)

\* A list that grew by such rows.
LEMMA WholeRows ==
    ASSUME ArchiveInv, RequestInv, WholeInv, [Next]_vars, Exact',
           UNCHANGED <<covers, known>>, NEW S, NEW b \in Nat,
           Len(listed') = Len(listed) + b,
           \A i \in 1..Len(listed) : listed'[i] = listed[i],
           \A k \in 1..b : listed'[Len(listed) + k] \in S,
           \A r \in S : \A t \in Held(r.id) : Shown(r, t)
    PROVE  WholeInv'
<1>1. Exact /\ wish' = wish /\ \A s : Held(s)' = Held(s)
  BY Lasting
<1>2. \A r, t : Shown(r, t)' <=> Shown(r, t)
  BY <1>1, SplitLasts DEF Shown, HalfIndexed
<1>3. Len(listed) \in Nat
  BY DEF RequestInv
<1>4. ASSUME NEW i \in 1..Len(listed'), NEW r, r = listed'[i], NEW t \in Held(r.id)
      PROVE  Shown(r, t)
  <2>1. i \in 1..Len(listed) + b
    BY <1>4
  <2>2. i \in 1..Len(listed) \/ \E k \in 1..b : i = Len(listed) + k
    BY <1>3, <2>1, Indices
  <2>3. CASE i \in 1..Len(listed)
    BY <1>1, <1>4, <2>3 DEF WholeInv
  <2>4. CASE \E k \in 1..b : i = Len(listed) + k
    BY <1>4, <2>4
  <2> QED
    BY <2>2, <2>3, <2>4
<1>5. (\A i \in 1..Len(listed) : \A r : r = listed[i] =>
          \A t \in Held(r.id) : Shown(r, t))'
  BY <1>1, <1>2, <1>4
<1> QED
  BY <1>5 DEF WholeInv

LEMMA StepWhole ==
    /\ ArchiveInv /\ RequestInv /\ ReadInv /\ RowsInv /\ GatherInv /\ WholeInv /\ FoundInv
    /\ [Next]_vars
    => WholeInv' /\ FoundInv'
<1> SUFFICES ASSUME ArchiveInv, RequestInv, ReadInv, RowsInv, GatherInv, WholeInv, FoundInv,
                    [Next]_vars, Exact'
             PROVE  WholeInv' /\ FoundInv'
  BY DEF WholeInv, FoundInv
<1>1. Exact /\ wish' = wish /\ \A s : Held(s)' = Held(s)
  BY Lasting
<1>2. UNCHANGED <<covers, known>> =>
         /\ \A r, t : Shown(r, t)' <=> Shown(r, t)
         /\ \A t : HalfIndexed(t)' <=> HalfIndexed(t)
  BY <1>1, SplitLasts DEF Shown, HalfIndexed
<1>3. ASSUME NEW s, NEW t \in Held(s)
      PROVE  /\ t \in turns \ arrived /\ t \in Standing /\ t.id = s /\ InWindow(t)
             /\ t \in TurnRecord /\ Day(t.at) \in FirstDay..LastDay
  BY Turns, WindowDays DEF Held, Standing, ArchiveInv
<1>4. CASE UNCHANGED <<listed, pc, covers, known>>
  <2>1. WholeInv'
    BY <1>1, <1>2, <1>4 DEF WholeInv
  <2>2. FoundInv'
    BY <1>1, <1>2, <1>4 DEF FoundInv
  <2> QED
    BY <2>1, <2>2
<1>5. CASE UNCHANGED <<listed, covers, known>> /\ pc # "done" /\ pc' # "done"
  BY <1>1, <1>2, <1>5 DEF WholeInv, FoundInv
<1>6. CASE AnswerPage
  <2>1. pc = "page" /\ wish.order = "recent"
    BY <1>6 DEF AnswerPage, RequestInv
  <2>2. PICK q \in Bijection(1..Cardinality(complete), complete),
             b \in 0..Cardinality(complete) :
          /\ \A i \in 1..Cardinality(complete) : q[i] \in complete
          /\ Len(listed') = Len(listed) + b
          /\ \A i \in 1..Len(listed) : listed'[i] = listed[i]
          /\ \A i \in 1..b : listed'[Len(listed) + i] = q[i]
    BY <1>6, PageAnswered
  <2>3. Cardinality(complete) \in Nat
    BY FS_CardinalityType DEF RequestInv
  <2>4. b \in Nat /\ \A k \in 1..b : k \in 1..Cardinality(complete)
    BY <2>3
  <2>5. ASSUME NEW r \in complete, NEW t \in Held(r.id)
        PROVE  Shown(r, t)
    <3>1. t \in r.turns \/ Cut(r, t)
      BY <1>1, <1>3, <2>1 DEF RowsInv
    <3>2. r.turns \subseteq TurnRecord
      BY DEF RequestInv, ProperRow, RowType
    <3> QED
      BY <1>3, <2>1, <3>1, <3>2, CutIsSplit DEF Shown
  <2>6. \A k \in 1..b : listed'[Len(listed) + k] \in complete
    BY <2>2, <2>4
  <2>7. WholeInv'
    <3>1. UNCHANGED <<covers, known>>
      BY <1>6 DEF AnswerPage
    <3> QED
      BY <2>2, <2>4, <2>5, <2>6, <3>1, WholeRows
  <2> QED
    BY <1>1, <2>1, <2>7 DEF FoundInv
<1>7. CASE AnswerRanked
  <2>1. /\ pc = "range" /\ day > LastDay /\ wish.order = "turns"
        /\ UNCHANGED <<covers, known>>
    BY <1>7 DEF AnswerRanked, RequestInv
  <2>2. FoundInv'
    BY <1>1, <2>1 DEF FoundInv
  <2>3. ASSUME NEW r \in Matched, NEW t \in Held(r.id) PROVE Shown(r, t)
    <3>1. r.turns = Of(pending, r.id)
      BY MatchedRows
    <3>2. Day(t.at) < day
      BY <1>3, <2>1, WindowDays DEF RequestInv
    <3>3. t \in pending
      BY <1>1, <1>3, <2>1, <3>2 DEF GatherInv
    <3> QED
      BY <1>3, <3>1, <3>3 DEF Of, Shown
  <2>4. CASE UNCHANGED listed
    BY <1>1, <1>2, <2>1, <2>2, <2>4 DEF WholeInv
  <2>5. ASSUME NEW q \in Bijection(1..Cardinality(Matched), Matched),
               NEW end \in 0..Cardinality(Matched), offset < end,
               \A i \in 1..Cardinality(Matched) : q[i] \in Matched,
               Len(listed') = Len(listed) + (end - offset),
               \A i \in 1..Len(listed) : listed'[i] = listed[i],
               \A i \in 1..(end - offset) : listed'[Len(listed) + i] = q[offset + i]
        PROVE  WholeInv'
    <3>1. offset \in Nat /\ Cardinality(Matched) \in Nat
      BY MatchedRows DEF RequestInv
    <3>2. end - offset \in Nat /\ \A k \in 1..(end - offset) :
                                     offset + k \in 1..Cardinality(Matched)
      BY <2>5, <3>1
    <3>3. \A k \in 1..(end - offset) : listed'[Len(listed) + k] \in Matched
      BY <2>5, <3>2
    <3> QED
      BY <2>1, <2>3, <2>5, <3>2, <3>3, WholeRows
  <2> QED
    BY <1>7, <2>2, <2>4, <2>5, RankedAnswered
<1>8. CASE AnswerDetail
  <2> DEFINE s == CHOOSE x \in wish.ids : TRUE
  <2>1. /\ pc = "detail" /\ plan = {} /\ wish.order = "detail" /\ pc' = "done"
        /\ listed' = IF pending = {} THEN <<>> ELSE <<Row(pending, s)>>
        /\ UNCHANGED <<covers, known>>
    BY <1>8 DEF AnswerDetail, RequestInv
  <2>2. wish.ids = {s}
    BY <2>1, ArchiveAssumption DEF RequestInv
  <2> HIDE DEF s
  <2>3. ASSUME NEW t \in Held(s) PROVE t \in pending \/ HalfIndexed(t)
    BY <1>1, <1>3, <2>1, <2>2, <2>3 DEF GatherInv
  <2>4. CASE pending = {}
    <3>1. listed' = <<>> /\ \A t \in Held(s) : HalfIndexed(t)
      BY <2>1, <2>3, <2>4
    <3>2. \A x \in wish.ids : \A t \in Held(x) : HalfIndexed(t)
      BY <2>2, <3>1
    <3>3. WholeInv'
      BY <3>1 DEF WholeInv
    <3>4. \A x \in wish'.ids : \A t \in Held(x)' : HalfIndexed(t)'
      BY <1>1, <1>2, <2>1, <3>2
    <3> QED
      BY <2>1, <3>3, <3>4 DEF FoundInv
  <2>5. CASE pending # {}
    <3>0. PICK r : r = Row(pending, s)
      OBVIOUS
    <3>1. listed' = <<r>>
      BY <2>1, <2>5, <3>0
    <3>2. r.id = s /\ r.turns = Of(pending, s)
      BY <3>0 DEF Row
    <3>3. \A t \in Held(s) : Shown(r, t)
      BY <1>3, <2>1, <2>3, <3>2 DEF Of, Shown
    <3>4. WholeInv'
      <4>1. \A t \in Held(r.id)' : Shown(r, t)'
        BY <1>1, <1>2, <2>1, <3>2, <3>3
      <4>2. Len(listed') = 1 /\ listed'[1] = r
        BY <3>1
      <4>3. \A i \in 1..Len(listed') : listed'[i] = r
        BY <4>2
      <4>4. (\A i \in 1..Len(listed) : \A x : x = listed[i] =>
                \A t \in Held(x.id) : Shown(x, t))'
        BY <4>1, <4>3
      <4> QED
        BY <4>4 DEF WholeInv
    <3>5. ToSet(listed') = {r}
      BY <3>1 DEF ToSet
    <3>6. wish'.ids \ Ids(ToSet(listed')) = {}
      BY <1>1, <2>2, <3>2, <3>5 DEF Ids
    <3>7. FoundInv'
      BY <2>1, <3>6 DEF FoundInv, Ids, ToSet
    <3> QED
      BY <3>4, <3>7
  <2> QED
    BY <2>4, <2>5
<1>9. (RebuildIndex \/ (\E d \in FirstDay..LastDay : CompactDay(d))
         \/ (\E t \in Arrivals : Arrive(t)) \/ UNCHANGED vars)
         => UNCHANGED <<listed, pc, covers, known>>
  BY DEF RebuildIndex, CompactDay, Arrive, vars, request
<1>10. ScanDay \/ Exhaust \/ RangeDay \/ PlanDay \/ DetailDay
         => UNCHANGED <<listed, covers, known>> /\ pc # "done" /\ pc' # "done"
  BY DEF ScanDay, Exhaust, RangeDay, PlanDay, DetailDay
<1>11. CASE LoadIndex
  <2>1. UNCHANGED listed /\ pc # "done" /\ pc' # "done"
    BY <1>11 DEF LoadIndex, Start
  <2>2. FoundInv'
    BY <1>1, <2>1 DEF FoundInv
  <2>3. CASE wish.order = "detail"
    <3>1. listed' = <<>>
      BY <1>1, <2>1, <2>3 DEF FoundInv
    <3> QED
      BY <2>2, <3>1 DEF WholeInv
  <2>4. CASE wish.order # "detail"
    <3>1. \A r, t : Shown(r, t)' <=> Shown(r, t)
      BY <1>1, <2>4, SplitLasts DEF Shown
    <3> QED
      BY <1>1, <2>1, <2>2, <3>1 DEF WholeInv
  <2> QED
    BY <2>3, <2>4
<1> QED
  BY <1>4, <1>5, <1>6, <1>7, <1>8, <1>9, <1>10, <1>11 DEF Next, Serve

PagesInv ==
    /\ ArchiveInv /\ RequestInv /\ ReadInv /\ ScanInv /\ RowsInv /\ CursorInv /\ GatherInv
    /\ WholeInv /\ FoundInv

LEMMA InitPages == Init => PagesInv
<1> SUFFICES ASSUME Init PROVE PagesInv
  OBVIOUS
<1>1. /\ pc = "idle" /\ listed = <<>> /\ pending = {} /\ complete = {}
      /\ cursor.id = 0
  BY DEF Init, NoCursor
<1>2. ReadInv /\ ScanInv /\ RowsInv /\ GatherInv /\ FoundInv
  BY <1>1 DEF ReadInv, ScanInv, RowsInv, GatherInv, FoundInv
<1>3. CursorInv /\ WholeInv
  BY <1>1 DEF CursorInv, WholeInv
<1> QED
  BY <1>2, <1>3, InitArchive, InitRequest DEF PagesInv

LEMMA StepPages == PagesInv /\ [Next]_vars => PagesInv'
BY StepArchive, StepRequest, StepRead, StepScan, StepCursor, StepGather, StepWhole
DEF PagesInv

\* A row shows every turn its session has in the window, and SessionDetail finds its
\* session, while days are compacted and the index is rebuilt under the reader; but
\* for turns that the index of a SessionsPage cannot yet join to the row, and for
\* those of days that the index of a SessionDetail covers without their sessions
\* (SessionsPage and daysHolding in page.go, SessionsRanked in sort.go).
THEOREM RowsAreWhole == Spec => []RowsWhole
<1>1. PagesInv => RowsWhole
  <2> SUFFICES ASSUME PagesInv, Exact PROVE RowsWhole
    BY DEF RowsWhole
  <2>1. ASSUME NEW r \in ToSet(listed), NEW t \in Held(r.id)
        PROVE  Shown(r, t)
    <3>1. \E i \in 1..Len(listed) : listed[i] = r
      BY DEF ToSet, RequestInv, PagesInv
    <3> QED
      BY <3>1 DEF PagesInv, WholeInv
  <2>2. wish.order = "detail" /\ pc = "done" =>
           \A s \in wish.ids \ Ids(ToSet(listed)) : \A t \in Held(s) : HalfIndexed(t)
    BY DEF PagesInv, FoundInv
  <2> QED
    BY <2>1, <2>2 DEF RowsWhole, Shown
<1> QED
  BY <1>1, InitPages, StepPages, PTL DEF Spec

-----------------------------------------------------------------------------
(* ListedOnce.                                                             *)

\* A row c of a later page has the turns of an earlier row r of its session, or an
\* idle day cuts one of them off.  Had it all of them, it would end no earlier, and
\* the cursor would have ruled it out.
LEMMA OnceStep ==
    ASSUME ArchiveInv, RequestInv, ReadInv, RowsInv, CursorInv, ListedOnce, AnswerPage,
           [Next]_vars, Exact'
    PROVE  \A i, j \in 1..Len(listed') :
               i < j /\ listed'[i].id = listed'[j].id =>
                   \E t \in listed'[i].turns : Split(listed'[j], t)
<1>1. Exact
  BY Lasting
<1>2. pc = "page" /\ wish.order = "recent"
  BY DEF AnswerPage, RequestInv
<1>3. PICK q \in Bijection(1..Cardinality(complete), complete),
           b \in 0..Cardinality(complete) :
        /\ \A i \in 1..Cardinality(complete) : q[i] \in complete
        /\ \A i, j \in 1..Cardinality(complete) : q[i] = q[j] => i = j
        /\ Len(listed') = Len(listed) + b
        /\ \A i \in 1..Len(listed) : listed'[i] = listed[i]
        /\ \A i \in 1..b : listed'[Len(listed) + i] = q[i]
  BY PageAnswered
<1>4. Cardinality(complete) \in Nat /\ b \in Nat /\ b <= Cardinality(complete)
      /\ Len(listed) \in Nat
  <2>1. Cardinality(complete) \in Nat
    BY FS_CardinalityType DEF RequestInv
  <2>2. Len(listed) \in Nat
    BY DEF RequestInv
  <2> QED
    BY <2>1, <2>2
<1>5. ASSUME NEW r \in complete, NEW c \in complete, r # c, r.id = c.id
      PROVE  \E t \in r.turns : Split(c, t)
  <2>1. PICK t \in r.turns : Cut(c, t)
    BY <1>1, <1>2, <1>5 DEF RowsInv, Apart, RequestInv, ProperRow
  <2>2. c.turns \subseteq TurnRecord /\ t \in TurnRecord
    BY <1>5 DEF RequestInv, ProperRow, RowType
  <2> QED
    BY <2>1, <2>2, CutIsSplit
<1>6. ASSUME NEW i \in 1..Len(listed), NEW c \in complete, listed[i].id = c.id
      PROVE  \E t \in listed[i].turns : Split(c, t)
  <2> DEFINE r == listed[i]
  <2>1. SUFFICES ASSUME \A t \in r.turns : ~Split(c, t) PROVE FALSE
    OBVIOUS
  <2>2. ProperRow(r) /\ (cursor.id # 0 => ~After(r)) /\ r.turns \subseteq Standing
    BY <1>1, <1>2 DEF RequestInv, CursorInv, Standing
  <2>3. cursor.id # 0
    BY <1>1, <1>2, <1>4 DEF CursorInv
  <2>4. /\ ProperRow(c) /\ After(c) /\ r.id = c.id
        /\ \A u \in Standing : u.id = c.id => u \in c.turns \/ Cut(c, u)
    BY <1>1, <1>2, <1>6 DEF RequestInv, RowsInv
  <2> HIDE DEF r
  <2>5. \A u \in r.turns : u \in c.turns \/ Cut(c, u)
    BY <2>2, <2>4 DEF ProperRow
  <2>6. r.turns \subseteq c.turns
    BY <2>1, <2>2, <2>4, <2>5, CutIsSplit DEF ProperRow, RowType
  <2>7. r.ended \in Nat /\ c.ended \in Nat /\ r.ended <= c.ended
    <3>1. PICK u \in r.turns : End(r.turns) = EndOf(u)
      BY <2>2, EndIsLatest DEF ProperRow, RowType
    <3>2. EndOf(u) <= End(c.turns)
      BY <2>4, <2>6, <3>1, EndIsLatest DEF ProperRow, RowType
    <3> QED
      BY <2>2, <2>4, <3>1, <3>2 DEF ProperRow, RowType
  <2>8. /\ ~(r.ended = cursor.ended /\ r.id < cursor.id)
        /\ ~(r.ended < cursor.ended)
        /\ \/ c.ended = cursor.ended /\ c.id < cursor.id
           \/ c.ended < cursor.ended
    BY <2>2, <2>3, <2>4 DEF After
  <2>9. cursor.ended \in Nat
    BY DEF RequestInv
  <2> QED
    BY <2>4, <2>7, <2>8, <2>9
<1>7. ASSUME NEW i \in 1..Len(listed')
      PROVE  \/ i \in 1..Len(listed) /\ listed'[i] = listed[i]
             \/ \E k \in 1..Cardinality(complete) :
                   i = Len(listed) + k /\ listed'[i] = q[k] /\ q[k] \in complete
  <2>1. i \in 1..Len(listed) + b
    BY <1>3
  <2>2. i \in 1..Len(listed) \/ \E k \in 1..b : i = Len(listed) + k
    BY <1>4, <2>1, Indices
  <2>3. \A k \in 1..b : k \in 1..Cardinality(complete)
    BY <1>4
  <2> QED
    BY <1>3, <2>2, <2>3
<1>8. ASSUME NEW i \in 1..Len(listed'), NEW j \in 1..Len(listed'), i < j,
             NEW r, NEW c, r = listed'[i], c = listed'[j], r.id = c.id
      PROVE  \E t \in r.turns : Split(c, t)
  <2>1. CASE i \in 1..Len(listed) /\ r = listed[i] /\ j \in 1..Len(listed) /\ c = listed[j]
    BY <1>1, <1>2, <1>8, <2>1 DEF ListedOnce, RequestInv
  <2>2. CASE i \in 1..Len(listed) /\ r = listed[i] /\ c \in complete
    BY <1>6, <1>8, <2>2
  <2>3. ASSUME NEW k \in 1..Cardinality(complete), i = Len(listed) + k, r = q[k],
               r \in complete
        PROVE  \E t \in r.turns : Split(c, t)
    <3>1. ~(j \in 1..Len(listed))
      BY <1>4, <1>8, <2>3
    <3>2. PICK l \in 1..Cardinality(complete) :
            j = Len(listed) + l /\ listed'[j] = q[l] /\ q[l] \in complete
      BY <1>7, <3>1
    <3>3. k # l
      BY <1>4, <1>8, <2>3, <3>2
    <3>4. r # c /\ c \in complete
      BY <1>3, <1>8, <2>3, <3>2, <3>3
    <3> QED
      BY <1>5, <1>8, <2>3, <3>4
  <2> QED
    BY <1>7, <1>8, <2>1, <2>2, <2>3
<1> QED
  BY <1>8

LEMMA StepOnce ==
    /\ ArchiveInv /\ RequestInv /\ ReadInv /\ RowsInv /\ CursorInv /\ ListedOnce
    /\ [Next]_vars
    => ListedOnce'
<1> SUFFICES ASSUME ArchiveInv, RequestInv, ReadInv, RowsInv, CursorInv, ListedOnce,
                    [Next]_vars, Exact', wish'.order = "recent"
             PROVE  ListedOnce'
  BY DEF ListedOnce
<1>1. Exact /\ wish' = wish /\ wish.order = "recent"
  BY Lasting
<1>2. \A r, t : Split(r, t)' <=> Split(r, t)
  BY SplitLasts
<1>3. CASE UNCHANGED listed
  BY <1>1, <1>2, <1>3 DEF ListedOnce
<1>4. CASE AnswerPage
  <2>1. \A i, j \in 1..Len(listed') :
            i < j /\ listed'[i].id = listed'[j].id =>
                \E t \in listed'[i].turns : Split(listed'[j], t)
    BY <1>4, OnceStep
  <2>2. DOMAIN listed' = 1..Len(listed')
    BY StepRequest DEF RequestInv
  <2>3. \A s : Held(s)' = Held(s)
    BY Lasting
  <2> QED
    BY <2>1, <2>2, <2>3 DEF ListedOnce, Split
<1>5. ~(AnswerRanked \/ AnswerDetail)
  BY <1>1 DEF AnswerRanked, AnswerDetail, RequestInv
<1>6. (LoadIndex \/ ScanDay \/ Exhaust \/ RangeDay \/ PlanDay \/ DetailDay \/ RebuildIndex
        \/ (\E d \in FirstDay..LastDay : CompactDay(d))
        \/ (\E t \in Arrivals : Arrive(t)) \/ UNCHANGED vars)
        => UNCHANGED listed
  BY DEF LoadIndex, ScanDay, Exhaust, RangeDay, PlanDay, DetailDay, RebuildIndex,
         CompactDay, Arrive, vars, request
<1> QED
  BY <1>3, <1>4, <1>5, <1>6 DEF Next, Serve

\* Following the cursors of SessionsPage, a session comes a second time only with a
\* part of it that an idle day, and an index that knew nothing before it, kept apart
\* from turns listed already: no compaction, no arrival and no older index between
\* two pages moves a listed row past the cursor again (cursor.after and the sort of
\* SessionsPage in page.go).
THEOREM SessionsAreListedOnce == Spec => []ListedOnce
<1>1. Init => ListedOnce
  BY DEF Init, ListedOnce
<1>2. PagesInv /\ ListedOnce /\ [Next]_vars => (PagesInv /\ ListedOnce)'
  BY StepPages, StepOnce DEF PagesInv
<1> QED
  BY <1>1, <1>2, InitPages, PTL DEF Spec

-----------------------------------------------------------------------------
(* OnlyEnclosingMissed.                                                    *)

\* The turn a session ends with, of a session that a request is yet to list.
Lead(t) ==
    /\ t \in turns \ arrived /\ InWindow(t) /\ t.id \in wish.ids
    /\ Of(arrived, t.id) = {} /\ EndOf(t) = End(Held(t.id))
    /\ After([id |-> t.id, ended |-> EndOf(t)])

\* Until the page is cut the scan has that turn before it or holds it; what it still
\* holds then is of a session with a turn of an older day than all rows.
LeadInv ==
    /\ Exact /\ pc = "scan" =>
          \A t \in turns : Lead(t) =>
              t \in pending \/ Day(t.at) <= day \/ \E r \in complete : t \in r.turns
    /\ Exact /\ pc = "page" =>
          \A t \in turns : Lead(t) =>
              \/ \E r \in complete : t \in r.turns
              \/ /\ Cardinality(complete) > Limit
                 /\ \E u \in turns \ arrived :
                       /\ u.id = t.id
                       /\ \A r \in complete : \A x \in r.turns : Day(u.at) < Day(x.at)

\* A session not listed is ahead of the cursor, or behind a row it encloses.
Enclosing(s) ==
    \E i \in 1..Len(listed) :
        /\ Newer([id |-> s, ended |-> End(Held(s))], listed[i])
        /\ Oldest(Of(turns \ arrived, s)) < Oldest(listed[i].turns)

MissInv ==
    Exact /\ wish.order = "recent" =>
        \A s \in wish.ids :
            \/ \E i \in 1..Len(listed) : listed[i].id = s
            \/ Held(s) = {} \/ Of(arrived, s) # {} \/ Enclosing(s)
            \/ pc # "done" /\ After([id |-> s, ended |-> End(Held(s))])

LEMMA HeldTurns ==
    ASSUME ArchiveInv, NEW s
    PROVE  Held(s) \subseteq TurnRecord /\ Held(s) \subseteq turns /\ IsFiniteSet(Held(s))
<1>1. Held(s) \subseteq turns
  BY DEF Held
<1> QED
  BY <1>1, Turns, FS_Subset DEF ArchiveInv

\* A row of its session that has the turn ends with it.
LEMMA LeadEnds ==
    ASSUME ArchiveInv, NEW t, Lead(t), NEW ts \in SUBSET turns, IsFiniteSet(ts), t \in ts,
           \A x \in ts : x.id = t.id /\ InWindow(x)
    PROVE  End(ts) = EndOf(t)
<1>1. ts \subseteq Held(t.id)
  BY DEF Held, Lead, Of
<1>2. ts \in SUBSET TurnRecord /\ Held(t.id) \in SUBSET TurnRecord /\ IsFiniteSet(Held(t.id))
  BY <1>1, HeldTurns
<1>3. /\ End(ts) \in Nat /\ EndOf(t) \in Nat /\ EndOf(t) <= End(ts)
      /\ \E x \in ts : End(ts) = EndOf(x)
  BY <1>2, EndIsLatest
<1>4. \A x \in ts : EndOf(x) <= EndOf(t)
  BY <1>1, <1>2, EndIsLatest DEF Lead
<1> QED
  BY <1>3, <1>4

LEMMA LeadLasts ==
    ASSUME ArchiveInv, [Next]_vars, UNCHANGED cursor
    PROVE  \A t : Lead(t)' => Lead(t)
<1>1. /\ wish' = wish /\ turns' \ arrived' = turns \ arrived /\ arrived \subseteq arrived'
      /\ \A s : Held(s)' = Held(s)
  BY Lasting
<1>2. ASSUME NEW t, Lead(t)' PROVE Lead(t)
  <2>1. Of(arrived, t.id) = {}
    BY <1>1, <1>2 DEF Lead, Of
  <2>2. (End(Held(t.id)) = EndOf(t))' => End(Held(t.id)) = EndOf(t)
    BY <1>1 DEF End, EndOf
  <2>3. EndOf(t) = End(Held(t.id))
    BY <1>2, <2>2 DEF Lead
  <2>4. After([id |-> t.id, ended |-> EndOf(t)])
    BY <1>2 DEF Lead, After, EndOf
  <2>5. t \in turns \ arrived /\ InWindow(t) /\ t.id \in wish.ids
    BY <1>1, <1>2 DEF Lead, InWindow
  <2> QED
    BY <2>1, <2>3, <2>4, <2>5 DEF Lead
<1> QED
  BY <1>2

\* The row of such a session, when it is made of what was read.
LEMMA LeadRow ==
    ASSUME ArchiveInv, RequestInv, NEW read \in SUBSET turns, IsFiniteSet(read),
           \A x \in read : InWindow(x), NEW t \in read, Lead(t),
           NEW ids, t.id \in ids
    PROVE  \E r \in Rows(read, ids) : t \in r.turns
<1> DEFINE r == Row(read, t.id)
<1>1. Of(read, t.id) \subseteq read /\ t \in Of(read, t.id)
      /\ \A x \in Of(read, t.id) : x.id = t.id
  BY DEF Of
<1>2. End(Of(read, t.id)) = EndOf(t)
  <2>1. IsFiniteSet(Of(read, t.id)) /\ Of(read, t.id) \in SUBSET turns
    BY <1>1, FS_Subset
  <2> QED
    BY <1>1, <2>1, LeadEnds
<1>3. r.id = t.id /\ r.turns = Of(read, t.id) /\ r.ended = EndOf(t)
  BY <1>2 DEF Row, End
<1>4. After(r) /\ Match(r)
  <2> HIDE DEF r
  <2> QED
    BY <1>3 DEF Lead, After, Match
<1>5. r \in Rows(read, ids)
  BY <1>4 DEF Rows
<1> QED
  BY <1>1, <1>3, <1>5

LEMMA LeadScan ==
    ASSUME ArchiveInv, RequestInv, ReadInv, ScanInv, LeadInv, ScanDay, Exact', [Next]_vars
    PROVE  LeadInv'
<1> DEFINE read == pending \cup {t \in OnDay(day) : InWindow(t)}
           closed == {s \in Ids(read) : OldestDay(read, s) > day}
<1>1. /\ pc = "scan" /\ day >= FirstDay /\ pending' = {t \in read : t.id \notin closed}
      /\ complete' = complete \cup Rows(read, closed) /\ day' = day - 1
      /\ UNCHANGED <<cursor, turns, arrived>>
      /\ pc' = IF Cardinality(complete') > Limit THEN "page" ELSE "scan"
  BY DEF ScanDay, archive
<1>2. Exact
  BY Lasting
<1>3. \A t : Lead(t)' => Lead(t)
  BY <1>1, LeadLasts
<1>4. day \in FirstDay..LastDay /\ FirstDay \in Nat /\ LastDay \in Nat
  BY <1>1, WindowDays DEF RequestInv
<1>5. /\ read \subseteq turns /\ IsFiniteSet(read)
      /\ \A t \in read : InWindow(t) /\ Day(t.at) >= day /\ Day(t.at) \in Nat
      /\ \A t \in turns : Day(t.at) = day /\ InWindow(t) => t \in read
  BY <1>1, <1>2, ReadDay
<1>6. pending \subseteq read
  OBVIOUS
<1> HIDE DEF read
<1>7. ASSUME NEW s \in Ids(read)
      PROVE  /\ s \in closed <=> day < LastDay /\ Closes(s, known, day)
             /\ s \in closed => \A t \in Of(read, s) : Day(t.at) > day
  BY <1>4, <1>5, ClosesAsRead
<1>8. closed \subseteq Ids(read)
  OBVIOUS
<1> HIDE DEF closed
<1>9. ASSUME NEW t \in turns, Lead(t)
      PROVE  t \in pending' \/ Day(t.at) <= day - 1 \/ \E r \in complete' : t \in r.turns
  <2>1. InWindow(t) /\ Day(t.at) \in Nat
    BY <1>9, Turns DEF Lead, ArchiveInv
  <2>2. CASE \E r \in complete : t \in r.turns
    BY <1>1, <2>2
  <2>3. CASE t \in read
    <3>1. CASE t.id \in closed
      <4>1. \E r \in Rows(read, closed) : t \in r.turns
        BY <1>5, <1>9, <2>3, <3>1, LeadRow
      <4> QED
        BY <1>1, <4>1
    <3> QED
      BY <1>1, <2>3, <3>1
  <2>4. CASE Day(t.at) <= day
    <3>1. Day(t.at) = day \/ Day(t.at) <= day - 1
      BY <1>4, <2>1, <2>4
    <3> QED
      BY <1>5, <2>1, <2>3, <3>1
  <2> QED
    BY <1>1, <1>2, <1>6, <1>9, <2>2, <2>3, <2>4 DEF LeadInv
<1>10. ASSUME NEW r \in complete'
       PROVE  day < LastDay /\ \A x \in r.turns : Day(x.at) > day
  <2>1. CASE r \in complete
    <3>1. PICK d \in day + 1..LastDay - 1 : \A x \in r.turns : Day(x.at) > d
      BY <1>1, <1>2, <2>1 DEF ScanInv
    <3>2. \A x \in r.turns : Day(x.at) \in Nat
      BY <1>2, <2>1, Turns DEF ReadInv, ArchiveInv
    <3> QED
      BY <1>4, <3>1, <3>2
  <2>2. CASE r \in Rows(read, closed)
    <3>1. PICK s \in closed : r = Row(read, s)
      BY <2>2 DEF Rows
    <3>2. r.turns = Of(read, s)
      BY <3>1 DEF Row
    <3> QED
      BY <1>7, <1>8, <3>1, <3>2
  <2> QED
    BY <1>1, <2>1, <2>2
<1>11. ASSUME Cardinality(complete') > Limit, NEW t \in turns, Lead(t)
       PROVE  \/ \E r \in complete' : t \in r.turns
              \/ \E u \in turns \ arrived :
                    u.id = t.id /\ \A r \in complete' : \A x \in r.turns : Day(u.at) < Day(x.at)
  <2>1. \A x \in turns : Day(x.at) \in Nat
    BY Turns DEF ArchiveInv
  <2>2. ASSUME NEW u \in turns \ arrived, Day(u.at) <= day
        PROVE  \A r \in complete' : \A x \in r.turns : Day(u.at) < Day(x.at)
    <3>1. \A r \in complete' : r.turns \subseteq turns
      BY <1>1, <1>2, StepRead DEF ReadInv
    <3> QED
      BY <1>4, <1>10, <2>1, <2>2, <3>1
  <2>3. complete' # {}
    <3>1. Cardinality({}) = 0 /\ Limit \in Nat
      BY FS_EmptySet, PagesAssumption
    <3> QED
      BY <1>11, <3>1
  <2>4. CASE Day(t.at) <= day - 1
    <3>1. Day(t.at) <= day /\ t \in turns \ arrived
      BY <1>4, <1>11, <2>1, <2>4 DEF Lead
    <3> QED
      BY <2>2, <3>1
  <2>5. CASE t \in pending'
    <3>1. t \in read /\ t.id \notin closed /\ t.id \in Ids(read)
      BY <1>1, <2>5 DEF Ids
    <3>2. day < LastDay
      BY <1>10, <2>3
    <3>3. ~Closes(t.id, known, day)
      BY <1>7, <3>1, <3>2
    <3>4. PICK u \in turns \ arrived : u.id = t.id /\ Day(u.at) <= day
      BY <3>3 DEF Closes
    <3> QED
      BY <2>2, <3>4
  <2> QED
    BY <1>9, <1>11, <2>4, <2>5
<1>12. (\A t \in turns : Lead(t) =>
            t \in pending \/ Day(t.at) <= day \/ \E r \in complete : t \in r.turns)'
  BY <1>1, <1>3, <1>9
<1>13. pc' = "page" =>
        (\A t \in turns : Lead(t) =>
              \/ \E r \in complete : t \in r.turns
              \/ /\ Cardinality(complete) > Limit
                 /\ \E u \in turns \ arrived :
                       /\ u.id = t.id
                       /\ \A r \in complete : \A x \in r.turns : Day(u.at) < Day(x.at))'
  BY <1>1, <1>3, <1>11
<1> QED
  BY <1>12, <1>13 DEF LeadInv

LEMMA StepLead ==
    /\ ArchiveInv /\ RequestInv /\ ReadInv /\ ScanInv /\ LeadInv /\ [Next]_vars
    => LeadInv'
<1> SUFFICES ASSUME ArchiveInv, RequestInv, ReadInv, ScanInv, LeadInv, [Next]_vars, Exact'
             PROVE  LeadInv'
  BY DEF LeadInv
<1>1. Exact /\ turns' \ arrived' = turns \ arrived
  BY Lasting
<1>2. CASE pc' \notin {"scan", "page"}
  BY <1>2 DEF LeadInv
<1>3. CASE ScanDay
  BY <1>3, LeadScan
<1>4. CASE Exhaust
  <2>1. /\ pc = "scan" /\ day < FirstDay /\ pc' = "page"
        /\ complete' = complete \cup Rows(pending, Ids(pending))
        /\ UNCHANGED <<cursor, turns, arrived>>
    BY <1>4 DEF Exhaust, archive
  <2>2. \A t : Lead(t)' => Lead(t)
    BY <2>1, LeadLasts
  <2>3. ASSUME NEW t \in turns, Lead(t) PROVE \E r \in complete' : t \in r.turns
    <3>1. CASE \E r \in complete : t \in r.turns
      BY <2>1, <3>1
    <3>2. CASE t \in pending
      <4>1. t.id \in Ids(pending)
        BY <3>2 DEF Ids
      <4>2. \E r \in Rows(pending, Ids(pending)) : t \in r.turns
        BY <1>1, <2>3, <3>2, <4>1, LeadRow DEF RequestInv, ReadInv
      <4> QED
        BY <2>1, <4>2
    <3>3. ~(Day(t.at) <= day)
      <4>1. InWindow(t) /\ t \in TurnRecord
        BY <2>3, Turns DEF Lead, ArchiveInv
      <4>2. Day(t.at) \in FirstDay..LastDay
        BY <4>1, WindowDays
      <4> QED
        BY <2>1, <4>2, WindowDays DEF RequestInv
    <3> QED
      BY <1>1, <2>1, <2>3, <3>1, <3>2, <3>3 DEF LeadInv
  <2> QED
    BY <2>1, <2>2, <2>3 DEF LeadInv
<1>5. CASE LoadIndex
  <2>1. pc' = "scan" => day' = LastDay
    BY <1>5 DEF LoadIndex, Start
  <2>2. pc' # "page" /\ turns' = turns
    BY <1>5 DEF LoadIndex, Start, archive
  <2>3. \A t \in turns : Day(t.at) <= LastDay
    BY Turns DEF ArchiveInv
  <2> QED
    BY <2>1, <2>2, <2>3 DEF LeadInv
<1>6. CASE UNCHANGED <<request, wish, pc>>
  <2>1. UNCHANGED <<cursor, day, pending, complete, pc>>
    BY <1>6 DEF request
  <2>2. \A t : Lead(t)' => Lead(t)
    BY <2>1, LeadLasts
  <2>3. \A t : Lead(t) => t \in turns
    BY DEF Lead
  <2> QED
    BY <1>1, <2>1, <2>2, <2>3 DEF LeadInv
<1>7. (RebuildIndex \/ (\E d \in FirstDay..LastDay : CompactDay(d))
         \/ (\E t \in Arrivals : Arrive(t)) \/ UNCHANGED vars)
         => UNCHANGED <<request, wish, pc>>
  BY DEF RebuildIndex, CompactDay, Arrive, vars
<1>8. (AnswerPage \/ RangeDay \/ AnswerRanked \/ PlanDay \/ DetailDay \/ AnswerDetail)
        => pc' \notin {"scan", "page"}
  BY DEF AnswerPage, RangeDay, AnswerRanked, PlanDay, DetailDay, AnswerDetail
<1> QED
  BY <1>2, <1>3, <1>4, <1>5, <1>6, <1>7, <1>8 DEF Next, Serve

\* What a page cut early leaves behind the cursor encloses its last row.
LEMMA MissPage ==
    ASSUME ArchiveInv, RequestInv, ReadInv, RowsInv, LeadInv, MissInv, AnswerPage,
           [Next]_vars, Exact', NEW s \in wish.ids
    PROVE  \/ \E i \in 1..Len(listed') : listed'[i].id = s
           \/ Held(s) = {} \/ Of(arrived, s) # {}
           \/ \E i \in 1..Len(listed') : \E r :
                 /\ r = listed'[i]
                 /\ Newer([id |-> s, ended |-> End(Held(s))], r)
                 /\ Oldest(Of(turns \ arrived, s)) < Oldest(r.turns)
           \/ /\ pc' # "done"
              /\ \/ End(Held(s)) = cursor'.ended /\ s < cursor'.id
                 \/ End(Held(s)) < cursor'.ended
<1>1. Exact
  BY Lasting
<1>2. pc = "page" /\ wish.order = "recent"
  BY DEF AnswerPage, RequestInv
<1> SUFFICES ASSUME ~ \E i \in 1..Len(listed') : listed'[i].id = s,
                    Held(s) # {}, Of(arrived, s) = {}
             PROVE  \/ \E i \in 1..Len(listed') : \E r :
                          /\ r = listed'[i]
                          /\ Newer([id |-> s, ended |-> End(Held(s))], r)
                          /\ Oldest(Of(turns \ arrived, s)) < Oldest(r.turns)
                    \/ /\ pc' # "done"
                       /\ \/ End(Held(s)) = cursor'.ended /\ s < cursor'.id
                          \/ End(Held(s)) < cursor'.ended
  OBVIOUS
<1>3. PICK q \in Bijection(1..Cardinality(complete), complete),
           b \in 0..Cardinality(complete) :
        /\ \A i, j \in 1..Cardinality(complete) : i < j => ~Newer(q[j], q[i])
        /\ \A i \in 1..Cardinality(complete) : q[i] \in complete
        /\ \A r \in complete : \E i \in 1..Cardinality(complete) : q[i] = r
        /\ Len(listed') = Len(listed) + b
        /\ \A i \in 1..Len(listed) : listed'[i] = listed[i]
        /\ \A i \in 1..b : listed'[Len(listed) + i] = q[i]
        /\ \/ /\ Cardinality(complete) > Limit /\ b = Limit
              /\ cursor' = CursorOf(q[Limit]) /\ pc' = "idle"
           \/ /\ Cardinality(complete) <= Limit /\ b = Cardinality(complete)
              /\ cursor' = NoCursor /\ pc' = "done"
  BY PageAnswered
<1>4. Cardinality(complete) \in Nat /\ b \in Nat /\ b <= Cardinality(complete)
      /\ Len(listed) \in Nat
  <2>1. Cardinality(complete) \in Nat
    BY FS_CardinalityType DEF RequestInv
  <2>2. Len(listed) \in Nat
    BY DEF RequestInv
  <2> QED
    BY <2>1, <2>2
<1>5. \A i \in 1..Len(listed) : i \in 1..Len(listed')
  BY <1>3, <1>4
<1>6. \A k \in 1..b : Len(listed) + k \in 1..Len(listed') /\ k \in 1..Cardinality(complete)
  BY <1>3, <1>4
<1>7. s \in Session /\ s \in Nat
  BY ArchiveAssumption, PagesAssumption DEF RequestInv
<1>8. PICK m \in Held(s) : End(Held(s)) = EndOf(m) /\ EndOf(m) \in Nat
  BY HeldTurns, EndIsLatest
<1>9. m \in turns \ arrived /\ m.id = s /\ InWindow(m)
  BY DEF Held
<1>10. CASE Enclosing(s)
  <2>1. PICK i \in 1..Len(listed) :
          /\ Newer([id |-> s, ended |-> End(Held(s))], listed[i])
          /\ Oldest(Of(turns \ arrived, s)) < Oldest(listed[i].turns)
    BY <1>10 DEF Enclosing
  <2>2. i \in 1..Len(listed') /\ listed'[i] = listed[i]
    BY <1>3, <1>5
  <2> QED
    BY <2>1, <2>2
<1>11. CASE After([id |-> s, ended |-> End(Held(s))])
  <2>1. Lead(m)
    BY <1>8, <1>9, <1>11 DEF Lead
  <2>2. \A r \in complete : ProperRow(r) /\ r.turns \subseteq turns /\ r.turns \subseteq TurnRecord
                            /\ r.ended \in Nat /\ r.id \in Nat
    BY <1>1, PagesAssumption DEF RequestInv, ReadInv, ProperRow, RowType
  <2>3. Cardinality(complete) > Limit =>
          /\ Limit \in 1..b /\ q[Limit] \in complete /\ pc' = "idle" /\ q[Limit].id # s
          /\ cursor'.ended = q[Limit].ended /\ cursor'.id = q[Limit].id
    <3> SUFFICES ASSUME Cardinality(complete) > Limit
                 PROVE  /\ Limit \in 1..b /\ q[Limit] \in complete /\ pc' = "idle"
                        /\ q[Limit].id # s
                        /\ cursor'.ended = q[Limit].ended /\ cursor'.id = q[Limit].id
      OBVIOUS
    <3>1. b = Limit /\ cursor' = CursorOf(q[Limit]) /\ pc' = "idle"
      BY <1>3, <1>4, PagesAssumption
    <3>2. Limit \in 1..b
      BY <3>1, PagesAssumption
    <3>3. q[Limit] \in complete
      BY <1>3, <1>6, <3>2
    <3>4. Milli(q[Limit].ended) = q[Limit].ended
      BY <1>1, <2>2, <3>3, MilliEnd DEF ProperRow
    <3>5. q[Limit].id # s
      BY <1>3, <1>6, <3>2
    <3> QED
      BY <3>1, <3>2, <3>3, <3>4, <3>5 DEF CursorOf
  <2>4. CASE \E r \in complete : m \in r.turns
    <3>1. PICK k \in 1..Cardinality(complete) : m \in q[k].turns
      BY <1>3, <2>4
    <3>2. q[k] \in complete /\ q[k].id = s
      BY <1>3, <1>9, <2>2, <3>1 DEF ProperRow
    <3>3. q[k].ended = EndOf(m)
      <4>1. \A x \in q[k].turns : x.id = m.id /\ InWindow(x)
        BY <1>9, <2>2, <3>2 DEF ProperRow
      <4> QED
        BY <2>1, <2>2, <3>1, <3>2, <4>1, LeadEnds DEF ProperRow
    <3>4. ~(k \in 1..b)
      BY <1>3, <1>6, <3>2
    <3>5. Cardinality(complete) > Limit /\ b = Limit
      BY <1>3, <1>4, <3>4
    <3>6. Limit < k /\ Limit \in 1..Cardinality(complete)
      BY <1>4, <1>6, <2>3, <3>4, <3>5
    <3>7. ~Newer(q[k], q[Limit])
      BY <1>3, <3>6
    <3>8. /\ ~(q[k].ended > q[Limit].ended)
          /\ ~(q[k].ended = q[Limit].ended /\ q[k].id > q[Limit].id)
      BY <3>7 DEF Newer
    <3>9. q[Limit].ended \in Nat /\ q[Limit].id \in Nat /\ q[k].ended \in Nat
      BY <2>2, <2>3, <3>2, <3>5
    <3>10. \/ q[k].ended = q[Limit].ended /\ s < q[Limit].id
           \/ q[k].ended < q[Limit].ended
      <4>1. \A a, c, x, y \in Nat :
               ~(a > c) /\ ~(a = c /\ x > y) /\ x # y => (a = c /\ x < y) \/ a < c
        OBVIOUS
      <4> QED
        BY <1>7, <2>3, <3>2, <3>5, <3>8, <3>9, <4>1
    <3> QED
      BY <1>8, <2>3, <3>3, <3>5, <3>10
  <2>5. ASSUME Cardinality(complete) > Limit,
               NEW u \in turns \ arrived, u.id = s,
               \A r \in complete : \A x \in r.turns : Day(u.at) < Day(x.at)
        PROVE  \/ \E i \in 1..Len(listed') : \E r :
                     /\ r = listed'[i]
                     /\ Newer([id |-> s, ended |-> End(Held(s))], r)
                     /\ Oldest(Of(turns \ arrived, s)) < Oldest(r.turns)
               \/ /\ pc' # "done"
                  /\ \/ End(Held(s)) = cursor'.ended /\ s < cursor'.id
                     \/ End(Held(s)) < cursor'.ended
    <3> DEFINE r == q[Limit]
    <3>1. /\ Limit \in 1..b /\ r \in complete /\ pc' = "idle" /\ r.id # s
          /\ cursor'.ended = r.ended /\ cursor'.id = r.id
          /\ listed'[Len(listed) + Limit] = r /\ Len(listed) + Limit \in 1..Len(listed')
      BY <1>3, <1>6, <2>3, <2>5
    <3> HIDE DEF r
    <3>2. r.ended \in Nat /\ r.id \in Nat /\ ProperRow(r) /\ r.turns \subseteq turns
      BY <2>2, <3>1
    <3>3. \/ Newer([id |-> s, ended |-> End(Held(s))], r)
          \/ End(Held(s)) = r.ended /\ s < r.id
          \/ End(Held(s)) < r.ended
      <4>1. \A a, c, x, y \in Nat :
               x # y => (a > c \/ (a = c /\ x > y)) \/ (a = c /\ x < y) \/ a < c
        OBVIOUS
      <4> QED
        BY <1>7, <1>8, <3>1, <3>2, <4>1 DEF Newer
    <3>4. Oldest(Of(turns \ arrived, s)) < Oldest(r.turns)
      <4> DEFINE A == {Day(x.at) : x \in Of(turns \ arrived, s)}
                 B == {Day(x.at) : x \in r.turns}
      <4>1. \A x \in turns : Day(x.at) \in Nat
        BY Turns DEF ArchiveInv
      <4>2. A \in SUBSET Nat /\ Day(u.at) \in A
        BY <2>5, <4>1 DEF Of
      <4>3. B \in SUBSET Nat /\ B # {} /\ \A y \in B : Day(u.at) < y
        BY <2>5, <3>1, <3>2, <4>1 DEF ProperRow
      <4>4. Oldest(Of(turns \ arrived, s)) = Min(A) /\ Oldest(r.turns) = Min(B)
        BY DEF Oldest
      <4> HIDE DEF A, B
      <4>5. Min(A) \in Nat /\ Min(A) <= Day(u.at)
        BY <4>2, MinIsLeast
      <4>6. Min(B) \in B
        BY <4>3, MinIsLeast
      <4>7. Min(B) \in Nat /\ Day(u.at) \in Nat /\ Day(u.at) < Min(B)
        BY <4>2, <4>3, <4>6
      <4> QED
        BY <4>4, <4>5, <4>7
    <3> QED
      BY <3>1, <3>3, <3>4
  <2> QED
    BY <1>1, <1>2, <1>9, <2>1, <2>4, <2>5 DEF LeadInv
<1> QED
  BY <1>1, <1>2, <1>3, <1>5, <1>10, <1>11 DEF MissInv

LEMMA StepMiss ==
    /\ ArchiveInv /\ RequestInv /\ ReadInv /\ RowsInv /\ LeadInv /\ MissInv /\ [Next]_vars
    => MissInv'
<1> SUFFICES ASSUME ArchiveInv, RequestInv, ReadInv, RowsInv, LeadInv, MissInv,
                    [Next]_vars, Exact', wish'.order = "recent"
             PROVE  MissInv'
  BY DEF MissInv
<1>1. /\ Exact /\ wish' = wish /\ turns' \ arrived' = turns \ arrived
      /\ arrived \subseteq arrived' /\ \A s : Held(s)' = Held(s)
  BY Lasting
<1>2. \A s : Of(arrived, s) # {} => Of(arrived', s) # {}
  BY <1>1 DEF Of
<1>3. ASSUME NEW s PROVE (End(Held(s)))' = End(Held(s)) /\ (Of(turns \ arrived, s))' =
                         Of(turns \ arrived, s)
  BY <1>1 DEF End, Of
<1>4. CASE UNCHANGED <<listed, cursor>> /\ (pc # "done" => pc' # "done")
  <2>1. ASSUME NEW s, Enclosing(s) PROVE Enclosing(s)'
    BY <1>1, <1>3, <1>4, <2>1 DEF Enclosing, Newer, Oldest
  <2>2. ASSUME NEW s, After([id |-> s, ended |-> End(Held(s))])
        PROVE  After([id |-> s, ended |-> End(Held(s))])'
    BY <1>3, <1>4, <2>2 DEF After
  <2>3. ASSUME NEW s \in wish.ids
        PROVE  (\/ \E i \in 1..Len(listed) : listed[i].id = s
                \/ Held(s) = {} \/ Of(arrived, s) # {} \/ Enclosing(s)
                \/ pc # "done" /\ After([id |-> s, ended |-> End(Held(s))]))'
    BY <1>1, <1>2, <1>4, <2>1, <2>2 DEF MissInv
  <2> QED
    BY <1>1, <2>3 DEF MissInv
<1>5. CASE AnswerPage
  <2>1. arrived' = arrived
    BY <1>5 DEF AnswerPage, archive
  <2>2. ASSUME NEW s \in wish.ids
        PROVE  (\/ \E i \in 1..Len(listed) : listed[i].id = s
                \/ Held(s) = {} \/ Of(arrived, s) # {} \/ Enclosing(s)
                \/ pc # "done" /\ After([id |-> s, ended |-> End(Held(s))]))'
    <3>1. CASE \E i \in 1..Len(listed') : \E r :
                 /\ r = listed'[i]
                 /\ Newer([id |-> s, ended |-> End(Held(s))], r)
                 /\ Oldest(Of(turns \ arrived, s)) < Oldest(r.turns)
      <4>1. Enclosing(s)'
        BY <1>3, <3>1 DEF Enclosing, Newer, Oldest
      <4> QED
        BY <4>1
    <3>2. CASE \/ End(Held(s)) = cursor'.ended /\ s < cursor'.id
               \/ End(Held(s)) < cursor'.ended
      <4>1. After([id |-> s, ended |-> End(Held(s))])'
        BY <1>3, <3>2 DEF After
      <4> QED
        BY <1>1, <1>5, <2>1, <3>1, <4>1, MissPage
    <3> QED
      BY <1>1, <1>5, <2>1, <3>1, <3>2, MissPage
  <2> QED
    BY <1>1, <2>2 DEF MissInv
<1>6. ~(AnswerRanked \/ AnswerDetail)
  BY <1>1 DEF AnswerRanked, AnswerDetail, RequestInv
<1>7. (LoadIndex \/ ScanDay \/ Exhaust \/ RangeDay \/ PlanDay \/ DetailDay \/ RebuildIndex
        \/ (\E d \in FirstDay..LastDay : CompactDay(d))
        \/ (\E t \in Arrivals : Arrive(t)) \/ UNCHANGED vars)
        => UNCHANGED <<listed, cursor>> /\ (pc # "done" => pc' # "done")
  BY DEF LoadIndex, Start, ScanDay, Exhaust, RangeDay, PlanDay, DetailDay, RebuildIndex,
         CompactDay, Arrive, vars, request
<1> QED
  BY <1>4, <1>5, <1>6, <1>7 DEF Next, Serve

\* The one session following the cursors of SessionsPage may leave out, of those with
\* turns from before the first request and none since, is one that a listed row, which
\* it ranks before, lies within: it began on an older day than that row's turns, so the
\* scan still held it when it cut the page there (SessionsPage of page.go).
THEOREM OnlyEnclosingAreMissed == Spec => []OnlyEnclosingMissed
<1>1. Init => LeadInv /\ MissInv
  BY DEF Init, NoCursor, LeadInv, MissInv, After
<1>2. /\ PagesInv /\ LeadInv /\ MissInv /\ [Next]_vars
      => (PagesInv /\ LeadInv /\ MissInv)'
  BY StepPages, StepLead, StepMiss DEF PagesInv
<1>3. PagesInv /\ MissInv => OnlyEnclosingMissed
  <2> SUFFICES ASSUME PagesInv, MissInv, Exact, wish.order = "recent", pc = "done",
                      NEW s \in wish.ids \ Ids(ToSet(listed))
               PROVE  \/ Held(s) = {} \/ Of(arrived, s) # {}
                      \/ \E r \in ToSet(listed) :
                            /\ Newer([id |-> s, ended |-> End(Held(s))], r)
                            /\ Oldest(Of(turns \ arrived, s)) < Oldest(r.turns)
    BY DEF OnlyEnclosingMissed
  <2>1. \A i \in 1..Len(listed) : listed[i] \in ToSet(listed)
    BY DEF ToSet, PagesInv, RequestInv
  <2>2. ~ \E i \in 1..Len(listed) : listed[i].id = s
    BY <2>1 DEF Ids
  <2> QED
    BY <2>1, <2>2 DEF MissInv, Enclosing
<1> QED
  BY <1>1, <1>2, <1>3, InitPages, PTL DEF Spec

-----------------------------------------------------------------------------
(* RankedTiles.                                                            *)

\* The sessions SessionsRanked is to list, in the order of their whole rows.
Asked == {s \in wish.ids : Held(s) # {}}
Precedes(a, b) == Ranked(Whole(a), Whole(b))

\* The pages answered are a beginning of that list.
TileInv ==
    Exact /\ arrived = {} /\ wish.order = "turns" =>
        /\ pc # "done" => Len(listed) = offset
        /\ \A i \in 1..Len(listed) : listed[i].id \in Asked
        /\ \A i, j \in 1..Len(listed) : i < j => Precedes(listed[i].id, listed[j].id)
        /\ \A i \in 1..Len(listed), s \in Asked :
              Precedes(listed[i].id, s) \/ \E j \in 1..Len(listed) : listed[j].id = s
        /\ pc = "done" => \A s \in Asked : \E j \in 1..Len(listed) : listed[j].id = s

\* A strict total order.
LEMMA PrecedesOrders ==
    ASSUME ArchiveInv, RequestInv
    PROVE  \A a, b \in Asked : /\ a # b => Precedes(a, b) \/ Precedes(b, a)
                               /\ ~(Precedes(a, b) /\ Precedes(b, a))
                               /\ ~Precedes(a, a)
<1> SUFFICES ASSUME NEW a \in Asked, NEW b \in Asked
             PROVE  /\ a # b => Precedes(a, b) \/ Precedes(b, a)
                    /\ ~(Precedes(a, b) /\ Precedes(b, a))
                    /\ ~Precedes(a, a)
  OBVIOUS
<1>1. \A s \in Asked : /\ s \in Nat /\ Cardinality(Held(s)) \in Nat /\ End(Held(s)) \in Nat
  <2> SUFFICES ASSUME NEW s \in Asked
               PROVE  s \in Nat /\ Cardinality(Held(s)) \in Nat /\ End(Held(s)) \in Nat
    OBVIOUS
  <2>1. s \in wish.ids /\ Held(s) # {}
    BY DEF Asked
  <2>2. s \in Nat
    BY <2>1, ArchiveAssumption, PagesAssumption DEF RequestInv
  <2>3. Held(s) \in SUBSET TurnRecord /\ IsFiniteSet(Held(s))
    BY HeldTurns
  <2> QED
    BY <2>1, <2>2, <2>3, EndIsLatest, FS_CardinalityType
<1> DEFINE ca == Cardinality(Held(a))
           cb == Cardinality(Held(b))
           ea == End(Held(a))
           eb == End(Held(b))
<1>2. Precedes(a, b) <=> ca > cb \/ (ca = cb /\ (ea > eb \/ (ea = eb /\ a > b)))
  BY DEF Precedes, Ranked, Newer, Whole
<1>3. Precedes(b, a) <=> cb > ca \/ (cb = ca /\ (eb > ea \/ (eb = ea /\ b > a)))
  BY DEF Precedes, Ranked, Newer, Whole
<1>4. Precedes(a, a) <=> ca > ca \/ (ca = ca /\ (ea > ea \/ (ea = ea /\ a > a)))
  BY DEF Precedes, Ranked, Newer, Whole
<1>5. ca \in Nat /\ cb \in Nat /\ ea \in Nat /\ eb \in Nat /\ a \in Nat /\ b \in Nat
  BY <1>1
<1> HIDE DEF ca, cb, ea, eb
<1> QED
  BY <1>2, <1>3, <1>4, <1>5

\* Distinct values, counted.
LEMMA ImageSize ==
    ASSUME NEW n \in Nat, NEW T, NEW f, \A i, j \in 1..n : f[i] = f[j] => i = j,
           \A i \in 1..n : f[i] \in T, \A x \in T : \E i \in 1..n : f[i] = x
    PROVE  IsFiniteSet(T) /\ Cardinality(T) = n
<1> DEFINE g == [i \in 1..n |-> f[i]]
<1>1. g \in Surjection(1..n, T)
  BY DEF Surjection
<1>2. g \in Injection(1..n, T)
  BY DEF Injection, IsInjective
<1>3. IsFiniteSet(1..n) /\ Cardinality(1..n) = n
  <2>1. 1 \in Int /\ n \in Int
    OBVIOUS
  <2>2. IsFiniteSet(1..n) /\ Cardinality(1..n) = IF 1 > n THEN 0 ELSE n - 1 + 1
    BY <2>1, FS_Interval
  <2> QED
    BY <2>2
<1> HIDE DEF g
<1>4. IsFiniteSet(T) /\ (Cardinality(T) = Cardinality(1..n) <=> g \in Injection(1..n, T))
  BY <1>1, <1>3, FS_Surjection
<1> QED
  BY <1>2, <1>3, <1>4

\* Two beginnings of one length are one.
LEMMA SameBeginning ==
    ASSUME ArchiveInv, RequestInv, NEW A \in SUBSET Asked, NEW B \in SUBSET Asked,
           IsFiniteSet(A), IsFiniteSet(B), Cardinality(A) = Cardinality(B),
           \A x \in A, y \in Asked : Precedes(x, y) \/ y \in A,
           \A x \in B, y \in Asked : Precedes(x, y) \/ y \in B
    PROVE  A = B
<1>1. CASE A \subseteq B
  BY <1>1, FS_Subset
<1>2. CASE B \subseteq A
  BY <1>2, FS_Subset
<1>3. CASE ~(A \subseteq B) /\ ~(B \subseteq A)
  <2>1. PICK x \in A : x \notin B
    BY <1>3
  <2>2. PICK y \in B : y \notin A
    BY <1>3
  <2>3. Precedes(x, y) /\ Precedes(y, x) /\ x \in Asked /\ y \in Asked
    BY <2>1, <2>2
  <2> QED
    BY <2>3, PrecedesOrders
<1> QED
  BY <1>1, <1>2, <1>3

\* When every day was read and nothing arrived, the rows are the whole ones.
LEMMA RankedRead ==
    ASSUME ArchiveInv, RequestInv, ReadInv, GatherInv, Exact, arrived = {},
           pc = "range", day > LastDay
    PROVE  /\ \A r \in Matched : r.id \in Asked /\ r = Row(pending, r.id)
           /\ \A s \in Asked : \E r \in Matched : r.id = s
           /\ \A r, q \in Matched : Ranked(r, q) <=> Precedes(r.id, q.id)
           /\ \A r, q \in Matched : r.id = q.id => r = q
<1>1. ASSUME NEW s PROVE Of(pending, s) = Held(s)
  <2>1. ASSUME NEW t \in pending, t.id = s PROVE t \in Held(s)
    BY <2>1 DEF RequestInv, ReadInv, Held
  <2>2. ASSUME NEW t \in Held(s) PROVE t \in pending /\ t.id = s
    <3>1. t \in turns \ arrived /\ InWindow(t) /\ t.id = s /\ Day(t.at) \in 0..LastDay
      BY Turns DEF Held, ArchiveInv
    <3>2. Day(t.at) < day
      BY <3>1, WindowDays DEF RequestInv
    <3> QED
      BY <3>1, <3>2 DEF GatherInv
  <2> QED
    BY <2>1, <2>2 DEF Of
<1>2. \A s : s \in Ids(pending) <=> Of(pending, s) # {}
  BY DEF Ids, Of
<1>3. \A r \in Matched : r.id \in Asked /\ r = Row(pending, r.id) /\ r.turns = Held(r.id)
                         /\ r.ended = End(Held(r.id))
  <2> SUFFICES ASSUME NEW r \in Matched
               PROVE  r.id \in Asked /\ r = Row(pending, r.id) /\ r.turns = Held(r.id)
                      /\ r.ended = End(Held(r.id))
    OBVIOUS
  <2>1. /\ ProperRow(r) /\ r.id \in wish.ids /\ r.id \in Ids(pending)
        /\ r = Row(pending, r.id) /\ r.turns = Of(pending, r.id)
    BY MatchedRows
  <2>2. r.turns = Held(r.id) /\ Held(r.id) # {}
    BY <1>1, <1>2, <2>1
  <2>3. r.ended = End(r.turns)
    BY <2>1 DEF ProperRow
  <2> QED
    BY <2>1, <2>2, <2>3 DEF Asked
<1>4. ASSUME NEW s \in Asked PROVE \E r \in Matched : r.id = s
  <2>1. s \in wish.ids /\ s \in Ids(pending)
    BY <1>1, <1>2 DEF Asked
  <2>2. Row(pending, s) \in Matched /\ Row(pending, s).id = s
    BY <2>1, MatchedRows DEF Row
  <2> QED
    BY <2>2
<1>5. ASSUME NEW r \in Matched, NEW q \in Matched PROVE Ranked(r, q) <=> Precedes(r.id, q.id)
  <2>1. /\ r.turns = Held(r.id) /\ r.ended = End(Held(r.id))
        /\ q.turns = Held(q.id) /\ q.ended = End(Held(q.id))
    BY <1>3
  <2> QED
    BY <2>1 DEF Precedes, Ranked, Newer, Whole
<1> QED
  BY <1>3, <1>4, <1>5

\* The rows listed are of as many sessions.
LEMMA ListedDistinct ==
    ASSUME ArchiveInv, RequestInv, TileInv, Exact, arrived = {}, wish.order = "turns"
    PROVE  LET A == {listed[i].id : i \in 1..Len(listed)}
           IN  IsFiniteSet(A) /\ Cardinality(A) = Len(listed) /\ A \subseteq Asked
<1> DEFINE A == {listed[i].id : i \in 1..Len(listed)}
<1>1. \A i \in 1..Len(listed) : listed[i].id \in Asked
  BY DEF TileInv
<1>2. ASSUME NEW i \in 1..Len(listed), NEW j \in 1..Len(listed), listed[i].id = listed[j].id
      PROVE  i = j
  <2>1. i < j => Precedes(listed[i].id, listed[j].id)
    BY DEF TileInv
  <2>2. j < i => Precedes(listed[j].id, listed[i].id)
    BY DEF TileInv
  <2>3. ~Precedes(listed[i].id, listed[i].id)
    BY <1>1, PrecedesOrders
  <2> QED
    BY <1>2, <2>1, <2>2, <2>3
<1> DEFINE f == [i \in 1..Len(listed) |-> listed[i].id]
<1>3. \A i, j \in 1..Len(listed) : f[i] = f[j] => i = j
  BY <1>2
<1>4. /\ \A i \in 1..Len(listed) : f[i] \in A
      /\ \A x \in A : \E i \in 1..Len(listed) : f[i] = x
  OBVIOUS
<1>5. Len(listed) \in Nat
  BY DEF RequestInv
<1>6. A \subseteq Asked
  BY <1>1
<1> HIDE DEF f, A
<1>7. IsFiniteSet(A) /\ Cardinality(A) = Len(listed)
  BY <1>3, <1>4, <1>5, ImageSize
<1> QED
  BY <1>6, <1>7, Zenon DEF A

\* So there are no more of them than rows in all.
LEMMA OffsetWithin ==
    ASSUME ArchiveInv, RequestInv, ReadInv, GatherInv, TileInv, Exact, arrived = {},
           pc = "range", day > LastDay
    PROVE  offset <= Cardinality(Matched)
<1> DEFINE A == {listed[i].id : i \in 1..Len(listed)}
<1>1. Len(listed) = offset /\ wish.order = "turns"
  BY DEF TileInv, RequestInv
<1>2. IsFiniteSet(A) /\ Cardinality(A) = offset /\ A \subseteq Asked
  BY <1>1, ListedDistinct
<1>3. [r \in Matched |-> r.id] \in Surjection(Matched, Asked)
  BY RankedRead DEF Surjection
<1>4. IsFiniteSet(Asked) /\ Cardinality(Asked) <= Cardinality(Matched)
  BY <1>3, MatchedRows, FS_Surjection
<1> HIDE DEF A
<1>5. Cardinality(A) <= Cardinality(Asked)
  BY <1>2, <1>4, FS_Subset
<1>6. Cardinality(Asked) \in Nat /\ Cardinality(Matched) \in Nat /\ offset \in Nat
  BY <1>4, MatchedRows, FS_CardinalityType DEF RequestInv
<1> QED
  BY <1>2, <1>4, <1>5, <1>6

\* The rows a page skips are the rows listed.
LEMMA SkipsListed ==
    ASSUME ArchiveInv, RequestInv, ReadInv, GatherInv, TileInv, Exact, arrived = {},
           pc = "range", day > LastDay, offset <= Cardinality(Matched),
           NEW q, \A i, j \in 1..Cardinality(Matched) : i < j => ~Ranked(q[j], q[i]),
           \A i \in 1..Cardinality(Matched) : q[i] \in Matched,
           \A r \in Matched : \E i \in 1..Cardinality(Matched) : q[i] = r,
           \A i, j \in 1..Cardinality(Matched) : q[i] = q[j] => i = j
    PROVE  /\ \A i, j \in 1..Cardinality(Matched) : i < j => Precedes(q[i].id, q[j].id)
           /\ \A i \in 1..offset : \E j \in 1..Len(listed) : listed[j].id = q[i].id
           /\ \A j \in 1..Len(listed) : \E i \in 1..offset : listed[j].id = q[i].id
<1> DEFINE n == Cardinality(Matched)
           A == {listed[i].id : i \in 1..Len(listed)}
           B == {q[i].id : i \in 1..offset}
<1>1. n \in Nat /\ offset \in Nat
  BY MatchedRows DEF RequestInv
<1>2. Len(listed) = offset /\ wish.order = "turns"
  BY DEF TileInv, RequestInv
<1> HIDE DEF n
<1>3. \A i \in 1..offset : i \in 1..n
  BY <1>1 DEF n
<1>4. ASSUME NEW i \in 1..n, NEW j \in 1..n
      PROVE  /\ q[i] \in Matched /\ q[i].id \in Asked
             /\ q[i].id = q[j].id => i = j
             /\ i < j => Precedes(q[i].id, q[j].id)
  <2>1. q[i] \in Matched /\ q[j] \in Matched
    BY DEF n
  <2>2. q[i].id \in Asked /\ q[j].id \in Asked
    BY <2>1, RankedRead
  <2>3. q[i].id = q[j].id => i = j
    <3>1. q[i].id = q[j].id => q[i] = q[j]
      BY <2>1, RankedRead
    <3> QED
      BY <3>1 DEF n
  <2>4. ASSUME i < j PROVE Precedes(q[i].id, q[j].id)
    <3>1. ~Precedes(q[j].id, q[i].id)
      BY <2>1, <2>4, RankedRead DEF n
    <3>2. i # j
      BY <2>4
    <3> QED
      BY <2>2, <2>3, <3>1, <3>2, PrecedesOrders
  <2> QED
    BY <2>1, <2>2, <2>3, <2>4
<1>5. IsFiniteSet(A) /\ Cardinality(A) = offset /\ A \subseteq Asked
  BY <1>2, ListedDistinct
<1>6. IsFiniteSet(B) /\ Cardinality(B) = offset /\ B \subseteq Asked
  <2> DEFINE f == [i \in 1..offset |-> q[i].id]
  <2>1. \A i, j \in 1..offset : f[i] = f[j] => i = j
    BY <1>3, <1>4
  <2>2. /\ \A i \in 1..offset : f[i] \in B
        /\ \A x \in B : \E i \in 1..offset : f[i] = x
    OBVIOUS
  <2>3. B \subseteq Asked
    BY <1>3, <1>4
  <2> HIDE DEF f, B
  <2>4. IsFiniteSet(B) /\ Cardinality(B) = offset
    BY <1>1, <2>1, <2>2, ImageSize
  <2> QED
    BY <2>3, <2>4
<1>7. ASSUME NEW x \in A, NEW y \in Asked PROVE Precedes(x, y) \/ y \in A
  <2>1. PICK i \in 1..Len(listed) : x = listed[i].id
    OBVIOUS
  <2>2. Precedes(listed[i].id, y) \/ \E j \in 1..Len(listed) : listed[j].id = y
    BY <1>2 DEF TileInv
  <2> QED
    BY <2>1, <2>2
<1>8. ASSUME NEW x \in B, NEW y \in Asked PROVE Precedes(x, y) \/ y \in B
  <2>1. PICK i \in 1..offset : x = q[i].id
    OBVIOUS
  <2>2. PICK r \in Matched : r.id = y
    BY RankedRead
  <2>3. PICK j \in 1..n : q[j] = r
    BY DEF n
  <2>4. j \in 1..offset \/ i < j
    BY <1>1
  <2> QED
    BY <1>3, <1>4, <2>1, <2>2, <2>3, <2>4
<1>9. A = B
  <2> HIDE DEF A, B
  <2> QED
    BY <1>5, <1>6, <1>7, <1>8, SameBeginning
<1>10. \A i \in 1..offset : \E j \in 1..Len(listed) : listed[j].id = q[i].id
  BY <1>9
<1>11. \A j \in 1..Len(listed) : \E i \in 1..offset : listed[j].id = q[i].id
  BY <1>9
<1> QED
  BY <1>4, <1>10, <1>11 DEF n

LEMMA TilePage ==
    ASSUME ArchiveInv, RequestInv, ReadInv, GatherInv, TileInv, AnswerRanked, [Next]_vars,
           Exact', arrived' = {}
    PROVE  /\ pc' # "done" => Len(listed') = offset'
           /\ \A i \in 1..Len(listed') : listed'[i].id \in Asked
           /\ \A i, j \in 1..Len(listed') :
                 i < j => Precedes(listed'[i].id, listed'[j].id)
           /\ \A i \in 1..Len(listed'), s \in Asked :
                 Precedes(listed'[i].id, s) \/ \E j \in 1..Len(listed') : listed'[j].id = s
           /\ pc' = "done" => \A s \in Asked : \E j \in 1..Len(listed') : listed'[j].id = s
<1>1. Exact /\ arrived = {} /\ pc = "range" /\ day > LastDay /\ wish.order = "turns"
  <2>1. pc = "range" /\ day > LastDay /\ arrived' = arrived
    BY DEF AnswerRanked, archive
  <2> QED
    BY <2>1, Lasting DEF RequestInv
<1> DEFINE n == Cardinality(Matched)
<1>2. n \in Nat /\ offset \in Nat /\ offset <= n
  BY <1>1, MatchedRows, OffsetWithin DEF RequestInv
<1>3. /\ Len(listed) = offset
      /\ \A i \in 1..offset : listed[i].id \in Asked
      /\ \A i, j \in 1..offset : i < j => Precedes(listed[i].id, listed[j].id)
      /\ \A i \in 1..offset, s \in Asked :
            Precedes(listed[i].id, s) \/ \E j \in 1..offset : listed[j].id = s
  BY <1>1 DEF TileInv
<1>4. CASE offset >= n
  <2>1. pc' = "done" /\ listed' = listed
    BY <1>2, <1>4, RankedAnswered
  <2> DEFINE A == {listed[i].id : i \in 1..Len(listed)}
  <2>2. IsFiniteSet(A) /\ Cardinality(A) = offset /\ A \subseteq Asked
    BY <1>1, <1>3, ListedDistinct
  <2>3. [r \in Matched |-> r.id] \in Surjection(Matched, Asked)
    BY <1>1, RankedRead DEF Surjection
  <2>4. IsFiniteSet(Asked) /\ Cardinality(Asked) <= n
    BY <2>3, MatchedRows, FS_Surjection
  <2> HIDE DEF A
  <2>5. Cardinality(A) <= Cardinality(Asked) /\ (Cardinality(Asked) = Cardinality(A) => Asked = A)
    BY <2>2, <2>4, FS_Subset
  <2>6. Cardinality(Asked) \in Nat
    BY <2>4, FS_CardinalityType
  <2>7. Asked = A
    BY <1>2, <1>4, <2>2, <2>4, <2>5, <2>6
  <2>8. \A s \in Asked : \E j \in 1..Len(listed) : listed[j].id = s
    BY <2>7 DEF A
  <2> QED
    BY <1>3, <2>1, <2>8
<1>5. ASSUME NEW q \in Bijection(1..n, Matched), NEW end \in 0..n,
             offset < end, offset' = end,
             pc' = IF end < n THEN "idle" ELSE "done",
             \A i, j \in 1..n : i < j => ~Ranked(q[j], q[i]),
             \A i \in 1..n : q[i] \in Matched,
             \A r \in Matched : \E i \in 1..n : q[i] = r,
             \A i, j \in 1..n : q[i] = q[j] => i = j,
             Len(listed') = Len(listed) + (end - offset),
             \A i \in 1..Len(listed) : listed'[i] = listed[i],
             \A i \in 1..(end - offset) : listed'[Len(listed) + i] = q[offset + i]
      PROVE  /\ pc' # "done" => Len(listed') = offset'
             /\ \A i \in 1..Len(listed') : listed'[i].id \in Asked
             /\ \A i, j \in 1..Len(listed') :
                   i < j => Precedes(listed'[i].id, listed'[j].id)
             /\ \A i \in 1..Len(listed'), s \in Asked :
                   Precedes(listed'[i].id, s) \/ \E j \in 1..Len(listed') : listed'[j].id = s
             /\ pc' = "done" =>
                   \A s \in Asked : \E j \in 1..Len(listed') : listed'[j].id = s
  <2>1. /\ \A i, j \in 1..n : i < j => Precedes(q[i].id, q[j].id)
        /\ \A i \in 1..offset : \E j \in 1..Len(listed) : listed[j].id = q[i].id
        /\ \A j \in 1..Len(listed) : \E i \in 1..offset : listed[j].id = q[i].id
    BY <1>1, <1>2, <1>5, SkipsListed
  <2>2. /\ \A i \in 1..n : q[i].id \in Asked
        /\ \A s \in Asked : \E i \in 1..n : q[i].id = s
    BY <1>1, <1>5, RankedRead
  <2> HIDE DEF n
  <2>3. end \in Nat /\ end <= n /\ Len(listed') = end
    BY <1>2, <1>3, <1>5
  <2>4. \A i \in 1..offset : listed'[i] = listed[i] /\ i \in 1..end /\ i \in 1..n
    BY <1>2, <1>3, <1>5, <2>3
  <2>5. ASSUME NEW i \in 1..end, i > offset PROVE listed'[i] = q[i] /\ i \in 1..n
    <3> DEFINE k == i - offset
    <3>1. k \in 1..(end - offset) /\ offset + k = i
      BY <1>2, <2>3, <2>5
    <3>2. listed'[Len(listed) + k] = q[offset + k]
      BY <1>5, <3>1
    <3> QED
      BY <1>2, <1>3, <2>3, <3>1, <3>2
  <2>6. ASSUME NEW i \in 1..end PROVE i \in 1..offset \/ i > offset
    BY <1>2, <2>3
  <2>7. ASSUME NEW i \in 1..end
        PROVE  \E l \in 1..n : listed'[i].id = q[l].id /\ (l <= offset \/ l = i)
    <3>1. CASE i \in 1..offset
      <4>1. PICK l \in 1..offset : listed[i].id = q[l].id
        BY <1>3, <2>1, <3>1
      <4>2. l \in 1..n /\ l <= offset
        BY <1>2, <2>4, <4>1
      <4>3. listed'[i].id = q[l].id
        BY <2>4, <3>1, <4>1
      <4> QED
        BY <4>2, <4>3
    <3>2. CASE i > offset
      BY <2>5, <3>2
    <3> QED
      BY <2>6, <3>1, <3>2
  <2>8. ASSUME NEW i \in 1..end, NEW l \in 1..n, l > offset, i < l
        PROVE  Precedes(listed'[i].id, q[l].id)
    <3>1. PICK m \in 1..n : listed'[i].id = q[m].id /\ (m <= offset \/ m = i)
      BY <2>7
    <3>2. m < l
      BY <1>2, <2>3, <2>8, <3>1
    <3> QED
      BY <2>1, <3>1, <3>2
  <2>9. ASSUME NEW l \in 1..n, l <= end
        PROVE  \E j \in 1..end : listed'[j].id = q[l].id
    <3>1. CASE l <= offset
      <4>1. l \in 1..offset
        BY <1>2, <3>1
      <4>2. PICK j \in 1..offset : listed[j].id = q[l].id
        BY <1>3, <2>1, <4>1
      <4> QED
        BY <2>4, <4>2
    <3>2. CASE l > offset
      BY <2>3, <2>5, <2>9, <3>2
    <3> QED
      BY <1>2, <3>1, <3>2
  <2>10. \A i \in 1..end : listed'[i].id \in Asked
    BY <2>2, <2>7
  <2>11. ASSUME NEW i \in 1..end, NEW j \in 1..end, i < j
         PROVE  Precedes(listed'[i].id, listed'[j].id)
    <3>1. CASE j > offset
      BY <2>5, <2>8, <2>11, <3>1
    <3>2. CASE j \in 1..offset
      <4>1. i \in 1..offset
        BY <1>2, <2>11, <3>2
      <4> QED
        BY <1>3, <2>4, <2>11, <3>2, <4>1
    <3> QED
      BY <2>6, <3>1, <3>2
  <2>12. ASSUME NEW i \in 1..end, NEW s \in Asked
         PROVE  Precedes(listed'[i].id, s) \/ \E j \in 1..end : listed'[j].id = s
    <3>1. PICK l \in 1..n : q[l].id = s
      BY <2>2
    <3>2. CASE l <= end
      BY <2>9, <3>1, <3>2
    <3>3. CASE l > end
      <4>1. l > offset /\ i < l
        BY <1>2, <1>5, <2>3, <3>3
      <4> QED
        BY <2>8, <3>1, <4>1
    <3> QED
      BY <2>3, <3>1, <3>2, <3>3
  <2>13. ASSUME pc' = "done", NEW s \in Asked PROVE \E j \in 1..end : listed'[j].id = s
    <3>1. ~(end < n)
      BY <1>5, <2>13
    <3>2. PICK l \in 1..n : q[l].id = s
      BY <2>2
    <3>3. l <= end
      BY <1>2, <2>3, <3>1
    <3> QED
      BY <2>9, <3>2, <3>3
  <2> QED
    BY <1>5, <2>3, <2>10, <2>11, <2>12, <2>13
<1> QED
  BY <1>4, <1>5, RankedAnswered

LEMMA StepTile ==
    ArchiveInv /\ RequestInv /\ ReadInv /\ GatherInv /\ TileInv /\ [Next]_vars => TileInv'
<1> SUFFICES ASSUME ArchiveInv, RequestInv, ReadInv, GatherInv, TileInv, [Next]_vars,
                    Exact', arrived' = {}, wish'.order = "turns"
             PROVE  TileInv'
  BY DEF TileInv
<1>1. Exact /\ wish' = wish /\ arrived = {} /\ \A s : Held(s)' = Held(s)
  BY Lasting
<1>2. Asked' = Asked /\ \A a, b : Precedes(a, b)' <=> Precedes(a, b)
  <2>1. Asked' = Asked
    BY <1>1 DEF Asked
  <2>2. ASSUME NEW a, NEW b PROVE Precedes(a, b)' <=> Precedes(a, b)
    BY <1>1 DEF Precedes, Ranked, Newer, Whole, End
  <2> QED
    BY <2>1, <2>2
<1>3. CASE UNCHANGED <<listed, offset>> /\ (pc # "done" <=> pc' # "done")
  BY <1>1, <1>2, <1>3 DEF TileInv
<1>4. CASE AnswerRanked
  <2>1. ASSUME NEW i \in 1..Len(listed'), NEW j \in 1..Len(listed'), i < j,
               NEW a, NEW b, a = listed'[i].id, b = listed'[j].id
        PROVE  Precedes(a, b)'
    BY <1>2, <1>4, <2>1, TilePage
  <2>2. ASSUME NEW i \in 1..Len(listed'), NEW s \in Asked, NEW a, a = listed'[i].id
        PROVE  Precedes(a, s)' \/ \E j \in 1..Len(listed') : listed'[j].id = s
    BY <1>2, <1>4, <2>2, TilePage
  <2>3. /\ pc' # "done" => Len(listed') = offset'
        /\ \A i \in 1..Len(listed') : listed'[i].id \in Asked
        /\ pc' = "done" => \A s \in Asked : \E j \in 1..Len(listed') : listed'[j].id = s
    BY <1>4, TilePage
  <2>4. (\A i, j \in 1..Len(listed) : i < j =>
            \A a, b : a = listed[i].id /\ b = listed[j].id => Precedes(a, b))'
    BY <2>1
  <2>5. (\A i \in 1..Len(listed), s \in Asked :
            \A a : a = listed[i].id =>
                Precedes(a, s) \/ \E j \in 1..Len(listed) : listed[j].id = s)'
    BY <1>2, <2>2
  <2> QED
    BY <1>2, <2>3, <2>4, <2>5 DEF TileInv
<1>5. ~(AnswerPage \/ AnswerDetail)
  BY <1>1 DEF AnswerPage, AnswerDetail, RequestInv
<1>6. (LoadIndex \/ ScanDay \/ Exhaust \/ RangeDay \/ PlanDay \/ DetailDay \/ RebuildIndex
        \/ (\E d \in FirstDay..LastDay : CompactDay(d))
        \/ (\E t \in Arrivals : Arrive(t)) \/ UNCHANGED vars)
        => UNCHANGED <<listed, offset>> /\ (pc # "done" <=> pc' # "done")
  BY DEF LoadIndex, Start, ScanDay, Exhaust, RangeDay, PlanDay, DetailDay, RebuildIndex,
         CompactDay, Arrive, vars, request
<1> QED
  BY <1>3, <1>4, <1>5, <1>6 DEF Next, Serve

\* The pages of SessionsRanked tile the ranked list: each begins where the one before
\* ended and none is listed twice or passed over, although each is cut from a list of
\* its own, from days that may have been compacted in between (SessionsRanked of
\* sort.go).
THEOREM RankedPagesTile == Spec => []RankedTiles
<1>1. Init => TileInv
  BY DEF Init, TileInv
<1>2. PagesInv /\ TileInv /\ [Next]_vars => (PagesInv /\ TileInv)'
  BY StepPages, StepTile DEF PagesInv
<1>3. PagesInv /\ TileInv => RankedTiles
  <2> SUFFICES ASSUME PagesInv, TileInv, Exact, arrived = {}, wish.order = "turns"
               PROVE  RankedTiles
    BY DEF RankedTiles
  <2>1. DOMAIN listed = 1..Len(listed)
    BY DEF PagesInv, RequestInv
  <2>2. \A s : (\E j \in 1..Len(listed) : listed[j].id = s) => s \in Ids(ToSet(listed))
    BY DEF Ids, ToSet, PagesInv, RequestInv
  <2>3. /\ \A i \in 1..Len(listed) : listed[i].id \in Asked
        /\ \A i, j \in 1..Len(listed) : i < j => Precedes(listed[i].id, listed[j].id)
        /\ \A i \in 1..Len(listed), s \in Asked :
              Precedes(listed[i].id, s) \/ \E j \in 1..Len(listed) : listed[j].id = s
        /\ pc = "done" => \A s \in Asked : \E j \in 1..Len(listed) : listed[j].id = s
    BY DEF TileInv
  <2> QED
    BY <2>1, <2>2, <2>3 DEF RankedTiles, Asked, Precedes
<1> QED
  BY <1>1, <1>2, <1>3, InitPages, PTL DEF Spec

=============================================================================
