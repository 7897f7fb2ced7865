--------------------------- MODULE MCSessionPages ---------------------------
(***************************************************************************)
(* Instances of SessionPages for TLC: days of two milliseconds of two      *)
(* ticks; each session has one of a few shapes.                            *)
(***************************************************************************)
EXTENDS SessionPages

\* The turns of session s that start at the given ticks and last ms.
Shape(s, starts, ms) == {[id |-> s, at |-> a, ms |-> ms] : a \in starts}

\* Sessions of one day, over midnight, resumed after one or two idle days, or of
\* one long turn; one starts within a millisecond and before the window.
MCHistories ==
    {a \cup b \cup c :
        a \in {Shape(1, {2, 10}, 0), Shape(1, {6}, 4), Shape(1, {0, 9}, 0),
               Shape(1, {2, 14}, 0), Shape(1, {0, 14}, 0)},
        b \in {Shape(2, {8}, 0), Shape(2, {6, 8}, 1), Shape(2, {4, 12}, 0)},
        c \in {Shape(3, {10}, 0), Shape(3, {2, 10}, 0), Shape(3, {6, 8}, 0)}}

MCArrivals == Shape(2, {14}, 0)

MCSwept == {{}, {0, 1}}

\* Two filters for the recent order, and the detail of two sessions.
MCWishes ==
    {[order |-> "recent", ids |-> {1, 2, 3}], [order |-> "recent", ids |-> {1, 3}],
     [order |-> "turns", ids |-> {1, 2, 3}], [order |-> "detail", ids |-> {1}],
     [order |-> "detail", ids |-> {3}]}
=============================================================================
