----------------------------- MODULE Pagination -----------------------------
(***************************************************************************)
(* pkg/utils/pagination.go: the window of a sorted list that an offset and *)
(* a limit stand for, on signed integers that wrap at MaxInt.              *)
(***************************************************************************)
EXTENDS Integers

CONSTANTS
  MaxInt,       \* the largest int64
  DefaultLimit  \* the limit of a list that was given none

ASSUME PaginationAssumption == MaxInt \in Nat /\ DefaultLimit \in 1..MaxInt

Ints == -(MaxInt + 1)..MaxInt

\* The sum of two integers that are not negative.
Wrap(x) == IF x > MaxInt THEN x - 2 * (MaxInt + 1) ELSE x

Lesser(a, b) == IF a <= b THEN a ELSE b

Limit(limit) == IF limit <= 0 THEN DefaultLimit ELSE limit
Offset(offset) == IF offset < 0 THEN 0 ELSE offset

\* (Defect: the next page leaves one out.)
NextOffsetPast(offset, limit) == Wrap(Offset(offset) + Limit(limit) + 1)
\* Where the note of a page says that the next one starts.
NextOffset(offset, limit) == Wrap(Offset(offset) + Limit(limit))

\* (Defect: an offset past the end is not clipped.)
StartUnclipped(offset, total) == Offset(offset)
\* The page is what lies from Start up to, not including, End.
Start(offset, total) == Lesser(Offset(offset), total)

End(offset, limit, total) == Lesser(Wrap(Offset(offset) + Limit(limit)), total)

HasMore(offset, limit, total) == Wrap(Offset(offset) + Limit(limit)) < total

\* Otherwise the slice expression panics.
InBounds(offset, limit, total) ==
  /\ 0 <= Start(offset, total)
  /\ Start(offset, total) <= End(offset, limit, total)
  /\ End(offset, limit, total) <= total

=============================================================================
