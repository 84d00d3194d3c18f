-------------------------- MODULE PaginationProofs --------------------------
(***************************************************************************)
(* Facts about the window of a page, for every width of integer.           *)
(***************************************************************************)
EXTENDS Pagination, TLAPS

\* Offsets and limits that came as integers are turned into some that are not
\* negative and still integers.
LEMMA Normalised ==
  ASSUME NEW offset \in Ints, NEW limit \in Ints
  PROVE  Offset(offset) \in 0..MaxInt /\ Limit(limit) \in 1..MaxInt
BY PaginationAssumption DEF Ints, Offset, Limit

\* A page's slice expression (SortAndPaginate) is in bounds exactly when the sum
\* of its offset and limit is an integer, whatever was listed: an offset that
\* deletions have left past the end gives an empty page, never a panic.
THEOREM InBoundsUnlessOverflow ==
  ASSUME NEW offset \in Ints, NEW limit \in Ints, NEW total \in Nat
  PROVE  InBounds(offset, limit, total) <=> Offset(offset) + Limit(limit) <= MaxInt
<1> DEFINE o == Offset(offset)
           l == Limit(limit)
<1>1. o \in 0..MaxInt /\ l \in 1..MaxInt
  BY Normalised
<1>2. MaxInt \in Nat
  BY PaginationAssumption
<1> HIDE DEF o, l
<1>3. CASE o + l <= MaxInt
  <2>1. Wrap(o + l) = o + l
    BY <1>1, <1>2, <1>3 DEF Wrap
  <2>2. /\ 0 <= Lesser(o, total) /\ Lesser(o, total) <= Lesser(o + l, total)
        /\ Lesser(o + l, total) <= total
    BY <1>1, <1>2 DEF Lesser
  <2>. QED
    BY <2>1, <2>2, <1>3 DEF InBounds, Start, End, o, l
<1>4. CASE ~(o + l <= MaxInt)
  <2>1. Wrap(o + l) < 0
    BY <1>1, <1>2, <1>4 DEF Wrap
  <2>2. Lesser(Wrap(o + l), total) < 0 /\ 0 <= Lesser(o, total)
    BY <1>1, <1>2, <2>1 DEF Lesser, Wrap
  <2>3. ~(Lesser(o, total) <= Lesser(Wrap(o + l), total))
    BY <1>1, <1>2, <2>2 DEF Lesser, Wrap
  <2>. QED
    BY <2>3, <1>4 DEF InBounds, Start, End, o, l
<1>. QED
  BY <1>3, <1>4 DEF o, l

\* The offset that a page's note tells the agent (BuildNote) continues where the
\* page ended and is larger than the last one: as long as the list does not
\* change, the pages are consecutive and their walk ends.
THEOREM NextPageFollows ==
  ASSUME NEW offset \in Ints, NEW limit \in Ints, NEW total \in Nat,
         InBounds(offset, limit, total), HasMore(offset, limit, total)
  PROVE  /\ NextOffset(offset, limit) \in Ints
         /\ NextOffset(offset, limit) > Offset(offset)
         /\ Start(NextOffset(offset, limit), total) = End(offset, limit, total)
<1> DEFINE o == Offset(offset)
           l == Limit(limit)
<1>1. o \in 0..MaxInt /\ l \in 1..MaxInt
  BY Normalised
<1>2. MaxInt \in Nat
  BY PaginationAssumption
<1>3. o + l <= MaxInt
  BY InBoundsUnlessOverflow
<1> HIDE DEF o, l
<1>4. Wrap(o + l) = o + l
  BY <1>1, <1>2, <1>3 DEF Wrap
<1>5. o + l \in Ints /\ o + l > o /\ ~(o + l < 0)
  BY <1>1, <1>2, <1>3 DEF Ints
<1>6. NextOffset(offset, limit) = o + l /\ End(offset, limit, total) = Lesser(o + l, total)
  BY <1>4 DEF NextOffset, End, o, l
<1>7. Start(o + l, total) = Lesser(o + l, total)
  BY <1>5 DEF Start, Offset
<1>. QED
  BY <1>5, <1>6, <1>7 DEF o

\* A page holds at most Limit objects, and no fewer while there are more.
THEOREM PageSize ==
  ASSUME NEW offset \in Ints, NEW limit \in Ints, NEW total \in Nat,
         InBounds(offset, limit, total)
  PROVE  /\ End(offset, limit, total) - Start(offset, total) <= Limit(limit)
         /\ HasMore(offset, limit, total)
              => End(offset, limit, total) - Start(offset, total) = Limit(limit)
<1> DEFINE o == Offset(offset)
           l == Limit(limit)
<1>1. o \in 0..MaxInt /\ l \in 1..MaxInt
  BY Normalised
<1>2. MaxInt \in Nat
  BY PaginationAssumption
<1>3. o + l <= MaxInt
  BY InBoundsUnlessOverflow
<1> HIDE DEF o, l
<1>4. Wrap(o + l) = o + l
  BY <1>1, <1>2, <1>3 DEF Wrap
<1>5. /\ Lesser(o + l, total) - Lesser(o, total) <= l
      /\ o + l < total => Lesser(o + l, total) - Lesser(o, total) = l
  BY <1>1, <1>2 DEF Lesser
<1>. QED
  BY <1>4, <1>5 DEF Start, End, HasMore, o, l

=============================================================================
