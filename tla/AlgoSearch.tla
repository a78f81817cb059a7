------------------------------- MODULE AlgoSearch -------------------------------
(* The algorithms of src/MySTL/MySTL/algo.h that only read their ranges.         *)
EXTENDS AlgoBase

all_of(m, first, last, S)  == \A i \in Cells(first, last) : m[i] \in S
any_of(m, first, last, S)  == \E i \in Cells(first, last) : m[i] \in S
none_of(m, first, last, S) == \A i \in Cells(first, last) : m[i] \notin S

\* count, count_if; find, find_if: equality to one value is the predicate {value}.
count_if(m, first, last, S) == Cardinality({i \in Cells(first, last) : m[i] \in S})
find_if(m, first, last, S)     == FirstOf({i \in Cells(first, last) : m[i] \in S}, last)
find_if_not(m, first, last, S) == FirstOf({i \in Cells(first, last) : m[i] \notin S}, last)

RECURSIVE SearchFrom(_, _, _, _, _, _, _)
\* Mutant: after a mismatch the search goes on behind the cells that matched.
SearchSkipping(m, first1, last1, first2, last2, done, eq) ==
    IF done = last2 - first2 THEN first1
    ELSE IF <<m[first1 + done], m[first2 + done]>> \in eq
    THEN SearchFrom(m, first1, last1, first2, last2, done + 1, eq)
    ELSE IF last1 - (first1 + done) <= last2 - first2 THEN last1
    ELSE SearchFrom(m, first1 + done + 1, last1, first2, last2, 0, eq)

\* The loop of search: done symbols of the second range match at first1.
SearchFrom(m, first1, last1, first2, last2, done, eq) ==
    IF done = last2 - first2 THEN first1
    ELSE IF <<m[first1 + done], m[first2 + done]>> \in eq
    THEN SearchFrom(m, first1, last1, first2, last2, done + 1, eq)
    ELSE IF last1 - first1 = last2 - first2 THEN last1
    ELSE SearchFrom(m, first1 + 1, last1, first2, last2, 0, eq)

search(m, first1, last1, first2, last2, eq) ==
    IF last1 - first1 < last2 - first2 THEN last1
    ELSE SearchFrom(m, first1, last1, first2, last2, 0, eq)

RECURSIVE search_n(_, _, _, _, _)
\* A run of n values in S; after a shorter one the search goes on behind it.
search_n(m, first, last, n, S) ==
    LET i   == find_if(m, first, last, S)
        end == find_if_not(m, i + 1, IF i + n < last THEN i + n ELSE last, S)
    IN  IF n <= 0 THEN first
        ELSE IF i = last THEN last
        ELSE IF end - i = n THEN i
        ELSE search_n(m, end, last, n, S)

RECURSIVE FindEndForward(_, _, _, _, _, _, _)
\* find_end for forward iterators: search again behind every match.
FindEndForward(m, first1, last1, first2, last2, result, eq) ==
    LET new_result == search(m, first1, last1, first2, last2, eq)
    IN  IF first2 = last2 THEN last1
        ELSE IF new_result = last1 THEN result
        ELSE FindEndForward(m, new_result + 1, last1, first2, last2, new_result, eq)

\* The memory seen through reverse_iterators: that at base i reads cell i - 1.
Reversed(m) == [i \in DOMAIN m |-> m[Cardinality(DOMAIN m) - 1 - i]]
Base(m, r)  == Cardinality(DOMAIN m) - r

\* find_end for bidirectional iterators: one search from the end.
FindEndBackward(m, first1, last1, first2, last2, eq) ==
    LET rresult == search(Reversed(m), Base(m, last1), Base(m, first1),
                                       Base(m, last2), Base(m, first2), eq)
    IN  IF rresult = Base(m, first1) THEN last1 ELSE Base(m, rresult) - (last2 - first2)

find_first_of(m, first1, last1, first2, last2, eq) ==
    FirstOf({i \in Cells(first1, last1) :
               \E j \in Cells(first2, last2) : <<m[i], m[j]>> \in eq}, last1)

adjacent_find(m, first, last, eq) ==
    FirstOf({i \in Cells(first, last - 1) : <<m[i], m[i + 1]>> \in eq}, last)

RECURSIVE LowerIn(_, _, _, _, _), UpperIn(_, _, _, _, _)
\* lbound_dispatch and ubound_dispatch: halve the len cells from first on.
LowerIn(m, first, len, x, comp) ==
    LET half == len \div 2
    IN  IF len = 0 THEN first
        ELSE IF <<m[first + half], x>> \in comp
             THEN LowerIn(m, first + half + 1, len - half - 1, x, comp)
             ELSE LowerIn(m, first, half, x, comp)
UpperIn(m, first, len, x, comp) ==
    LET half == len \div 2
    IN  IF len = 0 THEN first
        ELSE IF <<x, m[first + half]>> \in comp
             THEN UpperIn(m, first, half, x, comp)
             ELSE UpperIn(m, first + half + 1, len - half - 1, x, comp)

lower_bound(m, first, last, x, comp) == LowerIn(m, first, last - first, x, comp)
upper_bound(m, first, last, x, comp) == UpperIn(m, first, last - first, x, comp)

\* binary_search looks for the bound with operator< in both overloads.
binary_search(m, first, last, x, comp, less) ==
    LET i == lower_bound(m, first, last, x, less)
    IN  i # last /\ <<x, m[i]>> \notin comp

RECURSIVE RangeIn(_, _, _, _, _, _)
\* erange_dispatch: an absent value gives the empty range at last.  The forward overload
\* looks for the lower bound up to last, where it finds the same.
RangeIn(m, first, len, last, x, comp) ==
    LET half   == len \div 2
        middle == first + half
    IN  IF len = 0 THEN <<last, last>>
        ELSE IF <<m[middle], x>> \in comp
             THEN RangeIn(m, middle + 1, len - half - 1, last, x, comp)
        ELSE IF <<x, m[middle]>> \in comp THEN RangeIn(m, first, half, last, x, comp)
        ELSE <<lower_bound(m, first, middle, x, comp),
               upper_bound(m, middle + 1, first + len, x, comp)>>

equal_range(m, first, last, x, comp) == RangeIn(m, first, last - first, last, x, comp)

RECURSIVE includes(_, _, _, _, _, _)
includes(m, first1, last1, first2, last2, comp) ==
    IF first1 = last1 \/ first2 = last2 THEN first2 = last2
    ELSE /\ <<m[first2], m[first1]>> \notin comp
         /\ includes(m, first1 + 1, last1,
                     IF <<m[first1], m[first2]>> \in comp THEN first2 ELSE first2 + 1,
                     last2, comp)

\* is_heap walks the children and moves the parent on after every even one.
is_heap(m, first, last, comp) ==
    \A child \in 1 .. last - first - 1 :
        <<m[first + (child - 1) \div 2], m[first + child]>> \notin comp

is_sorted(m, first, last, comp) ==
    \A i \in Cells(first, last - 1) : <<m[i + 1], m[i]>> \notin comp

\* median returns a reference: the position of the middle one of three cells.
median(m, left, mid, right, comp) ==
    LET Before(i, j) == <<m[i], m[j]>> \in comp
    IN  IF Before(left, mid)
        THEN IF Before(mid, right) THEN mid ELSE IF Before(left, right) THEN right ELSE left
        ELSE IF Before(left, right) THEN left ELSE IF Before(mid, right) THEN right ELSE mid

\* The first of the largest, and of the smallest.
max_element(m, first, last, comp) ==
    FoldLeft(LAMBDA best, i : IF <<m[best], m[i]>> \in comp THEN i ELSE best,
             first, Up(first + 1, last))
min_elememt(m, first, last, comp) ==
    FoldLeft(LAMBDA best, i : IF <<m[i], m[best]>> \in comp THEN i ELSE best,
             first, Up(first + 1, last))

\* is_permutation drops the common prefix and counts every value of the rest once; the
\* lengths are compared first for random access iterators, and then anyway.
is_permutation(m, first1, last1, first2, last2, eq) ==
    LET n  == mismatch(m, first1, last1, first2, eq)[1] - first1
        f1 == first1 + n
        f2 == first2 + n
        Rest1(i) == {j \in Cells(f1, last1) : <<m[i], m[j]>> \in eq}
        Rest2(i) == {j \in Cells(f2, last2) : <<m[i], m[j]>> \in eq}
    IN  /\ last1 - first1 = last2 - first2
        /\ \A i \in Cells(f1, last1) : Cardinality(Rest1(i)) = Cardinality(Rest2(i))
=============================================================================
