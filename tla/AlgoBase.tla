-------------------------------- MODULE AlgoBase --------------------------------
(* src/MySTL/MySTL/algo_base.h: the algorithms the others are built on.          *)
(*                                                                               *)
(* Memory is a function m from positions 0 .. n - 1 to values, an iterator is a  *)
(* position, and a range runs from first up to, not including, last; two ranges  *)
(* of one call lie in the same memory.  An algorithm that writes returns the     *)
(* memory after the call, one that also returns an iterator a pair of both.  A   *)
(* comparison is the set of pairs it is true of, a predicate the set of values,  *)
(* so that one definition stands for the overload with operator< or == and for   *)
(* the one with comp where the two do the same.                                  *)
EXTENDS Integers, Sequences, FiniteSets, SequencesExt, FiniteSetsExt

\* The positions of a range in a loop's order.
Up(first, last)   == [i \in 1 .. last - first |-> first + i - 1]
Down(first, last) == [i \in 1 .. last - first |-> last - i]
Cells(first, last) == first .. last - 1

\* The first position of S, if it has one, else last.
FirstOf(S, last) == IF S = {} THEN last ELSE Min(S)

\* The two overloads of max agree; those of min do not: min with a comparison tests
\* it as max does, and returns the larger value.
max(lhs, rhs, comp)      == IF <<lhs, rhs>> \in comp THEN rhs ELSE lhs
min(lhs, rhs, less)      == IF <<rhs, lhs>> \in less THEN rhs ELSE lhs
min_comp(lhs, rhs, comp) == IF <<lhs, rhs>> \in comp THEN rhs ELSE lhs

iter_swap(m, lhs, rhs) == [m EXCEPT ![lhs] = m[rhs], ![rhs] = m[lhs]]

\* std::memmove
memmove(m, first, last, result) ==
    [i \in DOMAIN m |-> IF i \in Cells(result, result + last - first)
                        THEN m[first + i - result] ELSE m[i]]

\* The overloads of copy for iterators that are not pointers to trivial values; those
\* for pointers are memmove.
unchecked_copy_cat(m, first, last, result) ==
    FoldLeft(LAMBDA a, i : [a EXCEPT ![result + i - first] = a[i]], m, Up(first, last))

\* copy: memory and end of the result.
copy(m, first, last, result) == <<memmove(m, first, last, result), result + last - first>>

unchecked_copy_backward_cat(m, first, last, result) ==
    FoldLeft(LAMBDA a, i : [a EXCEPT ![result - (last - i)] = a[i]], m, Down(first, last))

\* copy_backward: result is the end of the result; its start is returned.
copy_backward(m, first, last, result) ==
    <<memmove(m, first, last, result - (last - first)), result - (last - first)>>

\* move and move_backward, of values whose move leaves its source unchanged: the loops for
\* input and bidirectional iterators, and for pointers to such values memmove, which
\* result may overlap on either side.  The loop for random-access iterators that are not
\* such pointers never lowers its n (algo_base.h:222): it ends for an empty range only.
unchecked_move_cat(m, first, last, result) ==
    FoldLeft(LAMBDA a, i : [a EXCEPT ![result + i - first] = a[i]], m, Up(first, last))

RandomMoveEnds(first, last) == first = last

move(m, first, last, result) == <<memmove(m, first, last, result), result + last - first>>

unchecked_move_backward_cat(m, first, last, result) ==
    FoldLeft(LAMBDA a, n : [a EXCEPT ![result - n] = a[last - n]], m, Up(1, last - first + 1))

move_backward(m, first, last, result) ==
    LET n == last - first IN <<memmove(m, first, last, result - n), result - n>>

\* The loop of copy_if, remove_copy and their kind: the values in S go to result.
CopyThose(m, first, last, result, S) ==
    FoldLeft(LAMBDA s, i : IF s[1][i] \in S
                           THEN <<[s[1] EXCEPT ![s[2]] = s[1][i]], s[2] + 1>> ELSE s,
             <<m, result>>, Up(first, last))

copy_if(m, first, last, result, S) == CopyThose(m, first, last, result, S)

\* unchecked_copy_n: the end of the source and of the result, and memory.
copy_n(m, first, n, result) ==
    LET c == copy(m, first, first + n, result) IN <<c[1], first + n, c[2]>>

fill_n(m, first, n, x) == [i \in DOMAIN m |-> IF i \in Cells(first, first + n) THEN x ELSE m[i]]
fill(m, first, last, x) == fill_n(m, first, last - first, x)

\* mismatch: the first positions that differ, under equality eq.
mismatch(m, first1, last1, first2, eq) ==
    LET i == FirstOf({j \in Cells(first1, last1) : <<m[j], m[first2 + j - first1]>> \notin eq}, last1)
    IN  <<i, first2 + i - first1>>

equal(m, first1, last1, first2, eq) ==
    \A i \in Cells(first1, last1) : <<m[i], m[first2 + i - first1]>> \in eq

RECURSIVE lexicographical_compare(_, _, _, _, _, _)
lexicographical_compare(m, first1, last1, first2, last2, comp) ==
    IF first1 = last1 \/ first2 = last2 THEN first1 = last1 /\ first2 # last2
    ELSE \/ <<m[first1], m[first2]>> \in comp
         \/ /\ <<m[first2], m[first1]>> \notin comp
            /\ lexicographical_compare(m, first1 + 1, last1, first2 + 1, last2, comp)
=============================================================================
