-------------------------------- MODULE AlgoSort --------------------------------
(* Sorting in src/MySTL/MySTL/algo.h.  Functions that take a value by reference   *)
(* take its cell here: a cell of the array, which the function may overwrite      *)
(* while it still reads it, or the cell Local of a copy in a local variable.      *)
EXTENDS HeapAlgo, AlgoPermute

CONSTANT kSmallSectionSize

Local == -1
WithLocal(m, x) == [i \in DOMAIN m \cup {Local} |-> IF i = Local THEN x ELSE m[i]]
\* Memory without the local variable that goes out of scope.
Leave(m) == [i \in DOMAIN m \ {Local} |-> m[i]]

partial_sort(m, first, middle, last, comp) ==
    LET heap == FoldLeft(LAMBDA a, i :
                           IF <<a[i], a[first]>> \in comp
                           THEN pop_heap_aux(a, first, middle, i, a[i], comp) ELSE a,
                         make_heap(m, first, middle, comp), Up(middle, last))
    IN  sort_heap(heap, first, middle, comp)

\* psort_copy_aux: memory and the end of the result.
partial_sort_copy(m, first, last, result_first, result_last, comp) ==
    LET n    == Min({last - first, result_last - result_first})
        end  == result_first + n
        heap == FoldLeft(LAMBDA a, i :
                           IF <<a[i], a[result_first]>> \in comp
                           THEN adjust_heap(a, result_first, 0, n, a[i], comp) ELSE a,
                         make_heap(copy(m, first, first + n, result_first)[1],
                                   result_first, end, comp),
                         Up(first + n, last))
    IN  IF result_first = result_last THEN <<m, result_last>>
        ELSE <<sort_heap(heap, result_first, end, comp), end>>

-----------------------------------------------------------------------------
RECURSIVE slg2(_)
slg2(n) == IF n > 1 THEN 1 + slg2(n \div 2) ELSE 0

RECURSIVE unchecked_partition(_, _, _, _, _)
\* Both scans run until they meet a value that is in place, without looking for the
\* ends; memory and the cut.
unchecked_partition(m, first, last, pivot, comp) ==
    LET f == Min({i \in DOMAIN m : i >= first /\ <<m[i], m[pivot]>> \notin comp})
        l == Max({i \in DOMAIN m \ {Local} : i < last /\ <<m[pivot], m[i]>> \notin comp})
    IN  IF f >= l THEN <<m, f>>
        ELSE unchecked_partition(iter_swap(m, f, l), f + 1, l, pivot, comp)

\* The cell of the pivot, by operator< in the overload with comp, too.
MedianOf3(m, first, last, less) ==
    median(m, first, first + (last - first) \div 2, last - 1, less)

RECURSIVE intro_sort(_, _, _, _, _, _)
intro_sort(m, first, last, depth_limit, comp, less) ==
    LET mid == m[MedianOf3(m, first, last, less)]
        c   == unchecked_partition(WithLocal(m, mid), first, last, Local, comp)
        cut == c[2]
        right == intro_sort(Leave(c[1]), cut, last, depth_limit - 1, comp, less)
    IN  IF last - first <= kSmallSectionSize THEN m
        ELSE IF depth_limit = 0 THEN partial_sort(m, first, last, last, comp)
        ELSE intro_sort(right, first, cut, depth_limit - 1, comp, less)

RECURSIVE unchecked_linear_insert(_, _, _, _)
\* Shifts the cells before last up as long as the value is less than they are.
unchecked_linear_insert(m, last, x, comp) ==
    IF <<m[x], m[last - 1]>> \in comp
    THEN unchecked_linear_insert([m EXCEPT ![last] = m[last - 1]], last - 1, x, comp)
    ELSE [m EXCEPT ![last] = m[x]]

\* The cell to insert is passed itself.
unchecked_insertion_sort(m, first, last, comp) ==
    FoldLeft(LAMBDA a, i : unchecked_linear_insert(a, i, i, comp), m, Up(first, last))

\* A value less than all before it moves to the front; any other meets one that stops it.
insertion_sort(m, first, last, comp) ==
    FoldLeft(LAMBDA a, i :
               IF <<a[i], a[first]>> \in comp
               THEN [copy_backward(a, first, i, i + 1)[1] EXCEPT ![first] = a[i]]
               ELSE Leave(unchecked_linear_insert(WithLocal(a, a[i]), i, Local, comp)),
             m, Up(first + 1, last))

final_insertion_sort(m, first, last, comp) ==
    IF last - first > kSmallSectionSize
    THEN unchecked_insertion_sort(insertion_sort(m, first, first + kSmallSectionSize, comp),
                                  first + kSmallSectionSize, last, comp)
    ELSE insertion_sort(m, first, last, comp)

sort(m, first, last, comp, less) ==
    IF first = last THEN m
    ELSE final_insertion_sort(intro_sort(m, first, last, slg2(last - first) * 2, comp, less),
                              first, last, comp)

RECURSIVE nth_element(_, _, _, _, _, _)
\* The pivot is a cell of the range.  A cut at first is no progress: the loop does not
\* end, and the result is the memory and FALSE.
nth_element(m, first, nth, last, comp, less) ==
    LET c == unchecked_partition(m, first, last, MedianOf3(m, first, last, less), comp)
    IN  IF nth = last THEN <<m, TRUE>>
        ELSE IF last - first <= 3 THEN <<insertion_sort(m, first, last, comp), TRUE>>
        ELSE IF c[2] <= nth
        THEN IF c[2] = first THEN <<c[1], FALSE>>
             ELSE nth_element(c[1], c[2], nth, last, comp, less)
        ELSE nth_element(c[1], first, nth, c[2], comp, less)
=============================================================================
