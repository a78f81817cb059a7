------------------------------ MODULE AlgoPermute ------------------------------
(* The algorithms of src/MySTL/MySTL/algo.h that move, replace and merge values. *)
EXTENDS AlgoSearch

swap_ranges(m, first1, last1, first2) ==
    FoldLeft(LAMBDA a, i : iter_swap(a, i, first2 + i - first1), m, Up(first1, last1))

\* transform with a function of one value, or of the pair of two.
transform(m, first, last, result, unary_op) ==
    FoldLeft(LAMBDA a, i : [a EXCEPT ![result + i - first] = unary_op[a[i]]],
             m, Up(first, last))
transform_pairs(m, first1, last1, first2, result, binary_op) ==
    FoldLeft(LAMBDA a, i : [a EXCEPT ![result + i - first1] =
                                binary_op[a[i], a[first2 + i - first1]]],
             m, Up(first1, last1))

\* for_each with a function that replaces its argument.
for_each(m, first, last, f) == transform(m, first, last, first, f)

\* generate, generate_n: gen holds the values the generator gives.
generate(m, first, last, gen) ==
    [i \in DOMAIN m |-> IF i \in Cells(first, last) THEN gen[i - first + 1] ELSE m[i]]

\* remove_copy, remove_copy_if; remove, remove_if: S holds the values to remove.
remove_copy_if(m, first, last, result, S, Values) ==
    CopyThose(m, first, last, result, Values \ S)
remove_if(m, first, last, S, Values) ==
    LET i == find_if(m, first, last, S)
    IN  IF i = last THEN <<m, i>> ELSE remove_copy_if(m, i + 1, last, i, S, Values)

\* replace, replace_if; replace_copy, replace_copy_if
replace_if(m, first, last, S, x) ==
    [i \in DOMAIN m |-> IF i \in Cells(first, last) /\ m[i] \in S THEN x ELSE m[i]]
replace_copy_if(m, first, last, result, S, x) ==
    FoldLeft(LAMBDA a, i : [a EXCEPT ![result + i - first] = IF a[i] \in S THEN x ELSE a[i]],
             m, Up(first, last))

\* reverse_dispatch: swap from both ends until they meet.
reverse(m, first, last) ==
    FoldLeft(LAMBDA a, i : iter_swap(a, i, last - 1 - (i - first)),
             m, Up(first, first + (last - first) \div 2))
reverse_copy(m, first, last, result) ==
    FoldLeft(LAMBDA a, i : [a EXCEPT ![result + last - 1 - i] = a[i]], m, Down(first, last))

\* random_shuffle: draw[i] is what the generator gives for the i-th cell.
random_shuffle(m, first, last, draw) ==
    FoldLeft(LAMBDA a, i : iter_swap(a, i, first + draw[i - first]), m, Up(first + 1, last))

-----------------------------------------------------------------------------
(* rotate: the memory, and where the first value has gone.                       *)

RECURSIVE RotateBlocks(_, _, _, _, _), RotateRest(_, _, _, _, _)
\* rotate_dispatch for forward iterators: the first loop ends when first2 reaches last.
RotateBlocks(m, first, first2, middle, last) ==
    LET a   == iter_swap(m, first, first2)
        mid == IF first + 1 = middle THEN first2 + 1 ELSE middle
    IN  IF first2 + 1 # last THEN RotateBlocks(a, first + 1, first2 + 1, mid, last)
        ELSE <<RotateRest(a, first + 1, mid, mid, last), first + 1>>
RotateRest(m, first, first2, middle, last) ==
    LET a == iter_swap(m, first, first2)
    IN  IF first2 = last THEN m
        ELSE IF first + 1 = middle THEN RotateRest(a, first + 1, first2 + 1, first2 + 1, last)
        ELSE IF first2 + 1 = last THEN RotateRest(a, first + 1, middle, middle, last)
        ELSE RotateRest(a, first + 1, first2 + 1, middle, last)

\* rotate_dispatch for bidirectional iterators: reverse both parts, swap from both ends
\* as far as the shorter part goes, and reverse what is left between.
RotateByReversal(m, first, middle, last) ==
    LET k == Min({middle - first, last - middle})
        a == reverse(reverse(m, first, middle), middle, last)
        b == FoldLeft(LAMBDA c, i : iter_swap(c, first + i, last - 1 - i), a, Up(0, k))
    IN  IF first + k = middle THEN <<reverse(b, middle, last - k), last - k>>
        ELSE <<reverse(b, first + k, middle), first + k>>

RECURSIVE rgcd(_, _)
rgcd(m, n) == IF n = 0 THEN m ELSE rgcd(n, m % n)

\* One cycle of rotate_dispatch for random access iterators, from cell first on; l and
\* r are the lengths of the parts, each of the steps moves one or two values.
RotateCycle(m, first, last, l, r, cycle_times) ==
    LET Fetch(s, from) == <<[s[1] EXCEPT ![s[2]] = s[1][from]], from>>
        Long(s, j)  == LET t == IF s[2] > first + r THEN Fetch(s, s[2] - r) ELSE s
                       IN  Fetch(t, t[2] + l)
        Short(s, j) == LET t == IF s[2] < last - l THEN Fetch(s, s[2] + l) ELSE s
                       IN  Fetch(t, t[2] - r)
        end == IF l < r THEN FoldLeft(Long, <<m, first>>, Up(0, r \div cycle_times))
               ELSE FoldLeft(Short, <<m, first>>, Up(0, l \div cycle_times - 1))
    IN  [end[1] EXCEPT ![end[2]] = m[first]]

RotateByCycles(m, first, middle, last) ==
    LET l == middle - first
        r == last - middle
        cycle_times == rgcd(last - first, l)
    IN  IF l = r THEN <<swap_ranges(m, first, middle, middle), first + r>>
        ELSE <<FoldLeft(LAMBDA a, i : RotateCycle(a, i, last, l, r, cycle_times),
                        m, Up(first, first + cycle_times)), first + r>>

\* rotate, dispatched by the category of its iterators.
rotate(m, first, middle, last, category) ==
    CASE first = middle -> <<m, last>>
      [] first # middle /\ middle = last -> <<m, first>>
      [] first # middle /\ middle # last ->
           CASE category = "forward"       -> RotateBlocks(m, first, middle, middle, last)
             [] category = "bidirectional" -> RotateByReversal(m, first, middle, last)
             [] category = "random"        -> RotateByCycles(m, first, middle, last)

rotate_copy(m, first, middle, last, result) ==
    LET c == copy(m, middle, last, result) IN copy(c[1], first, middle, c[2])

-----------------------------------------------------------------------------
\* next_permutation and prev_permutation: i is the last cell before a step in the right
\* direction, j the last one to swap it with.
PermuteFrom(m, first, last, steps_up) ==
    LET steps == {i \in Cells(first, last - 1) : <<m[i], m[i + 1]>> \in steps_up}
        i     == CHOOSE k \in steps : \A n \in steps : n <= k
        j     == CHOOSE k \in Cells(first, last) :
                     /\ <<m[i], m[k]>> \in steps_up
                     /\ \A n \in Cells(k + 1, last) : <<m[i], m[n]>> \notin steps_up
    IN  CASE last - first < 2 -> <<m, FALSE>>
          [] last - first >= 2 /\ steps = {}  -> <<reverse(m, first, last), FALSE>>
          [] last - first >= 2 /\ steps # {} ->
               <<reverse(iter_swap(m, i, j), i + 1, last), TRUE>>

next_permutation(m, first, last, comp) ==
    PermuteFrom(m, first, last, comp)
prev_permutation(m, first, last, comp) ==
    PermuteFrom(m, first, last, {<<p[2], p[1]>> : p \in comp})

-----------------------------------------------------------------------------
RECURSIVE merge(_, _, _, _, _, _, _)
merge(m, first1, last1, first2, last2, result, comp) ==
    IF first1 = last1 \/ first2 = last2
    THEN LET c == copy(m, first1, last1, result) IN copy(c[1], first2, last2, c[2])
    ELSE IF <<m[first2], m[first1]>> \in comp
    THEN merge([m EXCEPT ![result] = m[first2]], first1, last1, first2 + 1, last2, result + 1, comp)
    ELSE merge([m EXCEPT ![result] = m[first1]], first1 + 1, last1, first2, last2, result + 1, comp)

RECURSIVE merge_backward(_, _, _, _, _, _, _)
merge_backward(m, first1, last1, first2, last2, result, comp) ==
    CASE first1 = last1 -> copy_backward(m, first2, last2, result)[1]
      [] first1 # last1 /\ first2 = last2 -> copy_backward(m, first1, last1, result)[1]
      [] first1 # last1 /\ first2 # last2 ->
           IF <<m[last2 - 1], m[last1 - 1]>> \in comp
           THEN merge_backward([m EXCEPT ![result - 1] = m[last1 - 1]],
                               first1, last1 - 1, first2, last2, result - 1, comp)
           ELSE merge_backward([m EXCEPT ![result - 1] = m[last2 - 1]],
                               first1, last1, first2, last2 - 1, result - 1, comp)

\* Mutant: both cuts are lower bounds.
CutsAtLower(m, first, middle, last, comp) ==
    LET half1 == first + (middle - first) \div 2
        half2 == middle + (last - middle) \div 2
    IN  IF middle - first > last - middle
        THEN <<half1, lower_bound(m, middle, last, m[half1], comp)>>
        ELSE <<lower_bound(m, first, middle, m[half2], comp), half2>>

\* Where the longer part is cut in two and the other one at the same value:
\* first_cut and second_cut of both merges.
Cuts(m, first, middle, last, comp) ==
    LET half1 == first + (middle - first) \div 2
        half2 == middle + (last - middle) \div 2
    IN  IF middle - first > last - middle
        THEN <<half1, lower_bound(m, middle, last, m[half1], comp)>>
        ELSE <<upper_bound(m, first, middle, m[half2], comp), half2>>

RECURSIVE merge_without_buffer(_, _, _, _, _, _)
merge_without_buffer(m, first, middle, last, comp, category) ==
    LET cut == Cuts(m, first, middle, last, comp)
        r   == rotate(m, cut[1], middle, cut[2], category)
    IN  IF first = middle \/ middle = last THEN m
        ELSE IF last - first = 2
        THEN IF <<m[middle], m[first]>> \in comp THEN iter_swap(m, first, middle) ELSE m
        ELSE merge_without_buffer(
               merge_without_buffer(r[1], first, cut[1], r[2], comp, category),
               r[2], cut[2], last, comp, category)

\* rotate through the buffer, if the shorter part fits.
rotate_adaptive(m, first, middle, last, buffer, buffer_size, category) ==
    LET len1 == middle - first
        len2 == last - middle
        In(from, to) == copy(m, from, to, buffer)
    IN  IF len1 > len2 /\ len2 <= buffer_size
        THEN LET a == copy_backward(In(middle, last)[1], first, middle, last)[1]
             IN  copy(a, buffer, buffer + len2, first)
        ELSE IF len1 <= buffer_size
        THEN LET a == copy(In(first, middle)[1], middle, last, first)[1]
             IN  copy_backward(a, buffer, buffer + len1, last)
        ELSE rotate(m, first, middle, last, category)

RECURSIVE merge_adaptive(_, _, _, _, _, _, _, _)
merge_adaptive(m, first, middle, last, buffer, buffer_size, comp, category) ==
    LET len1 == middle - first
        len2 == last - middle
        cut  == Cuts(m, first, middle, last, comp)
        r    == rotate_adaptive(m, cut[1], middle, cut[2], buffer, buffer_size, category)
    IN  IF len1 <= len2 /\ len1 <= buffer_size
        THEN merge(copy(m, first, middle, buffer)[1], buffer, buffer + len1, middle, last, first, comp)[1]
        ELSE IF len2 <= buffer_size
        THEN merge_backward(copy(m, middle, last, buffer)[1], first, middle, buffer, buffer + len2, last, comp)
        ELSE merge_adaptive(
               merge_adaptive(r[1], first, cut[1], r[2], buffer, buffer_size, comp, category),
               r[2], cut[2], last, buffer, buffer_size, comp, category)

\* inplace_merge with the temporary buffer it got, of any size down to none.
inplace_merge(m, first, middle, last, buffer, buffer_size, comp, category) ==
    CASE first = middle \/ middle = last -> m
      [] first # middle /\ middle # last /\ buffer_size = 0 ->
           merge_without_buffer(m, first, middle, last, comp, category)
      [] first # middle /\ middle # last /\ buffer_size > 0 ->
           merge_adaptive(m, first, middle, last, buffer, buffer_size, comp, category)

-----------------------------------------------------------------------------
RECURSIVE partition(_, _, _, _)
partition(m, first, last, S) ==
    LET f == find_if_not(m, first, last, S)
        l == {i \in Cells(f, last) : m[i] \in S}
    IN  IF f = last \/ l = {} THEN <<m, f>>
        ELSE partition(iter_swap(m, f, Max(l)), f + 1, Max(l), S)

partition_copy(m, first, last, result_true, result_false, S, Values) ==
    LET t == CopyThose(m, first, last, result_true, S)
        f == CopyThose(t[1], first, last, result_false, Values \ S)
    IN  <<f[1], t[2], f[2]>>

\* unique_copy_dispatch: compare with the value written last; unique in place.
unique_copy(m, first, last, result, eq) ==
    LET s == FoldLeft(LAMBDA t, i : IF <<t[1][t[2]], t[1][i]>> \in eq THEN t
                                    ELSE <<[t[1] EXCEPT ![t[2] + 1] = t[1][i]], t[2] + 1>>,
                      <<[m EXCEPT ![result] = m[first]], result>>, Up(first + 1, last))
    IN  IF first = last THEN <<m, result>> ELSE <<s[1], s[2] + 1>>

unique(m, first, last, eq) ==
    LET f == adjacent_find(m, first, last, eq) IN unique_copy(m, f, last, f, eq)
=============================================================================
