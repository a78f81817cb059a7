---------------------------------- MODULE Sorts ----------------------------------
(* The sorting functions of src/排序算法/sort.cpp.  An array is a function from   *)
(* 0 .. size - 1 to integers.                                                     *)
EXTENDS Integers, Sequences, FiniteSets, SequencesExt, FiniteSetsExt

LOCAL For(i, j)     == [k \in 1 .. j - i + 1 |-> i + k - 1]
LOCAL ForDown(i, j) == [k \in 1 .. i - j + 1 |-> i - k + 1]

\* std::swap, and the three exclusive ors, which are never given the same cell twice.
SwapCells(arr, i, j) == [arr EXCEPT ![i] = arr[j], ![j] = arr[i]]

bubble_sort(arr, size) ==
    LET Pass(a, i) == FoldLeft(LAMBDA b, j : IF b[j] > b[j + 1] THEN SwapCells(b, j, j + 1) ELSE b,
                               a, For(0, size - i - 2))
    IN  FoldLeft(Pass, arr, For(0, size - 1))

select_sort(arr, size) ==
    LET Place(a, i) ==
          SwapCells(a, i, FoldLeft(LAMBDA min_idx, j : IF a[min_idx] > a[j] THEN j ELSE min_idx,
                                   i, For(i + 1, size - 1)))
    IN  FoldLeft(Place, arr, For(0, size - 2))

RECURSIVE ShiftIn(_, _, _, _)
\* Moves cells up by h while they are larger than tmp, and puts tmp below them.
ShiftIn(arr, index, tmp, h) ==
    IF index >= h /\ tmp < arr[index - h]
    THEN ShiftIn([arr EXCEPT ![index] = arr[index - h]], index - h, tmp, h)
    ELSE [arr EXCEPT ![index] = tmp]

insert_sort(arr, size) ==
    FoldLeft(LAMBDA a, i : ShiftIn(a, i, a[i], 1), arr, For(1, size - 1))

RECURSIVE FillHole(_, _, _, _)
\* The loop of quick_sort: low is a hole, then high is, until they meet.
FillHole(arr, low, high, value) ==
    LET h == Max({j \in low .. high : j = low \/ arr[j] <= value})
        a == IF low < h THEN [arr EXCEPT ![low] = arr[h]] ELSE arr
        l == Min({j \in low .. h : (j > low \/ low = h) /\ (j = h \/ a[j] >= value)})
    IN  IF low >= high THEN <<arr, low, high>>
        ELSE IF l < h THEN FillHole([a EXCEPT ![h] = a[l]], l, h - 1, value)
        ELSE FillHole(a, l, h, value)

RECURSIVE quick_sort(_, _, _)
quick_sort(arr, left, right) ==
    LET f == FillHole(arr, left, right, arr[left])
        a == [f[1] EXCEPT ![f[2]] = arr[left]]
    IN  IF left >= right THEN arr
        ELSE quick_sort(quick_sort(a, left, f[2] - 1), f[3] + 1, right)

RECURSIVE max_heapify(_, _, _)
max_heapify(arr, start, end) ==
    LET left == start * 2 + 1
        son  == IF left + 1 <= end /\ arr[left + 1] > arr[left] THEN left + 1 ELSE left
    IN  IF left > end \/ arr[start] > arr[son] THEN arr
        ELSE max_heapify(SwapCells(arr, start, son), son, end)

heap_sort(arr, size) ==
    LET heap == FoldLeft(LAMBDA a, i : max_heapify(a, i, size - 1),
                         arr, ForDown(size \div 2 - 1, 0))
    IN  FoldLeft(LAMBDA a, i : max_heapify(SwapCells(a, 0, i), 0, i - 1),
                 heap, ForDown(size - 1, 1))

RECURSIVE MergedCells(_, _, _, _, _)
\* The cells of both halves in the order merge copies them to auxiliary_arr.
MergedCells(arr, idx_l, mid, idx_r, right) ==
    IF idx_l > mid THEN [k \in 1 .. right - idx_r + 1 |-> arr[idx_r + k - 1]]
    ELSE IF idx_r > right THEN [k \in 1 .. mid - idx_l + 1 |-> arr[idx_l + k - 1]]
    ELSE IF arr[idx_l] < arr[idx_r]
    THEN <<arr[idx_l]>> \o MergedCells(arr, idx_l + 1, mid, idx_r, right)
    ELSE <<arr[idx_r]>> \o MergedCells(arr, idx_l, mid, idx_r + 1, right)

merge_halves(arr, left, mid, right) ==
    LET auxiliary_arr == MergedCells(arr, left, mid, mid + 1, right)
    IN  [i \in DOMAIN arr |-> IF i \in left .. right THEN auxiliary_arr[i - left + 1] ELSE arr[i]]

RECURSIVE merge_sort(_, _, _)
merge_sort(arr, left, right) ==
    LET mid == left + (right - left) \div 2
    IN  IF left >= right THEN arr
        ELSE merge_halves(merge_sort(merge_sort(arr, left, mid), mid + 1, right), left, mid, right)

RECURSIVE GapPasses(_, _, _)
GapPasses(arr, size, h) ==
    IF h < 1 THEN arr
    ELSE GapPasses(FoldLeft(LAMBDA a, i : ShiftIn(a, i, a[i], h), arr, For(h, size - 1)),
                   size, h \div 3)

RECURSIVE FirstGap(_, _)
FirstGap(h, size) == IF h < size \div 3 THEN FirstGap(h * 3 + 1, size) ELSE h

shell_sort(arr, size) == GapPasses(arr, size, FirstGap(1, size))

-----------------------------------------------------------------------------
(* The functions on vectors: a vector is a sequence.                             *)
CellsOf(vec)  == [i \in 0 .. Len(vec) - 1 |-> vec[i + 1]]
Vector(arr)   == [i \in 1 .. Cardinality(DOMAIN arr) |-> arr[i - 1]]

insertion_sort_vector(vec) == Vector(insert_sort(CellsOf(vec), Len(vec)))

DEFAULT_BUCKET_SIZE == 5

bucket_sort(vec, bucket_size) ==
    LET min   == Min(ToSet(vec))
        width == IF bucket_size = 0 THEN DEFAULT_BUCKET_SIZE ELSE bucket_size
        Index(x) == (x - min) \div width
        bucket(b) == SelectSeq(vec, LAMBDA x : Index(x) = b)
    IN  IF vec = <<>> THEN vec
        ELSE FoldLeft(LAMBDA out, b : out \o insertion_sort_vector(bucket(b)),
                      <<>>, For(0, Index(Max(ToSet(vec)))))

get_digit(num, digit) == (num \div 10 ^ digit) % 10

RECURSIVE Digits10(_)
Digits10(max) == IF max > 0 THEN 1 + Digits10(max \div 10) ELSE 0

radix_sort(vec) ==
    LET Pass(a, digit) == FoldLeft(LAMBDA out, d : out \o SelectSeq(a, LAMBDA x : get_digit(x, digit) = d),
                                   <<>>, For(0, 9))
    IN  FoldLeft(Pass, vec, For(0, Digits10(Max(ToSet(vec))) - 1))

\* count_sort prints the sorted array and leaves arr as it is: the result is the output.
count_sort(arr, size) ==
    LET min == Min({arr[i] : i \in 0 .. size - 1})
        max == Max({arr[i] : i \in 0 .. size - 1})
        upto(x) == Cardinality({i \in 0 .. size - 1 : arr[i] <= x})
        Place(s, i) == LET at == s.tmp[arr[i]] - 1
                       IN  [out |-> [s.out EXCEPT ![at] = arr[i]],
                            tmp |-> [s.tmp EXCEPT ![arr[i]] = at]]
    IN  FoldLeft(Place, [out |-> [i \in 0 .. size - 1 |-> min - 1],
                         tmp |-> [x \in min .. max |-> upto(x)]],
                 ForDown(size - 1, 0)).out
=============================================================================
