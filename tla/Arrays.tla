--------------------------------- MODULE Arrays ---------------------------------
(* An array and the calls a program makes on it: the functions of sort.cpp and   *)
(* the algorithms of MySTL.  last_call is the call made last, with what it returned; *)
(* a call may follow any other.  The calls keep to what the algorithms ask for:    *)
(* sorted ranges, heaps, and a second range or an output beside the first one.   *)
(* Where an algorithm needs a second range the array is cut at k; output and     *)
(* buffers are further cells behind the array.                                   *)
EXTENDS AlgoSort, Sorts, Uninit

CONSTANTS Memories,    \* the arrays the program starts with
          Values,      \* the numbers in them
          Orders,      \* comparisons, strict weak orders of Values
          Less,        \* operator<
          Blank        \* what an output cell holds before

ASSUME ArraysAssumption ==
    /\ Values \subseteq Nat /\ Less \in Orders
    /\ Less = {p \in Values \X Values : p[1] < p[2]}
    /\ kSmallSectionSize \in Nat \ {0}

VARIABLES arr, last_call

avars == <<arr, last_call>>

Length == Cardinality(DOMAIN arr)
\* The array as a sequence.
Listed(a) == [i \in 1 .. Cardinality(DOMAIN a) |-> a[i - 1]]
\* Values that comp does not tell apart.
Ties(comp) == {p \in Values \X Values : p \notin comp /\ <<p[2], p[1]>> \notin comp}

ArraysInit == arr \in Memories /\ last_call = [op |-> <<"none">>, ret |-> 0]

Becomes(op, m, ret) == arr' = [i \in DOMAIN arr |-> m[i]] /\ last_call' = [op |-> op, ret |-> ret]
Returns(op, ret)    == Becomes(op, arr, ret)

\* The array followed by n blank cells, and what a call has written there.
Wide(n) == [i \in 0 .. Length + n - 1 |-> IF i < Length THEN arr[i] ELSE Blank]
Output(c) == [i \in 1 .. c[2] - Length |-> c[1][Length + i - 1]]

SortedPart(first, last, comp) == is_sorted(arr, first, last, comp)

-----------------------------------------------------------------------------
\* The functions of sort.cpp.
SortFunctions == {"bubble", "select", "insert", "quick", "heap", "merge", "shell", "count",
                  "vector", "bucket", "radix"}

SortBy(f, bucket_size) ==
    CASE f = "bubble" -> bubble_sort(arr, Length)
      [] f = "select" -> select_sort(arr, Length)
      [] f = "insert" -> insert_sort(arr, Length)
      [] f = "quick"  -> quick_sort(arr, 0, Length - 1)
      [] f = "heap"   -> heap_sort(arr, Length)
      [] f = "merge"  -> merge_sort(arr, 0, Length - 1)
      [] f = "shell"  -> shell_sort(arr, Length)
      [] f = "count"  -> count_sort(arr, Length)
      [] f = "vector" -> CellsOf(insertion_sort_vector(Vector(arr)))
      [] f = "bucket" -> CellsOf(bucket_sort(Vector(arr), bucket_size))
      [] f = "radix"  -> CellsOf(radix_sort(Vector(arr)))

SortWith ==
    \E f \in SortFunctions, bucket_size \in {0, 1, 3} :
        /\ f \in {"count", "radix"} => Length > 0
        /\ f # "bucket" => bucket_size = 0
        /\ Becomes(<<"sort_cpp", f>>, SortBy(f, bucket_size), 0)

\* The sorts of MySTL.
Sort == \E comp \in Orders : Becomes(<<"sort", comp>>, sort(arr, 0, Length, comp, Less), 0)

IntroSort ==
    \E comp \in Orders :
        Becomes(<<"intro_sort", comp>>, intro_sort(arr, 0, Length, slg2(Length) * 2, comp, Less), 0)

PartialSort ==
    \E comp \in Orders, k \in DOMAIN arr :
        Becomes(<<"partial_sort", comp, k>>, partial_sort(arr, 0, k, Length, comp), 0)

NthElement ==
    \E comp \in Orders, k \in DOMAIN arr :
        LET r == nth_element(arr, 0, k, Length, comp, Less)
        IN  Becomes(<<"nth_element", comp, k>>, r[1], r[2])

InsertionSort == \E comp \in Orders : Becomes(<<"insertion_sort", comp>>, insertion_sort(arr, 0, Length, comp), 0)

InplaceMerge ==
    \E comp \in Orders, k \in 0 .. Length, largest \in 0 .. Length,
       category \in {"forward", "bidirectional", "random"} :
        LET buffer_size == allocate_buffer(Length, largest)
        IN  /\ SortedPart(0, k, comp) /\ SortedPart(k, Length, comp)
            /\ Becomes(<<"inplace_merge", comp>>,
                       inplace_merge(Wide(buffer_size), 0, k, Length, Length, buffer_size, comp, category), 0)

Heaps ==
    \E comp \in Orders :
        \/ Becomes(<<"make_heap", comp>>, make_heap(arr, 0, Length, comp), 0)
        \/ /\ Length > 0 /\ is_heap(arr, 0, Length - 1, comp)
           /\ Becomes(<<"make_heap", comp>>, push_heap(arr, 0, Length, comp), 0)
        \/ /\ Length > 0 /\ is_heap(arr, 0, Length, comp)
           /\ Becomes(<<"pop_heap", comp>>, pop_heap(arr, 0, Length, comp), 0)
        \/ /\ is_heap(arr, 0, Length, comp)
           /\ Becomes(<<"sort_heap", comp>>, sort_heap(arr, 0, Length, comp), 0)

-----------------------------------------------------------------------------
\* Calls that move values.
Rotate ==
    \E k \in 0 .. Length, category \in {"forward", "bidirectional", "random"} :
        LET r == rotate(arr, 0, k, Length, category)
        IN  Becomes(<<"rotate", k>>, r[1], r[2])

Permute ==
    \E comp \in Orders :
        LET next == next_permutation(arr, 0, Length, comp)
            prev == prev_permutation(arr, 0, Length, comp)
        IN  \/ Becomes(<<"permutation", comp>>, next[1], next[2])
            \/ Becomes(<<"permutation", {<<p[2], p[1]>> : p \in comp}>>, prev[1], prev[2])

ReverseAll == Becomes(<<"reverse">>, reverse(arr, 0, Length), 0)

Shuffle ==
    \E draw \in [1 .. Length - 1 -> DOMAIN arr] :
        Becomes(<<"shuffle">>, random_shuffle(arr, 0, Length, draw), 0)

Partition ==
    \E S \in SUBSET Values :
        LET r == partition(arr, 0, Length, S) IN Becomes(<<"partition", S>>, r[1], r[2])

RemoveValues ==
    \E S \in SUBSET Values :
        LET r == remove_if(arr, 0, Length, S, Values) IN Becomes(<<"remove", S>>, r[1], r[2])

Unique ==
    \E comp \in Orders :
        LET r == unique(arr, 0, Length, Ties(comp)) IN Becomes(<<"unique", comp>>, r[1], r[2])

\* Copying and moving a range within the array: by the loops forward to lower cells and
\* backward to higher ones, as memmove to any.
MoveRange ==
    \E first, last, result \in 0 .. Length :
        LET end == result + last - first
            call == <<"move", first, last, result>>
        IN  /\ first <= last /\ end <= Length
            /\ \/ result <= first /\ Becomes(call, unchecked_copy_cat(arr, first, last, result), 0)
               \/ result <= first /\ Becomes(call, unchecked_move_cat(arr, first, last, result), 0)
               \/ result >= first /\ Becomes(call, unchecked_copy_backward_cat(arr, first, last, end), 0)
               \/ result >= first /\ Becomes(call, unchecked_move_backward_cat(arr, first, last, end), 0)
               \/ RandomMoveEnds(first, last) /\ Becomes(call, arr, 0)
               \/ Becomes(call, move(arr, first, last, result)[1], 0)
               \/ Becomes(call, move_backward(arr, first, last, end)[1], 0)

\* Calls that write values of the program's.
Rewrite ==
    \E S \in SUBSET Values, x \in Values, k \in 0 .. Length :
        \/ Becomes(<<"replace", S, x, 0>>, replace_if(arr, 0, Length, S, x), 0)
        \/ S = {} /\ Becomes(<<"replace", Values, x, k>>, fill(arr, k, Length, x), 0)

\* for_each and transform apply f; a generator gives the values of gen.
Apply ==
    \/ \E f \in [Values -> Values] : Becomes(<<"apply", f>>, for_each(arr, 0, Length, f), 0)
    \/ \E gen \in [1 .. Length -> Values] : Becomes(<<"generate", gen>>, generate(arr, 0, Length, gen), 0)
    \/ \E k \in 0 .. Length \div 2 :
         LET least == [p \in Values \X Values |-> min(p[1], p[2], Less)]
         IN  Becomes(<<"least", k>>, transform_pairs(arr, 0, k, Length - k, 0, least), 0)

SwapParts ==
    \E k \in 0 .. Length \div 2 : Becomes(<<"swap", k>>, swap_ranges(arr, 0, k, Length - k), 0)

-----------------------------------------------------------------------------
\* Calls that look for a range: the first k cells are searched for the rest.
Search ==
    \E k \in 0 .. Length, comp \in Orders :
        LET eq == Ties(comp)
        IN  \/ Returns(<<"search", k, eq>>, search(arr, 0, k, k, Length, eq))
            \/ Returns(<<"find_end", k, eq>>, FindEndForward(arr, 0, k, k, Length, k, eq))
            \/ Returns(<<"find_end", k, eq>>, FindEndBackward(arr, 0, k, k, Length, eq))
            \/ Returns(<<"find_first_of", k, eq>>, find_first_of(arr, 0, k, k, Length, eq))
            \/ Returns(<<"is_permutation", k, eq>>, is_permutation(arr, 0, k, k, Length, eq))
            \/ /\ 2 * k <= Length
               /\ Returns(<<"equal", k, eq>>, <<equal(arr, 0, k, k, eq),
                                               mismatch(arr, 0, k, k, eq)[1]>>)
            \/ Returns(<<"less", k, comp>>, lexicographical_compare(arr, 0, k, k, Length, comp))
            \/ /\ SortedPart(0, k, comp) /\ SortedPart(k, Length, comp)
               /\ Returns(<<"includes", k, comp>>, includes(arr, 0, k, k, Length, comp))

SearchRun ==
    \E S \in SUBSET Values, n \in 0 .. 3 :
        Returns(<<"search_n", S, n>>, search_n(arr, 0, Length, n, S))

BinarySearch ==
    \E comp \in Orders, x \in Values :
        /\ SortedPart(0, Length, comp)
        /\ \/ Returns(<<"bounds", comp, x>>, <<lower_bound(arr, 0, Length, x, comp),
                                              upper_bound(arr, 0, Length, x, comp)>>)
           \/ Returns(<<"equal_range", comp, x>>, equal_range(arr, 0, Length, x, comp))
           \/ Returns(<<"binary_search", comp, x>>, binary_search(arr, 0, Length, x, comp, Less))

Inspect ==
    \E comp \in Orders :
        \/ Returns(<<"is_heap", comp>>, is_heap(arr, 0, Length, comp))
        \/ Returns(<<"is_sorted", comp>>, is_sorted(arr, 0, Length, comp))
        \/ Returns(<<"adjacent_find", comp>>, adjacent_find(arr, 0, Length, Ties(comp)))
        \/ Length > 0 /\ Returns(<<"extremes", comp>>, <<min_elememt(arr, 0, Length, comp),
                                                      max_element(arr, 0, Length, comp)>>)
        \/ Length = 3 /\ Returns(<<"median", comp>>, arr[median(arr, 0, 1, 2, comp)])
        \/ /\ Length = 2
           /\ Returns(<<"max", comp>>, [max |-> max(arr[0], arr[1], comp), min |-> min(arr[0], arr[1], Less),
                                         min_comp |-> min_comp(arr[0], arr[1], comp)])

\* Calls that test a predicate: none with all, first and number of the values in S.
Count ==
    \E S \in SUBSET Values :
        Returns(<<"count", S>>, [all |-> all_of(arr, 0, Length, S), any |-> any_of(arr, 0, Length, S),
                                 none |-> none_of(arr, 0, Length, S), n |-> count_if(arr, 0, Length, S),
                                 in |-> find_if(arr, 0, Length, S), out |-> find_if_not(arr, 0, Length, S)])

\* Calls that write to an output behind the array.
CopyOut ==
    \E comp \in Orders, S \in SUBSET Values, k \in 0 .. Length :
        LET m == Wide(Length) end == 2 * Length
            plain == comp = Less /\ S = {}
            any   == comp = Less /\ k = 0
        IN  \/ /\ S = {} /\ SortedPart(0, k, comp) /\ SortedPart(k, Length, comp)
               /\ Returns(<<"merge", comp>>, Output(merge(m, 0, k, k, Length, Length, comp)))
            \/ plain /\ Returns(<<"rotate_copy", k>>, Output(rotate_copy(m, 0, k, Length, Length)))
            \/ S = {} /\ Returns(<<"partial_sort_copy", comp, k>>,
                                 Output(partial_sort_copy(m, 0, Length, Length, Length + k, comp)))
            \/ S = {} /\ k = 0 /\ Returns(<<"unique_copy", comp>>,
                                          Output(unique_copy(m, 0, Length, Length, Ties(comp))))
            \/ plain /\ k = 0 /\ Returns(<<"reverse_copy">>, Output(<<reverse_copy(m, 0, Length, Length), end>>))
            \/ any /\ Returns(<<"copy_if", S>>, Output(copy_if(m, 0, Length, Length, S)))
            \/ any /\ Returns(<<"copy_if", Values \ S>>,
                              Output(remove_copy_if(m, 0, Length, Length, S, Values)))
            \/ any /\ Returns(<<"copy_if", Values>>, Output(LET c == copy_n(m, 0, Length, Length)
                                                          IN  <<c[1], c[3]>>))
            \/ any /\ Length > 0 /\ Returns(<<"replace_copy", S, Last(Listed(arr))>>,
                                        Output(<<replace_copy_if(m, 0, Length, Length, S, arr[Length - 1]), end>>))
            \/ any /\ LET r == partition_copy(Wide(2 * Length), 0, Length, Length, end, S, Values)
                      IN  Returns(<<"copy_if", S>>, Output(<<r[1], r[2]>>))

\* Objects constructed in as many raw cells, where the constructor of cell at may throw.
ConstructIn(f, at) ==
    CASE f = "copy"   -> uninitialized_copy(Length, at)
      [] f = "fill"   -> uninitialized_fill(Length, at)
      [] f = "fill_n" -> uninitialized_fill_n(Length, at)
      [] f = "move"   -> unchecked_uninit_move(Length, at)
      [] f = "move_n" -> unchecked_uninit_move_n(Length, at)

Uninitialized ==
    \E at \in 0 .. Length :
        \/ \E f \in {"copy", "fill", "fill_n", "move", "move_n"} :
              Returns(<<"construct", f, Length, at>>, ConstructIn(f, at))
        \/ \E largest \in 0 .. Length :
              LET len == allocate_buffer(Length, largest)
              IN  at <= len /\ Returns(<<"construct", "buffer", len, at>>, temporary_buffer(Length, largest, at))

ArraysNext ==
    \/ SortWith \/ Sort \/ IntroSort \/ PartialSort \/ NthElement \/ InsertionSort
    \/ InplaceMerge \/ Heaps \/ Rotate \/ Permute \/ ReverseAll \/ Shuffle \/ Partition
    \/ RemoveValues \/ Unique \/ MoveRange \/ Rewrite \/ Apply \/ SwapParts \/ Search
    \/ SearchRun \/ BinarySearch \/ Inspect \/ Count \/ CopyOut
    \/ Uninitialized

ArraysSpec == ArraysInit /\ [][ArraysNext]_avars

-----------------------------------------------------------------------------
(* What the calls promise.                                                       *)
Cmp(comp, x, y) == <<x, y>> \in comp
Number(s, x) == Cardinality({i \in DOMAIN s : s[i] = x})
SameValues(s, t) == \A x \in Values : Number(s, x) = Number(t, x)

\* The stable sort of s: a value's rank counts those less, and the equal ones before it.
Rank(s, i, comp) ==
    Cardinality({j \in DOMAIN s : \/ Cmp(comp, s[j], s[i])
                                  \/ j < i /\ ~Cmp(comp, s[i], s[j])})
StableSort(s, comp) == [r \in DOMAIN s |-> s[CHOOSE i \in DOMAIN s : Rank(s, i, comp) = r - 1]]

Ordered(s, comp) == \A i, j \in DOMAIN s : i < j => ~Cmp(comp, s[j], s[i])
IsHeap(s, comp) == \A i \in 2 .. Len(s) : ~Cmp(comp, s[i \div 2], s[i])

\* s without the values that tie with the one before.
Distinct(s, comp) ==
    LET kept == SetToSortSeq({i \in DOMAIN s : i = 1 \/ <<s[i - 1], s[i]>> \notin Ties(comp)}, LAMBDA i, j : i < j)
    IN  [k \in DOMAIN kept |-> s[kept[k]]]

\* s comes before t in the order of sequences.
Precedes(s, t, comp) ==
    \E n \in 0 .. Len(s) :
        /\ \A i \in 1 .. n : i <= Len(t) /\ <<s[i], t[i]>> \in Ties(comp)
        /\ \/ n = Len(s) /\ Len(t) > n
           \/ n < Len(s) /\ Len(t) > n /\ Cmp(comp, s[n + 1], t[n + 1])

\* Nothing lies between s and its successor t.
Follows(t, s, comp) ==
    /\ Precedes(s, t, comp)
    /\ ~\E p \in Permutations(DOMAIN s) :
          LET u == [i \in DOMAIN s |-> s[p[i]]] IN Precedes(s, u, comp) /\ Precedes(u, t, comp)

Reordered(op, s, t, ret) ==
    CASE op[1] = "sort_cpp" -> SameValues(s, t) /\ Ordered(t, Less)
      [] op[1] = "sort" -> Len(s) <= kSmallSectionSize => SameValues(s, t) /\ Ordered(t, op[2])
      [] op[1] \in {"insertion_sort", "sort_heap"} -> SameValues(s, t) /\ Ordered(t, op[2])
      [] op[1] = "intro_sort" ->
           /\ SameValues(s, t)
           /\ \A i \in kSmallSectionSize + 1 .. Len(s) :
                 \E j \in 1 .. kSmallSectionSize : ~Cmp(op[2], t[i], t[j])
      [] op[1] = "inplace_merge" -> t = StableSort(s, op[2])
      [] op[1] = "partial_sort" ->
           /\ SameValues(s, t)
           /\ \A i \in 1 .. op[3] : <<t[i], StableSort(s, op[2])[i]>> \in Ties(op[2])
      [] op[1] = "nth_element" ->
           /\ SameValues(s, t)
           /\ ret => <<t[op[3] + 1], StableSort(s, op[2])[op[3] + 1]>> \in Ties(op[2])
      [] op[1] = "make_heap" -> SameValues(s, t) /\ IsHeap(t, op[2])
      [] op[1] = "pop_heap" ->
           SameValues(s, t) /\ IsHeap(Front(t), op[2]) /\ \A i \in DOMAIN t : ~Cmp(op[2], Last(t), t[i])
      [] OTHER -> TRUE

Moved(op, s, t, ret) ==
    CASE op[1] = "rotate" -> /\ t = SubSeq(s, op[2] + 1, Len(s)) \o SubSeq(s, 1, op[2])
                             /\ ret = Len(s) - op[2]
      [] op[1] = "permutation" ->
           op[2] \in {Less, {<<p[2], p[1]>> : p \in Less}} =>
             IF ret THEN SameValues(s, t) /\ Follows(t, s, op[2])
             ELSE t = StableSort(s, op[2]) /\ s = Reverse(t)
      [] op[1] = "reverse" -> t = Reverse(s)
      [] op[1] = "shuffle" -> SameValues(s, t)
      [] op[1] = "partition" ->
           SameValues(s, t) /\ \A i \in DOMAIN t : t[i] \in op[2] <=> i <= ret
      [] op[1] = "remove" -> SubSeq(t, 1, ret) = SelectSeq(s, LAMBDA x : x \notin op[2])
      [] op[1] = "unique" -> SubSeq(t, 1, ret) = Distinct(s, op[2])
      [] op[1] = "move" -> t = [i \in DOMAIN s |-> IF i - 1 \in op[4] .. op[4] + op[3] - op[2] - 1
                                                   THEN s[i + op[2] - op[4]] ELSE s[i]]
      [] op[1] = "replace" ->
           t = [i \in DOMAIN s |-> IF i > op[4] /\ s[i] \in op[2] THEN op[3] ELSE s[i]]
      [] op[1] = "apply" -> t = [i \in DOMAIN s |-> op[2][s[i]]]
      [] op[1] = "generate" -> t = op[2]
      [] op[1] = "least" ->
           t = [i \in DOMAIN s |-> IF i > op[2] THEN s[i]
                                   ELSE Min({s[i], s[i + Len(s) - op[2]]})]
      [] op[1] = "swap" -> LET n == Len(s) - op[2]
                           IN  t = SubSeq(s, n + 1, Len(s)) \o SubSeq(s, op[2] + 1, n) \o SubSeq(s, 1, op[2])
      [] OTHER -> TRUE

\* The calls that change the array: sorts, partial sorts and heaps leave a permutation in
\* the order that the comparison asks for, inplace_merge is stable for any buffer and
\* category of iterator, and the others move each value to the place they promise.
\* Whether the sorts of sort.cpp are stable cannot be told: their arrays are integers
\* under operator<, and integers that tie are equal.  Excepted are what the model shows the code to get wrong:
\* sort of more than kSmallSectionSize values, which loses values (algo.h:2397, 2416),
\* and nth_element, which may not end (algo.h:2613).
ReorderingsKeepPromise ==
    [][LET s == Listed(arr) t == Listed(arr')
       IN  Reordered(last_call'.op, s, t, last_call'.ret) /\ Moved(last_call'.op, s, t, last_call'.ret)]_avars

\* Whether s and t agree from cell i of s on.
MatchAt(s, i, t, eq) == i + Len(t) <= Len(s) /\ \A j \in DOMAIN t : <<s[i + j], t[j]>> \in eq
Matches(s, t, eq) == {i \in 0 .. Len(s) : MatchAt(s, i, t, eq)}
Class(s, x, eq) == Cardinality({i \in DOMAIN s : <<s[i], x>> \in eq})

\* What a call on s, cut after op[2] cells into u and v, returns.
Found(op, s, ret) ==
    LET u == SubSeq(s, 1, op[2])
        v == SubSeq(s, op[2] + 1, Len(s))
        eq == op[3]
    IN  CASE op[1] = "search"   -> ret = FirstOf(Matches(u, v, eq), op[2])
          [] op[1] = "find_end" -> ret = IF v = <<>> \/ Matches(u, v, eq) = {} THEN op[2]
                                         ELSE Max(Matches(u, v, eq))
          [] op[1] = "find_first_of" ->
               ret = FirstOf({i \in 0 .. op[2] - 1 : \E j \in DOMAIN v : <<u[i + 1], v[j]>> \in eq}, op[2])
          [] op[1] = "is_permutation" ->
               ret = (Len(u) = Len(v) /\ \A x \in Values : Class(u, x, eq) = Class(v, x, eq))
          [] op[1] = "equal" ->
               /\ ret[1] = (ret[2] = op[2])
               /\ ret[2] = FirstOf({i \in 0 .. op[2] - 1 : <<u[i + 1], v[i + 1]>> \notin eq}, op[2])
          [] op[1] = "less" -> ret = Precedes(u, v, op[3])
          [] op[1] = "includes" ->
               ret = \A x \in Values : Class(v, x, Ties(op[3])) <= Class(u, x, Ties(op[3]))

Answer(op, s, ret) ==
    CASE op[1] = "search_n" ->
           ret = FirstOf({i \in 0 .. Len(s) - op[3] : \A j \in 1 .. op[3] : s[i + j] \in op[2]},
                         IF op[3] = 0 THEN 0 ELSE Len(s))
      [] op[1] = "bounds" -> ret = <<Cardinality({i \in DOMAIN s : Cmp(op[2], s[i], op[3])}),
                                     Cardinality({i \in DOMAIN s : ~Cmp(op[2], op[3], s[i])})>>
      [] op[1] = "equal_range" -> ret[2] - ret[1] = Class(s, op[3], Ties(op[2]))
      [] op[1] = "binary_search" -> op[2] = Less => ret = (op[3] \in ToSet(s))
      [] op[1] = "is_heap"   -> ret = IsHeap(s, op[2])
      [] op[1] = "is_sorted" -> ret = Ordered(s, op[2])
      [] op[1] = "adjacent_find" ->
           ret = FirstOf({i \in 0 .. Len(s) - 2 : <<s[i + 1], s[i + 2]>> \in Ties(op[2])}, Len(s))
      [] op[1] = "extremes" ->
           /\ \A i \in DOMAIN s : ~Cmp(op[2], s[i], s[ret[1] + 1]) /\ ~Cmp(op[2], s[ret[2] + 1], s[i])
           /\ \A i \in 1 .. ret[1] : Cmp(op[2], s[ret[1] + 1], s[i])
           /\ \A i \in 1 .. ret[2] : Cmp(op[2], s[i], s[ret[2] + 1])
      [] op[1] = "median" -> <<ret, StableSort(s, op[2])[2]>> \in Ties(op[2])
      [] op[1] = "max" ->
           /\ {ret.max, ret.min, ret.min_comp} \subseteq ToSet(s)
           /\ \A x \in ToSet(s) : ~Cmp(op[2], ret.max, x) /\ ~Cmp(Less, x, ret.min)
      [] op[1] = "count" ->
           /\ ret.all = (ret.out = Len(s)) /\ ret.none = (ret.in = Len(s)) /\ ret.any = ~ret.none
           /\ ret.n = Len(SelectSeq(s, LAMBDA x : x \in op[2]))
      [] op[1] = "merge" -> ret = StableSort(s, op[2])
      [] op[1] = "rotate_copy" -> ret = SubSeq(s, op[2] + 1, Len(s)) \o SubSeq(s, 1, op[2])
      [] op[1] = "partial_sort_copy" ->
           Len(ret) = op[3] /\ \A i \in DOMAIN ret : <<ret[i], StableSort(s, op[2])[i]>> \in Ties(op[2])
      [] op[1] = "unique_copy"  -> ret = Distinct(s, op[2])
      [] op[1] = "reverse_copy" -> ret = Reverse(s)
      [] op[1] = "replace_copy" -> ret = [i \in DOMAIN s |-> IF s[i] \in op[2] THEN op[3] ELSE s[i]]
      [] op[1] = "construct" ->
           /\ op[4] = op[3] => ret = Outcome(0 .. op[3] - 1, op[3], FALSE, {})
           /\ op[4] < op[3] /\ op[2] # "copy" => ret.live = {} /\ ret.misses = {}
      [] op[1] = "copy_if" -> ret = SelectSeq(s, LAMBDA x : x \in op[2])
      [] OTHER -> TRUE

\* The calls that only read return what their definition says, from every array: also
\* where ranges are empty, of the same length, or overlap themselves, and for every
\* comparison.  Excepted are min with a comparison, which returns the larger value
\* (algo_base.h:48), binary_search with a comparison, which looks for the bound with
\* operator< (algo.h:786), and the place of equal_range's empty result.  When a
\* constructor throws nothing is left in raw cells, except by uninitialized_copy and
\* uninitialized_copy_n, whose rollback is off by one cell (uninitialized.h:35, 71).
AnswersMatchDefinition ==
    [][LET op == last_call'.op
       IN  IF op[1] \in {"search", "find_end", "find_first_of", "is_permutation", "equal", "less", "includes"}
           THEN Found(op, Listed(arr), last_call'.ret) ELSE Answer(op, Listed(arr), last_call'.ret)]_avars
=============================================================================
