-------------------------------- MODULE HeapAlgo --------------------------------
(* src/MySTL/MySTL/heap_algo.h: heaps in the range from first to last.  The       *)
(* header lacks a parenthesis (44) and names first fist (118); it is read as it   *)
(* is meant.  Values are passed by value here.                                    *)
EXTENDS AlgoBase

RECURSIVE push_heap_aux(_, _, _, _, _, _)
\* Percolate up: the value sinks no lower than its first smaller-or-equal ancestor.
push_heap_aux(m, first, holeIndex, topIndex, x, comp) ==
    LET parent == (holeIndex - 1) \div 2
    IN  IF holeIndex > topIndex /\ <<m[first + parent], x>> \in comp
        THEN push_heap_aux([m EXCEPT ![first + holeIndex] = m[first + parent]],
                           first, parent, topIndex, x, comp)
        ELSE [m EXCEPT ![first + holeIndex] = x]

push_heap(m, first, last, comp) ==
    push_heap_aux(m, first, last - first - 1, 0, m[last - 1], comp)

RECURSIVE HoleDown(_, _, _, _, _)
\* The loop of adjust_heap: the hole moves down to a leaf, along the larger children;
\* memory and the hole.
HoleDown(m, first, holeIndex, len, comp) ==
    LET rchild == 2 * holeIndex + 2
        child  == IF <<m[first + rchild], m[first + rchild - 1]>> \in comp
                  THEN rchild - 1 ELSE rchild
        Fill(c) == [m EXCEPT ![first + holeIndex] = m[first + c]]
    IN  IF rchild < len THEN HoleDown(Fill(child), first, child, len, comp)
        ELSE IF rchild = len THEN <<Fill(rchild - 1), rchild - 1>>
        ELSE <<m, holeIndex>>

adjust_heap(m, first, holeIndex, len, x, comp) ==
    LET down == HoleDown(m, first, holeIndex, len, comp)
    IN  push_heap_aux(down[1], first, down[2], holeIndex, x, comp)

pop_heap_aux(m, first, last, result, x, comp) ==
    adjust_heap([m EXCEPT ![result] = m[first]], first, 0, last - first, x, comp)

pop_heap(m, first, last, comp) ==
    pop_heap_aux(m, first, last - 1, last - 1, m[last - 1], comp)

sort_heap(m, first, last, comp) ==
    FoldLeft(LAMBDA a, l : pop_heap(a, first, l + 1, comp), m, Down(first + 1, last))

make_heap(m, first, last, comp) ==
    LET len == last - first
    IN  IF len < 2 THEN m
        ELSE FoldLeft(LAMBDA a, i : adjust_heap(a, first, i, len, a[first + i], comp),
                      m, Down(0, (len - 2) \div 2 + 1))
=============================================================================
