--------------------------------- MODULE Uninit ---------------------------------
(* src/MySTL/MySTL/uninitialized.h and the temporary buffer of memory.h: objects are *)
(* constructed one after the other in raw cells 0 .. n - 1, and the constructor of   *)
(* cell at may throw (none does if at = n).  The outcome of a call is the cells that *)
(* hold an object, the iterator it returns, whether it throws, and the destroyed     *)
(* cells in which there was no object.                                              *)
EXTENDS Naturals

Outcome(live, end, throws, misses) == [live |-> live, end |-> end, throws |-> throws, misses |-> misses]

\* Cell by cell up to the throw; then the cells in wiped are destroyed.
Construct(n, at, wiped, end, throws) ==
    IF at >= n THEN Outcome(0 .. n - 1, n, FALSE, {})
    ELSE Outcome((0 .. at - 1) \ wiped, end, throws, wiped \ (0 .. at - 1))

\* unchecked_uninit_copy, unchecked_uninit_copy_n: the rollback starts at the cell whose
\* constructor threw and ends before the first one.
uninitialized_copy(n, at) == Construct(n, at, 1 .. at, 0, FALSE)

\* unchecked_uninit_fill returns nothing; with cur = first, as in unchecked_uninit_fill_n.
uninitialized_fill(n, at) == Construct(n, at, 0 .. at - 1, n, FALSE)

\* unchecked_uninit_fill_n: the exception ends here.
uninitialized_fill_n(n, at) == Construct(n, at, 0 .. at - 1, at, FALSE)

unchecked_uninit_move(n, at) == Construct(n, at, 0 .. at - 1, at, FALSE)

unchecked_uninit_move_n(n, at) == Construct(n, at, 0 .. at - 1, at, TRUE)

-----------------------------------------------------------------------------
RECURSIVE allocate_buffer(_, _)
\* The length got for len cells when malloc has largest at most: halved until it fits.
allocate_buffer(len, largest) ==
    IF len <= largest THEN len ELSE allocate_buffer(len \div 2, largest)

\* temporary_buffer::temporary_buffer of values with a constructor: a copy of the first
\* one in every cell; it does not learn that a constructor threw.
temporary_buffer(n, largest, at) ==
    LET len == allocate_buffer(n, largest) IN uninitialized_fill_n(len, at)
=============================================================================
