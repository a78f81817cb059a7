-------------------------------- MODULE MCArrays --------------------------------
EXTENDS Arrays, TLC

MCValues == {2, 10, 21}
Pairs(P(_, _)) == {p \in MCValues \X MCValues : P(p[1], p[2])}
MCLess == Pairs(LAMBDA x, y : x < y)
MCOrders == {MCLess, Pairs(LAMBDA x, y : x > y), Pairs(LAMBDA x, y : x % 10 < y % 10),
             Pairs(LAMBDA x, y : x \div 20 < y \div 20)}
MCMemories == UNION {[0 .. n - 1 -> MCValues] : n \in 0 .. 5}
ArraysView == arr
=============================================================================
