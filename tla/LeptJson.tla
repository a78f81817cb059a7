-------------------------------- MODULE LeptJson --------------------------------
(* The JSON values of src/MyJson/tutorial08/leptjson.cpp and the calls a program  *)
(* makes on two of them, v and w.  live counts the heap blocks held, fault names  *)
(* the first failed assertion, access outside a block or use of a member that was *)
(* never set, after which the program is not followed; leaky says that a call has *)
(* dropped blocks for good, and issued is the last call.                          *)
(*                                                                                *)
(* Elements and members are written through the pointer that the call returns;    *)
(* the calls here do both in one step.  Memory that the code leaves unset holds   *)
(* any value: the capacity after a parse or a copy is chosen from 0 .. MaxCap.    *)
EXTENDS LeptText, FiniteSets

CONSTANTS Texts,            \* texts given to lept_parse
          Items,            \* values stored into arrays and objects
          Keys,             \* keys of objects
          Documents,        \* the texts among them that a run goes on from
          MaxLen, MaxCap,   \* bounds of the calls: longest container, largest capacity
          ObjectInitSize    \* LEPT_PARSE_OBJECT_INIT_SIZE

VARIABLES v, w, live, fault, leaky, issued

jvars == <<v, w, live, fault, leaky, issued>>

\* A member slot nobody has written; the key alone stands for one that was freed or
\* moved to another slot.
Garbage == [k |-> <<"?">>, v |-> [t |-> "garbage"]]

JsonInit ==
    /\ v = Null /\ w = Null
    /\ live = 0
    /\ fault = "none" /\ leaky = FALSE
    /\ issued = <<"none">>

-----------------------------------------------------------------------------
Contents(x) == CASE x.t = "array" -> x.e [] x.t = "object" -> Members(x) [] OTHER -> <<>>

RECURSIVE Readable(_)
\* Every element of x lies in its block and every member has been written.
Readable(x) ==
    CASE x.t = "array"  -> Len(x.e) <= x.alloc /\ \A i \in DOMAIN x.e : Readable(x.e[i])
      [] x.t = "object" -> \A i \in 1 .. x.size : x.m[i].k # Garbage.k /\ Readable(x.m[i].v)
      [] OTHER -> TRUE

\* x with the unset capacity of its outermost container.
Unset(x) == IF x.t \in {"array", "object"} THEN {[x EXCEPT !.cap = n] : n \in 0 .. MaxCap}
            ELSE {x}

RECURSIVE CopyOf(_)
\* What lept_copy makes of x: malloc(0), too, returns a block.
CopyOf(x) ==
    CASE x.t = "array"  -> Array([i \in DOMAIN x.e |-> CopyOf(x.e[i])], 1)
      [] x.t = "object" ->
           Object([i \in 1 .. x.size |-> [k |-> x.m[i].k, v |-> CopyOf(x.m[i].v)]], 1)
      [] OTHER -> x

RECURSIVE IsEqual(_, _)
\* lept_is_equal: members are compared in their order.
IsEqual(x, y) ==
    /\ x.t = y.t
    /\ x.t = "number" => (x.zero /\ y.zero) \/ x = y
    /\ x.t = "string" => x.s = y.s
    /\ x.t \in {"array", "object"} => Len(Contents(x)) = Len(Contents(y))
    /\ x.t = "array"  => \A i \in DOMAIN x.e : IsEqual(x.e[i], y.e[i])
    /\ x.t = "object" => \A i \in 1 .. x.size : /\ x.m[i].k = y.m[i].k
                                                /\ IsEqual(x.m[i].v, y.m[i].v)

-----------------------------------------------------------------------------
\* A call fails, or sets v and the number of live blocks.
Fail(op, why) == /\ fault' = why /\ issued' = op
                 /\ UNCHANGED <<v, w, live, leaky>>
Set(op, x, n) == /\ v' = x /\ live' = n /\ issued' = op
                 /\ UNCHANGED <<w, fault, leaky>>

\* A call that walks through all of x.
Walk(op, x, A) == IF Readable(x) THEN A ELSE Fail(op, "unset memory read")

\* lept_parse into a value the caller has freed; a run goes on from a text only
\* while nothing is held or lost.
ParseText ==
    /\ v = Null /\ w = Null /\ ~leaky
    /\ \E text \in Texts :
        LET r == Parse(text, 0)
        IN  /\ issued' = <<"parse", text, r.ret>>
            /\ fault' = IF r.c.stack = <<>> THEN fault ELSE "stack not empty"
            /\ v' \in Unset(r.v)
            /\ live' = live + r.c.live
            /\ leaky' = (r.ret = "ROOT_NOT_SINGULAR" /\ r.c.live > 0)
            /\ UNCHANGED w

\* lept_free, and the setters, which free the old value first.
SetValue ==
    \E x \in Items \cup {Null} :
        Walk(<<"set", x>>, v, Set(<<"set", x>>, x, live - Blocks(v) + Blocks(x)))

\* lept_set_array, lept_set_object
SetArray ==
    \E n \in 0 .. MaxCap :
        LET op == <<"set_array", n>>
            x  == [t |-> "array", e |-> <<>>, own |-> IF n > 0 THEN 1 ELSE 0,
                   cap |-> n, alloc |-> n]
        IN  Walk(op, v, Set(op, x, live - Blocks(v) + x.own))

SetObject ==
    \E n \in 0 .. MaxCap :
        LET op == <<"set_object", n>>
            x  == [t |-> "object", m |-> [i \in 1 .. n |-> Garbage], size |-> 0,
                   own |-> IF n > 0 THEN 1 ELSE 0, cap |-> n]
        IN  Walk(op, v, Set(op, x, live - Blocks(v) + x.own))

\* lept_move that forgets to free the target first.
MoveOverLive == /\ w' = v /\ v' = Null
                /\ issued' = <<"move">>
                /\ UNCHANGED <<live, fault, leaky>>

\* lept_copy(&w, &v), lept_move(&w, &v), lept_swap(&v, &w)
Copy == Walk(<<"copy">>, w,
             Walk(<<"copy">>, v,
                  /\ w' \in Unset(CopyOf(v))
                  /\ live' = live - Blocks(w) + Blocks(CopyOf(v))
                  /\ issued' = <<"copy">>
                  /\ UNCHANGED <<v, fault, leaky>>))

Move == Walk(<<"move">>, w,
             /\ w' = v /\ v' = Null
             /\ live' = live - Blocks(w)
             /\ issued' = <<"move">>
             /\ UNCHANGED <<fault, leaky>>)

Swap == /\ v' = w /\ w' = v
        /\ issued' = <<"swap">>
        /\ UNCHANGED <<live, fault, leaky>>

-----------------------------------------------------------------------------
(* Arrays.                                                                       *)
Size == Len(v.e)
Total(xs) == FoldLeft(LAMBDA n, x : n + Blocks(x), 0, xs)

\* lept_reserve_array: realloc keeps n slots, also when that is fewer than before.
Reserved(a, n) == IF a.cap < n THEN [a EXCEPT !.cap = n, !.alloc = n, !.own = 1] ELSE a

ReserveArray ==
    \E n \in 0 .. MaxCap :
        LET x == Reserved(v, n)
        IN  /\ v.t = "array"
            /\ Set(<<"reserve", n>>, x, live + x.own - v.own)

\* lept_shrink_array: realloc(e, 0) frees the block, realloc(NULL, 0) makes one.
ShrinkArray ==
    LET x == [v EXCEPT !.cap = Size, !.alloc = Size,
                       !.own = IF Size = 0 THEN 1 - @ ELSE @]
    IN  /\ v.t = "array"
        /\ IF v.cap > Size THEN Set(<<"shrink">>, x, live + x.own - v.own)
           ELSE Set(<<"shrink">>, v, live)

\* lept_pushback_array_element, and the caller's write to the element.
PushBack ==
    \E x \in Items :
        LET op == <<"pushback", x>>
            a  == IF Size = v.cap THEN Reserved(v, IF v.cap = 0 THEN 1 ELSE 2 * v.cap) ELSE v
        IN  /\ v.t = "array" /\ Size < MaxLen
            /\ IF Size >= a.alloc THEN Fail(op, "past the block")
               ELSE Set(op, [a EXCEPT !.e = Append(@, x)],
                        live + a.own - v.own + Blocks(x))

\* lept_popback_array_element
PopBack == /\ v.t = "array" /\ Size > 0
           /\ Walk(<<"popback">>, v, Set(<<"popback">>, [v EXCEPT !.e = Front(@)],
                                         live - Blocks(Last(v.e))))

\* lept_get_array_element, and the caller's write to the element.
SetElement ==
    \E x \in Items, i \in DOMAIN Contents(v) :
        /\ v.t = "array"
        /\ Walk(<<"element", i, x>>, v,
                Set(<<"element", i, x>>, [v EXCEPT !.e[i] = x],
                    live - Blocks(v.e[i]) + Blocks(x)))

\* lept_insert_array_element doubles len, the number of elements, where it means the
\* capacity, and then copies the last element to the slot after the block.
InsertElement ==
    \E i \in 0 .. MaxLen + 1 :
        /\ v.t = "array"
        /\ IF i > Size THEN Set(<<"insert", i>>, v, live)
           ELSE Fail(<<"insert", i>>, "past the block")

\* lept_erase_array_element: each element from i on is freed and set to a copy of the
\* one n places after it; then the last n are freed.
Erase(op, i, n) ==
    LET k    == IF i + n <= Size THEN n ELSE Size - i
        kept == Size - k
        x    == [j \in 1 .. kept |-> IF j <= i THEN v.e[j] ELSE CopyOf(v.e[j + k])]
    IN  IF i >= Size THEN Fail(op, "assertion")
        ELSE IF k = 0 THEN Fail(op, "assertion in copy")
        ELSE Walk(op, v, Set(op, [v EXCEPT !.e = x],
                             live - Total(SubSeq(v.e, i + 1, kept))
                                  + Total(SubSeq(x, i + 1, kept))
                                  - Total(SubSeq(v.e, kept + 1, Size))))

EraseElements == \E i \in 0 .. MaxLen, n \in 0 .. MaxLen :
                     v.t = "array" /\ Erase(<<"erase", i, n>>, i, n)

\* lept_clear_array
ClearArray == v.t = "array" /\ Erase(<<"clear">>, 0, Size)

-----------------------------------------------------------------------------
(* Objects.                                                                      *)

\* lept_find_object_index; 0 stands for LEPT_KEY_NOT_EXIST.
FindIndex(o, k) ==
    LET found == {i \in 1 .. o.size : o.m[i].k = k}
    IN  IF found = {} THEN 0 ELSE CHOOSE i \in found : \A j \in found : i <= j

RECURSIVE Grown(_, _)
\* The growth by half in lept_reserve_object; a size of 1 stays 1 for ever: 0.
Grown(size, n) == CASE size >= n -> size
                    [] size < n /\ size = 1 -> 0
                    [] size < n /\ size # 1 -> Grown(size + size \div 2, n)

\* lept_reserve_object takes the number of members for the capacity.
ReservedObject(o, n) ==
    LET size == Grown(IF o.size = 0 THEN ObjectInitSize ELSE o.size, n)
    IN  IF o.size >= n THEN o
        ELSE [o EXCEPT !.size = size, !.own = 1,
                       !.m = [i \in 1 .. size |-> IF i <= Len(o.m) THEN o.m[i] ELSE Garbage]]

Hangs(o, n) == o.size = 1 /\ n > 1

ReserveObject ==
    \E n \in 0 .. MaxCap :
        LET x == ReservedObject(v, n)
        IN  /\ v.t = "object"
            /\ IF Hangs(v, n) THEN Fail(<<"reserve_object", n>>, "no end")
               ELSE Set(<<"reserve_object", n>>, x, live + x.own - v.own)

\* lept_set_object_value, and the caller's write to the member.  A new member is put
\* behind the last one, and the value that was there before is freed.
SetMember ==
    \E k \in Keys, x \in Items :
        LET op   == <<"member", k, x>>
            i    == FindIndex(v, k)
            want == IF v.size = 0 THEN ObjectInitSize
                    ELSE IF v.size >= v.cap THEN 2 * v.cap ELSE 0
            o    == ReservedObject(v, want)
            at   == o.size + 1
        IN  /\ v.t = "object" /\ v.size < MaxLen
            /\ Walk(op, v,
                 IF i # 0
                 THEN Set(op, [v EXCEPT !.m[i].v = x],
                          live - Blocks(v.m[i].v) + Blocks(x))
                 ELSE IF Hangs(v, want) THEN Fail(op, "no end")
                 ELSE IF at > Len(o.m) THEN Fail(op, "past the block")
                 ELSE IF o.m[at].v = Garbage.v THEN Fail(op, "unset memory read")
                 ELSE IF Blocks(o.m[at].v) > 0 THEN Fail(op, "freed twice")
                 ELSE Set(op, [o EXCEPT !.m[at] = [k |-> k, v |-> x], !.size = at],
                          live + 1 + Blocks(x)))

\* lept_remove_object_value that leaves the following members in their slots.
RemoveInPlace ==
    \E i \in DOMAIN Contents(v) :
        /\ v.t = "object"
        /\ Walk(<<"remove", i>>, v,
                Set(<<"remove", i>>, [v EXCEPT !.m[i].v = Null, !.size = @ - 1],
                    live - 1 - Blocks(v.m[i].v)))

\* lept_remove_object_value: the slot of the last member keeps what it held.
RemoveMember ==
    \E i \in DOMAIN Contents(v) :
        LET gone == [v.m EXCEPT ![i].v = Null]
            m    == [j \in DOMAIN v.m |->
                       CASE j \in i .. v.size - 1 -> v.m[j + 1]
                         [] j = v.size -> [gone[j] EXCEPT !.k = Garbage.k]
                         [] OTHER -> gone[j]]
        IN  /\ v.t = "object"
            /\ Walk(<<"remove", i>>, v,
                    Set(<<"remove", i>>, [v EXCEPT !.m = m, !.size = @ - 1],
                        live - 1 - Blocks(v.m[i].v)))

\* lept_clear_object
ClearObject == /\ v.t = "object"
               /\ Walk(<<"clear_object">>, v,
                       Set(<<"clear_object">>, [v EXCEPT !.m = <<>>, !.size = 0, !.own = 0],
                           live - Blocks(v)))

RECURSIVE ShrinkTo(_, _)
ShrinkTo(n, size) == IF n * 3 < size * 2 THEN ShrinkTo((n * 3) \div 2, size) ELSE n

\* lept_shrink_object takes the number of members for the capacity: it drops members,
\* frees their keys and forgets their values.
ShrinkObject ==
    LET n    == ShrinkTo(ObjectInitSize, v.size)
        lost == [i \in 1 .. v.size - n |-> v.m[n + i].v]
    IN  /\ v.t = "object"
        /\ IF v.size <= ObjectInitSize THEN Set(<<"shrink_object">>, v, live)
           ELSE Walk(<<"shrink_object">>, v,
                     /\ v' = [v EXCEPT !.m = SubSeq(@, 1, n), !.size = n]
                     /\ live' = live - Len(lost)
                     /\ leaky' = (leaky \/ Total(lost) > 0)
                     /\ issued' = <<"shrink_object">>
                     /\ UNCHANGED <<w, fault>>)

-----------------------------------------------------------------------------
\* Documents bounds a run: it goes on from these texts only.
JsonNext ==
    /\ fault = "none"
    /\ issued[1] = "parse" => issued[2] \in Documents
    /\ \/ ParseText \/ SetValue \/ SetArray \/ SetObject \/ Copy \/ Move \/ Swap
       \/ ReserveArray \/ ShrinkArray \/ PushBack \/ PopBack \/ SetElement
       \/ InsertElement \/ EraseElements \/ ClearArray
       \/ ReserveObject \/ SetMember \/ RemoveMember \/ ClearObject \/ ShrinkObject

\* States that differ only in the last call are explored once; the action property is
\* evaluated on every step.
JsonView == <<v, w, live, fault, leaky, IF issued[1] = "parse" THEN issued ELSE <<>>>>

JsonSpec == JsonInit /\ [][JsonNext]_jvars

-----------------------------------------------------------------------------
(* Properties.                                                                   *)

\* Every block is owned by one of the two values, through all copies, moves, erasures
\* and failed parses: a program that frees both has freed everything, once.  A call
\* that is known to lose blocks sets leaky: a text with more than one root (lept_parse,
\* leptjson.cpp:336) and lept_shrink_object (leptjson.cpp:805).
MemoryBalances ==
    fault = "none" /\ ~leaky /\ Readable(v) /\ Readable(w) => live = Blocks(v) + Blocks(w)

\* The grammar of JSON, by splitting a text; \u with a low surrogate alone is in the
\* grammar, with a high one alone it is not.
SplitAt(s, sym) == {i \in DOMAIN s : s[i] = sym}
Before(s, i) == SubSeq(s, 1, i - 1)
After(s, i)  == SubSeq(s, i + 1, Len(s))
Inner(s) == SubSeq(s, 2, Len(s) - 1)
Between(s, first, last) == Len(s) > 1 /\ Head(s) = first /\ Last(s) = last

Trim(s) == LET solid == {i \in DOMAIN s : s[i] # " "}
           IN  IF solid = {} THEN <<>>
               ELSE SubSeq(s, CHOOSE i \in solid : \A j \in solid : i <= j,
                              CHOOSE i \in solid : \A j \in solid : i >= j)

IsDigits(s) == s # <<>> /\ \A i \in DOMAIN s : s[i] \in Digits
IsExponent(s) == \/ IsDigits(s)
                 \/ Len(s) > 1 /\ Head(s) \in {"+", "-"} /\ IsDigits(Tail(s))
IsInteger(s) == s = <<"0">> \/ (IsDigits(s) /\ Head(s) # "0")
IsDecimal(s) == IsInteger(s) \/ \E i \in SplitAt(s, ".") :
                                   IsInteger(Before(s, i)) /\ IsDigits(After(s, i))
IsUnsigned(s) == IsDecimal(s) \/ \E i \in SplitAt(s, "e") :
                                   IsDecimal(Before(s, i)) /\ IsExponent(After(s, i))
IsNumber(s) == \/ IsUnsigned(s)
               \/ Len(s) > 1 /\ Head(s) = "-" /\ IsUnsigned(Tail(s))

Escapes == {<<"\\", ch>> : ch \in {"\"", "\\", "n"}}
           \cup {<<"\\", "u", h>> : h \in {"h:ctl", "h:wide", "h:lo"}}
           \cup {<<"\\", "u", "h:hi", "\\", "u", "h:lo">>}

RECURSIVE IsChars(_)
IsChars(s) ==
    \/ s = <<>>
    \/ s # <<>> /\ Head(s) \notin {"\"", "\\", "nl", "ctl"} /\ IsChars(Tail(s))
    \/ \E x \in Escapes : IsPrefix(x, s) /\ IsChars(SubSeq(s, Len(x) + 1, Len(s)))

IsString(s) == Between(s, "\"", "\"") /\ IsChars(Inner(s))

RECURSIVE IsValue(_), IsList(_, _)
IsItem(s, named) ==
    IF named THEN \E i \in SplitAt(s, ":") : IsString(Trim(Before(s, i))) /\ IsValue(Trim(After(s, i)))
    ELSE IsValue(Trim(s))
IsList(s, named) ==
    \/ IsItem(s, named)
    \/ \E i \in SplitAt(s, ",") : IsItem(Before(s, i), named) /\ IsList(After(s, i), named)
IsValue(s) ==
    \/ Len(s) = 1 /\ Head(s) \in Literals
    \/ IsNumber(s)
    \/ IsString(s)
    \/ Between(s, "[", "]") /\ (Trim(Inner(s)) = <<>> \/ IsList(Inner(s), FALSE))
    \/ Between(s, "{", "}") /\ (Trim(Inner(s)) = <<>> \/ IsList(Inner(s), TRUE))

\* lept_parse accepts exactly the texts of the grammar, but for numbers that overflow,
\* leaves the value null when it fails, and reads back what lept_stringify writes of
\* any value that the calls can make (leptjson.cpp:325-449).
ParsesExactlyJson ==
    /\ issued[1] = "parse" =>
         /\ issued[3] = "OK" => IsValue(Trim(issued[2]))
         /\ IsValue(Trim(issued[2])) => issued[3] \in {"OK", "NUMBER_TOO_BIG"}
         /\ issued[3] # "OK" => v = Null
    /\ fault = "none" /\ Readable(v) =>
         LET r == Parse(Text(v), 0) IN r.ret = "OK" /\ IsEqual(r.v, v)

RECURSIVE Meaning(_)
\* A value without its capacities and blocks.
Meaning(x) ==
    CASE x.t = "array"  -> <<"array", [i \in DOMAIN x.e |-> Meaning(x.e[i])]>>
      [] x.t = "object" -> <<"object", [i \in 1 .. x.size |-> <<x.m[i].k, Meaning(x.m[i].v)>>]>>
      [] OTHER -> <<x.t, x>>

Without(s, i, n) == SubSeq(s, 1, i) \o SubSeq(s, i + n + 1, Len(s))

\* The members of an object after a call that sets k to x.
WithMember(ms, k, x) ==
    IF \E i \in DOMAIN ms : ms[i][1] = k
    THEN [i \in DOMAIN ms |-> IF ms[i][1] = k /\ \A j \in 1 .. i - 1 : ms[j][1] # k
                              THEN <<k, x>> ELSE ms[i]]
    ELSE Append(ms, <<k, x>>)

\* What v means after op, when it meant x before and w meant y.
Expected(op, x, y) ==
    CASE op[1] \in {"copy", "shrink", "insert"} -> x
      [] op[1] = "set"          -> Meaning(op[2])
      [] op[1] = "set_array"    -> <<"array", <<>>>>
      [] op[1] = "set_object"   -> <<"object", <<>>>>
      [] op[1] = "move"         -> Meaning(Null)
      [] op[1] = "swap"         -> y
      [] op[1] = "pushback"     -> <<"array", Append(x[2], Meaning(op[2]))>>
      [] op[1] = "popback"      -> <<"array", Front(x[2])>>
      [] op[1] = "element"      -> <<"array", [x[2] EXCEPT ![op[2]] = Meaning(op[3])]>>
      [] op[1] = "erase"        -> <<"array", Without(x[2], op[2], op[3])>>
      [] op[1] = "clear"        -> <<"array", <<>>>>
      [] op[1] = "member"       -> <<"object", WithMember(x[2], op[2], Meaning(op[3]))>>
      [] op[1] = "remove"       -> <<"object", Without(x[2], op[2] - 1, 1)>>
      [] op[1] = "clear_object" -> <<"object", <<>>>>

\* The calls whose contents follow from their names; the others have known faults.
Followed == {"copy", "shrink", "insert", "set", "set_array", "set_object", "move", "swap",
             "pushback", "popback", "element", "erase", "clear", "member", "remove",
             "clear_object"}

\* What the known faults need: a capacity that was never set (after a parse or a copy),
\* an erasure of nothing, an insertion, or a new member of an object.
MayFail(op, x) ==
    \/ op[1] = "insert"
    \/ op[1] = "pushback" /\ x.cap # x.alloc
    \/ op[1] = "clear" /\ x.e = <<>>
    \/ op[1] = "erase" /\ (op[3] = 0 \/ op[2] >= Len(x.e))
    \/ op[1] \in {"member", "reserve_object"}

\* Through any sequence of calls a value holds what the calls put into it, a copy or
\* move equals its source, and no call fails but where MayFail says so, as long as
\* lept_reserve_* has not cut or stretched the container (leptjson.cpp:485-915).
ContentsFollowCalls ==
    [][LET calm == issued'[1] \in Followed /\ Readable(v) /\ Readable(w)
       IN  /\ calm /\ fault' = "none" => Meaning(v') = Expected(issued', Meaning(v), Meaning(w))
           /\ calm /\ fault' = "none" /\ issued'[1] \in {"copy", "move"} => Meaning(w') = Meaning(v)
           /\ calm /\ fault' # "none" => MayFail(issued', v)
           /\ calm /\ fault' = "none" /\ issued'[1] = "copy" => IsEqual(v', w')]_jvars
=============================================================================
