-------------------------------- MODULE LeptText --------------------------------
(* Reading and writing JSON text (src/MyJson/tutorial08/leptjson.cpp).          *)
(*                                                                               *)
(* A text is a sequence of symbols.  A symbol is a character or stands for a     *)
(* class of them: "a" and "b" are ordinary characters, "n" a letter that may     *)
(* follow a backslash, "nl" a control character with such a letter, "ctl" one    *)
(* without, "wide" and "pair" characters of three and four bytes, "0", "1" and   *)
(* "huge" runs of digits (the last overflows a double), "h:..." the four digits  *)
(* after \u, by the kind of code unit they give, and "tru" a word that starts    *)
(* like a literal and is none.  A number is its sign and whether it is zero.     *)
(*                                                                               *)
(* The context of lept_context is a record: p is c->json, stack the values       *)
(* pushed (characters are pushed and popped within one call, so that the stack   *)
(* shows values and members only), live the number of heap blocks held.          *)
EXTENDS Integers, Sequences, SequencesExt

Null == [t |-> "null"]
Literals == {"null", "true", "false"}
Digits == {"0", "1", "huge"}
Digits1to9 == Digits \ {"0"}

At(text, p) == IF p <= Len(text) THEN text[p] ELSE "end"

RECURSIVE SkipIn(_, _, _)
\* The first position from p on whose symbol is not in S.
SkipIn(text, p, S) == IF At(text, p) \in S THEN SkipIn(text, p + 1, S) ELSE p

\* lept_parse_whitespace
Whitespace(text, c) == [c EXCEPT !.p = SkipIn(text, @, {" "})]

-----------------------------------------------------------------------------
(* Heap blocks a value owns.  An array or object that was parsed with elements, *)
(* or allocated, owns its vector.                                                *)
Members(v) == SubSeq(v.m, 1, v.size)

RECURSIVE Blocks(_)
Blocks(v) ==
    CASE v.t = "string" -> 1
      [] v.t = "array"  -> FoldLeft(LAMBDA n, x : n + Blocks(x), v.own, v.e)
      [] v.t = "object" -> FoldLeft(LAMBDA n, m : n + 1 + Blocks(m.v), v.own, Members(v))
      [] OTHER          -> 0

\* An array has alloc slots and e in the first of them; an object has the slots m,
\* of which the first size are members.  The parser leaves cap unset: 0 stands for it.
Array(e, own)  == [t |-> "array", e |-> e, own |-> own, cap |-> 0, alloc |-> Len(e)]
Object(m, own) == [t |-> "object", m |-> m, own |-> own, cap |-> 0, size |-> Len(m)]
Str(s) == [t |-> "string", s |-> s]
Num(neg, zero) == [t |-> "number", neg |-> neg, zero |-> zero]

Result(ret, v, c) == [ret |-> ret, v |-> v, c |-> c]

-----------------------------------------------------------------------------
\* The end of a number's digits, point and exponent; 0 when the grammar is broken.
IntegerEnd(text, p) ==
    IF At(text, p) = "0" THEN p + 1
    ELSE IF At(text, p) \in Digits1to9 THEN SkipIn(text, p + 1, Digits) ELSE 0

\* A point that no digit needs to follow.
FractionEndLoose(text, p) == IF At(text, p) # "." THEN p ELSE SkipIn(text, p + 1, Digits)

FractionEnd(text, p) ==
    IF At(text, p) # "." THEN p
    ELSE IF At(text, p + 1) \in Digits THEN SkipIn(text, p + 2, Digits) ELSE 0

ExponentEnd(text, p) ==
    IF At(text, p) # "e" THEN p
    ELSE LET q == IF At(text, p + 1) \in {"+", "-"} THEN p + 2 ELSE p + 1
         IN  IF At(text, q) \in Digits THEN SkipIn(text, q + 1, Digits) ELSE 0

\* lept_parse_number: strtod overflows to HUGE_VAL, underflows to 0.
ParseNumber(text, c) ==
    LET neg   == At(text, c.p) = "-"
        p1    == IF neg THEN c.p + 1 ELSE c.p
        p2    == IntegerEnd(text, p1)
        p3    == IF p2 = 0 THEN 0 ELSE FractionEnd(text, p2)
        p4    == IF p3 = 0 THEN 0 ELSE ExponentEnd(text, p3)
        Some(S, p, q) == \E i \in p .. q - 1 : text[i] \in S
        zero  == ~Some(Digits1to9, p1, p3)
        tiny  == Some({"-"}, p3, p4) /\ Some({"huge"}, p3, p4)
        large == \/ Some({"huge"}, p3, p4)
                 \/ Some({"huge"}, p1, p2)
    IN  IF p4 = 0 THEN Result("INVALID_VALUE", Null, c)
        ELSE IF ~zero /\ ~tiny /\ large THEN Result("NUMBER_TOO_BIG", Null, c)
        ELSE Result("OK", Num(neg, zero \/ tiny), [c EXCEPT !.p = p4])

-----------------------------------------------------------------------------
\* What one escape after the backslash at position p - 1 gives: the character,
\* the position after it, and the error, if any.
Escape(text, p) ==
    LET hex  == At(text, p + 1)
        low  == At(text, p + 4)
        Got(ch, q) == [ret |-> "OK", ch |-> ch, p |-> q]
        Bad(ret)   == [ret |-> ret, ch |-> "", p |-> p]
        IsHex(h) == h \in {"h:ctl", "h:wide", "h:hi", "h:lo"}
    IN  CASE At(text, p) \in {"\"", "\\"} -> Got(At(text, p), p + 1)
          [] At(text, p) = "n" -> Got("nl", p + 1)
          [] At(text, p) = "u" /\ ~IsHex(hex) -> Bad("INVALID_UNICODE_HEX")
          [] At(text, p) = "u" /\ hex = "h:ctl"  -> Got("ctl", p + 2)
          [] At(text, p) = "u" /\ hex = "h:wide" -> Got("wide", p + 2)
          [] At(text, p) = "u" /\ hex = "h:lo"   -> Got("lone", p + 2)
          [] At(text, p) = "u" /\ hex = "h:hi" ->
               IF At(text, p + 2) # "\\" \/ At(text, p + 3) # "u"
               THEN Bad("INVALID_UNICODE_SURROGATE")
               ELSE IF ~IsHex(low) THEN Bad("INVALID_UNICODE_HEX")
               ELSE IF low # "h:lo" THEN Bad("INVALID_UNICODE_SURROGATE")
               ELSE Got("pair", p + 5)
          [] OTHER -> Bad("INVALID_STRING_ESCAPE")

RECURSIVE StringFrom(_, _, _)
\* The loop of lept_parse_string_raw: s is what it has pushed so far.
StringFrom(text, p, s) ==
    CASE At(text, p) = "\"" -> [ret |-> "OK", s |-> s, p |-> p + 1]
      [] At(text, p) = "\\" ->
           LET x == Escape(text, p + 1)
           IN  IF x.ret = "OK" THEN StringFrom(text, x.p, Append(s, x.ch))
               ELSE [ret |-> x.ret, s |-> s, p |-> p]
      [] At(text, p) = "end" -> [ret |-> "MISS_QUOTATION_MARK", s |-> s, p |-> p]
      [] At(text, p) \in {"nl", "ctl"} -> [ret |-> "INVALID_STRING_CHAR", s |-> s, p |-> p]
      [] OTHER -> StringFrom(text, p + 1, Append(s, At(text, p)))

\* lept_parse_string: lept_set_string copies the characters into a new block.
ParseString(text, c) ==
    LET r == StringFrom(text, c.p + 1, <<>>)
    IN  IF r.ret = "OK"
        THEN Result("OK", Str(r.s), [c EXCEPT !.p = r.p, !.live = @ + 1])
        ELSE Result(r.ret, Null, c)

-----------------------------------------------------------------------------
Push(c, x) == [c EXCEPT !.stack = Append(@, x)]
Pop(c, n)  == [c EXCEPT !.stack = SubSeq(@, 1, Len(@) - n)]
Top(c, n)  == SubSeq(c.stack, Len(c.stack) - n + 1, Len(c.stack))
Advance(c) == [c EXCEPT !.p = @ + 1]

RECURSIVE ParseValue(_, _), ParseElements(_, _, _), ParseMembers(_, _, _)

\* lept_parse_value
ParseValue(text, c) ==
    CASE At(text, c.p) \in Literals ->
           Result("OK", [t |-> At(text, c.p)], Advance(c))
      [] At(text, c.p) = "tru" -> Result("INVALID_VALUE", Null, c)
      [] At(text, c.p) = "\""  -> ParseString(text, c)
      [] At(text, c.p) = "["   ->
           LET d == Whitespace(text, Advance(c))
           IN  IF At(text, d.p) = "]" THEN Result("OK", Array(<<>>, 0), Advance(d))
               ELSE ParseElements(text, d, 0)
      [] At(text, c.p) = "{"   ->
           LET d == Whitespace(text, Advance(c))
           IN  IF At(text, d.p) = "}" THEN Result("OK", Object(<<>>, 0), Advance(d))
               ELSE ParseMembers(text, d, 0)
      [] At(text, c.p) = "end" -> Result("EXPECT_VALUE", Null, c)
      [] OTHER -> ParseNumber(text, c)

\* n elements, or members, are popped and freed.
FreeElements(c, n) == [Pop(c, n) EXCEPT !.live = @ - Blocks(Array(Top(c, n), 0))]
FreeMembers(c, n)  == [Pop(c, n) EXCEPT !.live = @ - Blocks(Object(Top(c, n), 0))]
\* The block of a key that is not in a member yet is freed.
FreeKey(c) == [c EXCEPT !.live = @ - 1]

\* size elements are pushed, the last one just now.
ElementPushed(text, c, size) ==
    CASE At(text, c.p) = "," -> ParseElements(text, Whitespace(text, Advance(c)), size)
      [] At(text, c.p) = "]" ->
           Result("OK", Array(Top(c, size), 1), [Pop(Advance(c), size) EXCEPT !.live = @ + 1])
      [] OTHER -> Result("MISS_COMMA_OR_SQUARE_BRACKET", Null, FreeElements(c, size))

ElementRead(text, r, size) ==
    IF r.ret # "OK" THEN Result(r.ret, Null, FreeElements(r.c, size))
    ELSE ElementPushed(text, Whitespace(text, Push(r.c, r.v)), size + 1)

\* The loop of lept_parse_array with size elements pushed.
ParseElements(text, c, size) == ElementRead(text, ParseValue(text, c), size)

MemberPushed(text, c, size) ==
    CASE At(text, c.p) = "," -> ParseMembers(text, Whitespace(text, Advance(c)), size)
      [] At(text, c.p) = "}" ->
           Result("OK", Object(Top(c, size), 1), [Pop(Advance(c), size) EXCEPT !.live = @ + 1])
      [] OTHER -> Result("MISS_COMMA_OR_CURLY_BRACKET", Null, FreeMembers(c, size))

MemberRead(text, k, r, size) ==
    IF r.ret # "OK" THEN Result(r.ret, Null, FreeMembers(FreeKey(r.c), size))
    ELSE MemberPushed(text, Whitespace(text, Push(r.c, [k |-> k, v |-> r.v])), size + 1)

KeyRead(text, k, c, size) ==
    IF At(text, c.p) # ":" THEN Result("MISS_COLON", Null, FreeMembers(FreeKey(c), size))
    ELSE MemberRead(text, k, ParseValue(text, Whitespace(text, Advance(c))), size)

MemberKey(text, c, key, size) ==
    IF key.ret # "OK" THEN Result(key.ret, Null, FreeMembers(c, size))
    ELSE KeyRead(text, key.s, Whitespace(text, [c EXCEPT !.p = key.p, !.live = @ + 1]), size)

\* The loop of lept_parse_object with size members pushed.
ParseMembers(text, c, size) ==
    IF At(text, c.p) # "\"" THEN Result("MISS_KEY", Null, FreeMembers(c, size))
    ELSE MemberKey(text, c, StringFrom(text, c.p + 1, <<>>), size)

\* lept_parse: a value followed by more text is dropped without being freed.
Parse(text, live) ==
    LET r == ParseValue(text, Whitespace(text, [p |-> 1, stack |-> <<>>, live |-> live]))
        c == Whitespace(text, r.c)
    IN  IF r.ret = "OK" /\ At(text, c.p) # "end"
        THEN Result("ROOT_NOT_SINGULAR", Null, c)
        ELSE Result(r.ret, r.v, c)

-----------------------------------------------------------------------------
\* lept_stringify_string: the bytes of a character above 0x7F are written as they are.
StringText(s) ==
    LET Out(ch) == CASE ch \in {"\"", "\\"} -> <<"\\", ch>>
                     [] ch = "nl"  -> <<"\\", "n">>
                     [] ch = "ctl" -> <<"\\", "u", "h:ctl">>
                     [] OTHER      -> <<ch>>
    IN  <<"\"">> \o FlattenSeq([i \in DOMAIN s |-> Out(s[i])]) \o <<"\"">>

RECURSIVE Text(_)
\* lept_stringify_value
Text(v) ==
    LET Listed(xs) == IF xs = <<>> THEN <<>> ELSE FoldLeft(LAMBDA a, b : a \o <<",">> \o b, Head(xs), Tail(xs))
    IN  CASE v.t \in Literals -> <<v.t>>
          [] v.t = "number"  -> (IF v.neg THEN <<"-">> ELSE <<>>)
                                \o <<IF v.zero THEN "0" ELSE "1">>
          [] v.t = "string"  -> StringText(v.s)
          [] v.t = "array"   -> <<"[">> \o Listed([i \in DOMAIN v.e |-> Text(v.e[i])]) \o <<"]">>
          [] v.t = "object"  ->
               <<"{">> \o Listed([i \in 1 .. v.size |->
                                    StringText(v.m[i].k) \o <<":">> \o Text(v.m[i].v)])
               \o <<"}">>
=============================================================================
