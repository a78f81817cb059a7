------------------------------- MODULE LogFormat -------------------------------
(* LogFormatter::init (log.cpp): how a pattern such as %d{%H:%M} [%p] %m%n becomes   *)
(* the list of items a log line is written with.  A pattern is a sequence of       *)
(* characters; a string of it is an item's text, an item's name or its format.     *)
EXTENDS Naturals, Sequences, SequencesExt, FiniteSetsExt

CONSTANTS Letters,         \* what isalpha accepts
          ItemNames,       \* the keys of s_format_items, sequences of letters
          Characters,      \* what a pattern is made of
          MaxPattern       \* a bound on its length

ASSUME FormatAssumption ==
    /\ Letters \subseteq Characters /\ {"%", "{", "}"} \subseteq Characters \ Letters
    /\ ItemNames \subseteq Seq(Letters) \ {<<>>}

VARIABLES m_pattern_, m_items_, m_error_

formatVars == <<m_pattern_, m_items_, m_error_>>

String(s)    == [text |-> s]
Named(s, fmt) == [name |-> s, fmt |-> fmt]
Unreadable   == [name |-> <<"<<pattern_error">>, fmt |-> <<>>]
IsNamed(x)   == "name" \in DOMAIN x
TextBefore(nstr) == IF nstr = <<>> THEN <<>> ELSE <<String(nstr)>>

\* The first position after i of a character in S, if there is one.
Places(p, i, S) == {n \in i + 1 .. Len(p) : p[n] \in S}
NextOf(p, i, S) == IF Places(p, i, S) = {} THEN Len(p) + 1 ELSE Min(Places(p, i, S))

\* Fault: the character after the item is left out.
ReadItemPast(p, i) ==
    LET stop == NextOf(p, i, Characters \ (Letters \cup {"}"}))
    IN  [item |-> Named(SubSeq(p, i + 1, stop - 1), <<>>), next |-> stop + 1]

\* The item whose % is at i: the name goes on to a character that is neither a letter
\* nor }; after { the format goes on to }, and without one the % is given up.
ReadItem(p, i) ==
    LET stop  == NextOf(p, i, Characters \ (Letters \cup {"}"}))
        close == NextOf(p, stop, {"}"})
        name  == SubSeq(p, i + 1, stop - 1)
    IN  IF stop > Len(p) \/ p[stop] # "{" THEN [item |-> Named(name, <<>>), next |-> stop]
        ELSE IF close <= Len(p)
        THEN [item |-> Named(name, SubSeq(p, stop + 1, close - 1)), next |-> close + 1]
        ELSE [item |-> Unreadable, next |-> i + 1]

RECURSIVE Parts(_, _, _, _)
\* The loop of init, at i, with the text nstr not yet in vec.  After %% it goes on with
\* the second %, and an unreadable item comes before the text it follows.
Parts(p, i, nstr, vec) ==
    IF i > Len(p) THEN vec \o TextBefore(nstr)
    ELSE IF p[i] # "%" THEN Parts(p, i + 1, Append(nstr, p[i]), vec)
    ELSE IF i < Len(p) /\ p[i + 1] = "%" THEN Parts(p, i + 1, Append(nstr, "%"), vec)
    ELSE LET r == ReadItem(p, i)
         IN  IF r.item = Unreadable THEN Parts(p, r.next, nstr, Append(vec, Unreadable))
             ELSE Parts(p, r.next, <<>>, Append(vec \o TextBefore(nstr), r.item))

Unknown(x) == IsNamed(x) /\ x.name \notin ItemNames

FormatInit == m_pattern_ = <<>> /\ m_items_ = <<>> /\ m_error_ = FALSE

\* The constructor, given any pattern; the patterns are enumerated by their length.
LogFormatter(p) ==
    /\ m_pattern_' = p
    /\ m_items_' = Parts(p, 1, <<>>, <<>>)
    /\ m_error_' = \E i \in DOMAIN m_items_' : Unknown(m_items_'[i])

FormatNext ==
    \E c \in Characters : Len(m_pattern_) < MaxPattern /\ LogFormatter(Append(m_pattern_, c))

-----------------------------------------------------------------------------
\* The text that stands for an item in a pattern, without and with a format.
Spellings(x) ==
    IF IsNamed(x) THEN {<<"%">> \o x.name \o <<"{">> \o x.fmt \o <<"}">>}
                       \cup IF x.fmt = <<>> THEN {<<"%">> \o x.name} ELSE {}
    ELSE {x.text}

\* Where the first n characters of s are one item of the form %xxx, %xxx{xxx} or a text.
HasForm(s) ==
    \/ s # <<>> /\ \A i \in DOMAIN s : s[i] # "%"
    \/ s # <<>> /\ s[1] = "%" /\ Tail(s) \in ItemNames
    \/ \E name \in ItemNames : LET n == Len(name) + 2 IN
          /\ Len(s) > n /\ SubSeq(s, 1, n) = <<"%">> \o name \o <<"{">>
          /\ \A i \in n + 1 .. Len(s) : s[i] = "}" <=> i = Len(s)

RECURSIVE WellFormed(_, _)
\* Whether s can be cut into such items; a text is not cut, and a name ends before a
\* letter or a brace.
WellFormed(s, last) ==
    \/ s = <<>>
    \/ \E n \in 1 .. Len(s) :
          LET head == SubSeq(s, 1, n)
              kind == IF head[1] # "%" THEN "text" ELSE IF Last(head) = "}" THEN "format" ELSE "name"
          IN  /\ HasForm(head)
              /\ kind = "text" => last # "text" /\ (last = "name" => s[1] \notin Letters \cup {"{", "}"})
              /\ WellFormed(SubSeq(s, n + 1, Len(s)), kind)

RECURSIVE Spelled(_, _)
\* Whether items, written one after the other, give s.
Spelled(items, s) ==
    IF items = <<>> THEN s = <<>>
    ELSE \E head \in Spellings(Head(items)) :
            IsPrefix(head, s) /\ Spelled(Tail(items), SubSeq(s, Len(head) + 1, Len(s)))

\* What the comment at log.cpp:309 says of patterns, but for %%: those made of texts and
\* items %xxx and %xxx{xxx} with known names are accepted, all others are rejected, and
\* the items of an accepted one are, in order and complete, what its text says.  Whether
\* a configuration takes effect hangs on it (log.cpp:487, 886).
PatternsAreRead ==
    (\A i \in 1 .. Len(m_pattern_) - 1 : ~(m_pattern_[i] = "%" /\ m_pattern_[i + 1] = "%")) =>
        /\ m_error_ = ~WellFormed(m_pattern_, "none")
        /\ ~m_error_ => Spelled(m_items_, m_pattern_)
=============================================================================
