------------------------------ MODULE MCLibraries -------------------------------
(* Parts that stand alone, side by side: the timers with the threads that wait for   *)
(* them, the calls on an array, the calls on two JSON values and the patterns of log *)
(* lines.  They share no state; a behaviour belongs to one of them, part, and the    *)
(* others rest.                                                                     *)
EXTENDS MCArrays, LeptJson, LogFormat, Timer

VARIABLE part

MCItemNames == {<<"d">>, <<"T">>}

StringA == Str(<<"a">>)
MCItems == {StringA, Array(<<StringA>>, 1)}
MCKeys == {<<"a">>, <<"b">>}

q == "\""
\* Texts a run goes on from, texts that are only parsed, and all the one-symbol edits
\* of both.
MCDocuments == {<<"[", q, "a", q, "]">>,
                <<"{", q, "a", q, ":", q, "a", q, ",", q, "b", q, ":", "null", "}">>}
Bases == MCDocuments \cup
    {<<" ", "true", " ">>, <<"[", "]">>, <<"-", "0", ".", "0", "1", "e", "-", "1">>, <<"huge", "e", "1">>, <<"0", "e", "huge">>,
     <<"1", "e", "-", "huge">>,
     <<q, "a", "\\", "n", "wide", q>>, <<q, "\\", "u", "h:hi", "\\", "u", "h:lo", q>>,
     <<q, "\\", "u", "h:ctl", "\\", "u", "h:wide", q>>,
     <<"[", "null", " ", ",", "[", "1", "]", "]">>,
     <<"[", "{", "}", ",", " ", q, "a", q, "]">>,
     <<"{", q, "a", q, " ", ":", "[", q, "b", q, "]", ",", q, "b", q, ":", "0", "}">>}
Alphabet == {"true", "tru", "0", "1", "huge", "-", "+", ".", "e", q, "\\", "n", "u", "h:ctl", "h:wide",
             "h:hi", "h:lo", "nl", "ctl", "a", "[", "]", "{", "}", ",", ":", " "}
Edits(t) == {RemoveAt(t, i) : i \in DOMAIN t}
            \cup {ReplaceAt(t, i, x) : i \in DOMAIN t, x \in Alphabet}
            \cup {InsertAt(t, i, x) : i \in 1 .. Len(t) + 1, x \in Alphabet}
MCTexts == Bases \cup UNION {Edits(t) : t \in Bases}

Init == /\ part \in {"timers", "arrays", "json", "formats"}
        /\ TimerInit /\ JsonInit /\ FormatInit
        /\ IF part = "arrays" THEN ArraysInit ELSE arr = <<>> /\ last_call = [op |-> <<"rest">>, ret |-> 0]

Next == /\ UNCHANGED part
        /\ \/ part = "timers"  /\ TimerNext  /\ UNCHANGED <<avars, jvars, formatVars>>
           \/ part = "arrays"  /\ ArraysNext /\ UNCHANGED <<tvars, jvars, formatVars>>
           \/ part = "json"    /\ JsonNext   /\ UNCHANGED <<tvars, avars, formatVars>>
           \/ part = "formats" /\ FormatNext /\ UNCHANGED <<tvars, avars, jvars>>

Spec == Init /\ [][Next]_<<part, tvars, avars, jvars, formatVars>>

\* What is left of a timer that has no callback says nothing any more: only timers in
\* the set are looked at, and none comes back to it.
TimersView ==
  <<[t \in m_timers |-> <<m_next[t], m_ms[t]>>], m_cb, created, m_tickled, m_previouseTimer, clock,
    setBack, owed, wake, waiterVars, crashed>>

\* States that differ only in the last call on the array, or in what a timer that is not
\* set had, are explored once; the action properties are evaluated on every step.
LibrariesView == <<part, TimersView, arr, JsonView, formatVars>>

\* The waiters are interchangeable; timers are not, since some are recurring.
Symmetry == Permutations(Waiters)
=============================================================================
