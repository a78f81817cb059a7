------------------------------- MODULE MCRuntime -------------------------------
(* What a server's parts stand on, side by side: buffers over the memory pool,     *)
(* threads with their fibers, and the configuration registry.  They share no       *)
(* state; a behaviour belongs to one of them, part, and the others rest.           *)
EXTENDS DataBuf, Fibers, ConfigMap

VARIABLE part

\* Two capacities, one chunk of each to begin with.
MCCaps == {1, 3}
MCInitial == [k \in MCCaps |-> 1]

\* Two documents: one with nested names, a name that may not be and texts that no
\* number has; one that gives the outer name a text.
Log == <<"log">>
Level == <<"log", "level">>
Nine == <<"port9">>
LevelIs(x) == MapNode([word \in {"level"} |-> TextNode(x)])
MCNames == {Log, Level, Nine}
MCDocs == {MapNode([word \in {"log", "Log", "level"} |-> IF word = "log" THEN LevelIs("1") ELSE TextNode("2")]),
           MapNode([word \in {"log", "Log"} |-> IF word = "log" THEN TextNode("1") ELSE LevelIs("2")])}

-----------------------------------------------------------------------------
Init == /\ part \in {"buffers", "fibers", "config"}
        /\ DataBufInit /\ FibersInit /\ ConfigMapInit

Next == /\ UNCHANGED part
        /\ \/ part = "buffers" /\ DataBufNext   /\ UNCHANGED <<fvars, cvars>>
           \/ part = "fibers"  /\ FibersNext    /\ UNCHANGED <<dvars, cvars>>
           \/ part = "config"  /\ ConfigMapNext /\ UNCHANGED <<dvars, fvars>>

Spec == Init /\ [][Next]_<<part, dvars, fvars, cvars>>

Symmetry == Permutations(Clients) \cup Permutations(Threads)
=============================================================================
