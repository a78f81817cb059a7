----------------------------- MODULE MCLogConf -----------------------------
(***************************************************************************)
(* One logger beside the root logger and three values: nothing defined, a  *)
(* file alone, and a file with a pattern of its own beside stdout.  Setters, *)
(* and threads that log, are interchangeable.                              *)
(***************************************************************************)
EXTENDS LogConf, TLC

CONSTANTS A, f1, f2

Empty == [l \in {} |-> 0]
FileOnly == [l \in {A} |-> [level |-> 2, formatter |-> f2,
                            appenders |-> <<[kind |-> "file", formatter |-> BadFormat]>>]]
FileAndStdout ==
  [l \in {A} |-> [level |-> 1, formatter |-> NoFormat,
                  appenders |-> <<[kind |-> "stdout", formatter |-> NoFormat],
                                  [kind |-> "file", formatter |-> f1]>>]]
MCValues == {Empty, FileOnly, FileAndStdout}
MCNames == {A}
MCFormats == {f1, f2}

Symmetry == Permutations(Setters) \cup Permutations(Threads)
=============================================================================
