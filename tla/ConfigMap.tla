----------------------------- MODULE ConfigMap -----------------------------
(***************************************************************************)
(* config.h and config.cpp: the registry of configuration variables.       *)
(* Threads register and find variables by name and type, set those they    *)
(* hold, and load YAML documents, which sets every variable a document     *)
(* names, one after the other.                                             *)
(*                                                                         *)
(* A name is the sequence of its words, between dots.  A node of a         *)
(* document is a text or a map from words to nodes.  What the listeners of *)
(* a variable do is in module LogConf; here a call of setValue is its      *)
(* comparison, under the read lock, and its assignment, under the write    *)
(* lock.                                                                   *)
(***************************************************************************)
EXTENDS Naturals, Sequences, SequencesExt

CONSTANTS
  Clients,      \* threads
  BadWords,     \* words with a character no name may have
  LookUpNames,  \* names the threads look up
  Ints,         \* texts that are numbers
  Docs,         \* documents
  MaxVars,      \* a bound on the variables
  NoVar         \* nullptr

ASSUME ConfigMapAssumption == MaxVars \in Nat /\ NoVar \notin Nat

VARIABLES
  s_datas,      \* the map from names to variables
  objects,      \* the variables made so far: name, type, m_val
  obtained,     \* what each thread got from its last lookUp
  todo,         \* nodes its loadFromYaml has still to visit
  setter,       \* what its setValue will assign, and to which variable
  loading,      \* the document it loads, and the variables there were
  loaded        \* the last load that ran undisturbed, while nothing was set since

cvars == <<s_datas, objects, obtained, todo, setter, loading, loaded>>

Types == {"int", "string"}
TextNode(x) == [text |-> x]
MapNode(f)  == [map |-> f]
IsMap(node) == "map" \in DOMAIN node

Valid(name) == \A i \in DOMAIN name : name[i] \notin BadWords

CTypeOK ==
  /\ DOMAIN s_datas \subseteq LookUpNames
  /\ \A n \in DOMAIN s_datas : s_datas[n] \in DOMAIN objects
  /\ \A o \in DOMAIN objects : objects[o].type \in Types /\ objects[o].name \in LookUpNames
  /\ obtained \in [Clients -> {NoVar} \cup DOMAIN objects]

ConfigMapInit ==
  /\ s_datas = <<>> /\ objects = <<>>
  /\ obtained = [t \in Clients |-> NoVar]
  /\ todo = [t \in Clients |-> <<>>]
  /\ setter = [t \in Clients |-> NoVar]
  /\ loading = [t \in Clients |-> NoVar]
  /\ loaded = NoVar

Idle(t) == setter[t] = NoVar /\ loading[t] = NoVar

-----------------------------------------------------------------------------
Registered(n) == IF n \in DOMAIN s_datas THEN s_datas[n] ELSE NoVar
Register(t, n, type) ==
  /\ Len(objects) < MaxVars
  /\ objects' = Append(objects, [name |-> n, type |-> type, val |-> TextNode("0")])
  /\ s_datas' = [m \in DOMAIN s_datas \cup {n} |-> IF m = n THEN Len(objects) + 1 ELSE s_datas[m]]
  /\ obtained' = [obtained EXCEPT ![t] = Len(objects) + 1]
Gets(t, x) == obtained' = [obtained EXCEPT ![t] = x] /\ UNCHANGED <<s_datas, objects>>

(* dynamic_pointer_cast                                                    *)
Cast(o, type) == IF o # NoVar /\ objects[o].type = type THEN o ELSE NoVar

(* Fault: a variable of another type is replaced.                          *)
lookUpReplacing(t, n, type) ==
  /\ Idle(t)
  /\ CASE Cast(Registered(n), type) # NoVar -> Gets(t, Registered(n))
       [] ~Valid(n) -> Gets(t, obtained[t])
       [] OTHER -> Register(t, n, type)
  /\ UNCHANGED <<todo, setter, loading, loaded>>

(* lookUp(name, default_value): all of it under the write lock.  With a    *)
(* name that may not be it throws, and the caller has what he had.         *)
lookUp(t, n, type) ==
  /\ Idle(t)
  /\ CASE Registered(n) # NoVar -> Gets(t, Cast(Registered(n), type))
       [] Registered(n) = NoVar /\ ~Valid(n) -> Gets(t, obtained[t])
       [] OTHER -> Register(t, n, type)
  /\ UNCHANGED <<todo, setter, loading, loaded>>

(* lookUp(name)                                                            *)
find(t, n, type) ==
  /\ Idle(t)
  /\ Gets(t, Cast(Registered(n), type))
  /\ UNCHANGED <<todo, setter, loading, loaded>>

-----------------------------------------------------------------------------
(* A variable is set: loads under way are no longer undisturbed.           *)
Disturb(others) ==
  /\ loading' = [u \in Clients |-> IF u \in others /\ loading[u] # NoVar
                                   THEN [loading[u] EXCEPT !.quiet = FALSE] ELSE loading[u]]

(* setValue up to the release of the read lock.                            *)
BeginSet(t, o, node) ==
  setter' = [setter EXCEPT ![t] = IF node = objects[o].val THEN NoVar ELSE [var |-> o, val |-> node]]

setValue(t, x) ==
  /\ Idle(t) /\ obtained[t] \in DOMAIN objects
  /\ BeginSet(t, obtained[t], TextNode(x))
  /\ Disturb(Clients) /\ loaded' = NoVar
  /\ UNCHANGED <<s_datas, objects, obtained, todo>>

Assign(t) ==
  /\ setter[t] # NoVar
  /\ objects' = [objects EXCEPT ![setter[t].var].val = setter[t].val]
  /\ setter' = [setter EXCEPT ![t] = NoVar]
  /\ Disturb(Clients \ {t}) /\ loaded' = NoVar
  /\ UNCHANGED <<s_datas, obtained, todo>>

-----------------------------------------------------------------------------
(* Fault: the words above a node are left out of its name.                 *)
MembersUnprefixed(name, node) ==
  IF IsMap(node)
  THEN LET words == SetToSeq(DOMAIN node.map)
       IN  [i \in DOMAIN words |-> <<<<words[i]>>, node.map[words[i]]>>]
  ELSE <<>>

(* The loop of listAllMember: what is in a node, with the names it has.    *)
Members(name, node) ==
  IF IsMap(node)
  THEN LET words == SetToSeq(DOMAIN node.map)
       IN  [i \in DOMAIN words |-> <<Append(name, words[i]), node.map[words[i]]>>]
  ELSE <<>>

(* LexicalCast: every node has a text, but not every text is a number; an  *)
(* exception leaves the variable as it is.                                 *)
Converts(o, node) == objects[o].type = "int" => node \in {TextNode(x) : x \in Ints}

loadFromYaml(t, doc) ==
  /\ Idle(t)
  /\ todo' = [todo EXCEPT ![t] = <<<<<<>>, doc>>>>]
  /\ loading' = [loading EXCEPT ![t] = [doc |-> doc, before |-> objects,
                                        quiet |-> \A u \in Clients : setter[u] = NoVar /\ loading[u] = NoVar]]
  /\ UNCHANGED <<s_datas, objects, obtained, setter, loaded>>

Names(t, o) ==
  LET name == Head(todo[t])[1]
  IN  name # <<>> /\ Valid(name) /\ o = Registered(name) /\ o # NoVar

(* The next node in the order of listAllMember, a map before what is in    *)
(* it.  The code lists them all before it looks up the first; the document *)
(* is its own, so it does not matter that they are listed here on the way. *)
(* What is below a word that no name may have is left out.                 *)
LoadNode(t) ==
  /\ todo[t] # <<>> /\ setter[t] = NoVar
  /\ LET name == Head(todo[t])[1]  node == Head(todo[t])[2]
     IN  /\ todo' = [todo EXCEPT ![t] = (IF Valid(name) THEN Members(name, node) ELSE <<>>) \o Tail(@)]
         /\ \/ \E o \in DOMAIN objects :
                 /\ Names(t, o) /\ Converts(o, node)
                 /\ BeginSet(t, o, node) /\ Disturb(Clients \ {t}) /\ loaded' = NoVar
            \/ /\ ~\E o \in DOMAIN objects : Names(t, o) /\ Converts(o, node)
               /\ UNCHANGED <<setter, loading, loaded>>
  /\ UNCHANGED <<s_datas, objects, obtained>>

Loaded(t) ==
  /\ loading[t] # NoVar /\ todo[t] = <<>> /\ setter[t] = NoVar
  /\ loaded' = IF loading[t].quiet THEN loading[t] ELSE loaded
  /\ loading' = [loading EXCEPT ![t] = NoVar]
  /\ UNCHANGED <<s_datas, objects, obtained, todo, setter>>

ConfigMapNext ==
  \E t \in Clients :
    \/ \E n \in LookUpNames, type \in Types : lookUp(t, n, type) \/ find(t, n, type)
    \/ \E x \in Ints : setValue(t, x)
    \/ \E doc \in Docs : loadFromYaml(t, doc)
    \/ LoadNode(t) \/ Assign(t) \/ Loaded(t)

ConfigMapSpec == ConfigMapInit /\ [][ConfigMapNext]_cvars

(***************************************************************************)
(* Properties                                                              *)
(***************************************************************************)

(* Every variable that was ever handed out is the one its name stands for: *)
(* what one part of the program sets or a load changes, all others see.    *)
NamesKeepTheirVar == \A o \in DOMAIN objects : Registered(objects[o].name) = o

(* The node of a document at a name, by walking down its words.            *)
Inside(nodes, word) == {node.map[word] : node \in {x \in nodes : IsMap(x) /\ word \in DOMAIN x.map}}
NodesAt(doc, name) ==
  LET at[i \in 0 .. Len(name)] == IF i = 0 THEN {doc} ELSE Inside(at[i - 1], name[i])
  IN  at[Len(name)]

(* After a load that nothing disturbed, the variables there were when it   *)
(* began have the values the document gives their names, if it gives one   *)
(* they can take, and the others are as they were.                         *)
LoadsAreApplied ==
  loaded # NoVar =>
    \A o \in DOMAIN loaded.before :
      LET given == {node \in NodesAt(loaded.doc, objects[o].name) : Converts(o, node)}
      IN  objects[o].val \in (IF given # {} THEN given ELSE {loaded.before[o].val})
=============================================================================
