-------------------------- MODULE ConfigMap_proofs --------------------------
(* A name stands for one variable, for ever: whoever looks it up, by whatever   *)
(* type, in whatever order and during whatever load, holds the same one.        *)
EXTENDS ConfigMap, FiniteSetTheorems, SequenceTheorems, WellFoundedInduction, TLAPS

(* The map and the variables name each other, and what a thread has obtained or *)
(* is about to assign is one of them.                                           *)
VarRecs(values) == [name : LookUpNames, type : Types, val : values]

AreVars == \E values : objects \in Seq(VarRecs(values))

BothWays ==
  /\ DOMAIN s_datas \subseteq LookUpNames
  /\ \A n \in DOMAIN s_datas : s_datas[n] \in DOMAIN objects /\ objects[s_datas[n]].name = n
  /\ \A o \in DOMAIN objects : objects[o].name \in DOMAIN s_datas /\ s_datas[objects[o].name] = o

Pointers ==
  /\ obtained \in [Clients -> {NoVar} \cup DOMAIN objects]
  /\ DOMAIN setter = Clients
  /\ \A t \in Clients : setter[t] # NoVar => setter[t].var \in DOMAIN objects

MInv == AreVars /\ BothWays /\ Pointers

LEMMA VarsAre ==
  ASSUME AreVars
  PROVE  /\ Len(objects) \in Nat /\ DOMAIN objects = 1 .. Len(objects)
         /\ \A o \in DOMAIN objects : objects[o].name \in LookUpNames /\ objects[o].type \in Types
<1>1. PICK values : objects \in Seq(VarRecs(values))
  BY DEF AreVars
<1>2. \A o \in DOMAIN objects : objects[o] \in VarRecs(values)
  BY <1>1
<1>3. \A x \in VarRecs(values) : x.name \in LookUpNames /\ x.type \in Types
  BY DEF VarRecs
<1> QED
  BY <1>1, <1>2, <1>3

-----------------------------------------------------------------------------
LEMMA InitMInv == ConfigMapInit => MInv
<1> SUFFICES ASSUME ConfigMapInit
             PROVE  MInv
  OBVIOUS
<1>1. AreVars
  <2>1. objects \in Seq(VarRecs({}))
    BY DEF ConfigMapInit
  <2> QED
    BY <2>1 DEF AreVars
<1>2. BothWays /\ Pointers
  BY DEF ConfigMapInit, BothWays, Pointers
<1> QED
  BY <1>1, <1>2 DEF MInv

(* A new variable: its name has none yet.                                       *)
LEMMA RegisterStep ==
  ASSUME MInv, NEW t \in Clients, NEW n \in LookUpNames, NEW type \in Types,
         Registered(n) = NoVar, Register(t, n, type), UNCHANGED setter
  PROVE  MInv'
<1> DEFINE x == [name |-> n, type |-> type, val |-> TextNode("0")]
<1>1. PICK values : objects \in Seq(VarRecs(values))
  BY DEF MInv, AreVars
<1>2. PICK new : new = Len(objects) + 1
  OBVIOUS
<1>3. /\ objects' = Append(objects, x)
      /\ s_datas' = [m \in DOMAIN s_datas \cup {n} |-> IF m = n THEN new ELSE s_datas[m]]
      /\ obtained' = [obtained EXCEPT ![t] = new]
  BY <1>2 DEF Register
<1>4. PICK some : some = values \cup {TextNode("0")}
  OBVIOUS
<1>5. objects \in Seq(VarRecs(some)) /\ x \in VarRecs(some)
  <2>1. VarRecs(values) \subseteq VarRecs(some)
    BY <1>4 DEF VarRecs
  <2>2. x \in VarRecs(some)
    BY <1>4 DEF VarRecs
  <2> QED
    BY <1>1, <2>1, <2>2
<1>6. x.name = n
  OBVIOUS
<1> HIDE DEF x
<1>7. /\ objects' \in Seq(VarRecs(some)) /\ DOMAIN objects' = 1 .. new /\ DOMAIN objects = 1 .. new - 1
      /\ new \in Nat /\ new >= 1
      /\ objects'[new] = x /\ \A o \in 1 .. new - 1 : objects'[o] = objects[o]
  BY <1>2, <1>3, <1>5
<1>8. AreVars'
  BY <1>7 DEF AreVars
<1>9. n \notin DOMAIN s_datas
  <2>1. \A o \in DOMAIN objects : o # NoVar
    BY <1>7, ConfigMapAssumption
  <2> QED
    BY <2>1 DEF MInv, BothWays, Registered
<1>10. BothWays'
  <2>1. DOMAIN s_datas' = DOMAIN s_datas \cup {n} /\ DOMAIN s_datas' \subseteq LookUpNames
    BY <1>3 DEF MInv, BothWays
  <2>2. s_datas'[n] = new /\ \A m \in DOMAIN s_datas : s_datas'[m] = s_datas[m] /\ m # n
    BY <1>3, <1>9
  <2>3. ASSUME NEW m \in DOMAIN s_datas'
        PROVE  s_datas'[m] \in DOMAIN objects' /\ objects'[s_datas'[m]].name = m
    <3>1. CASE m = n
      BY <1>6, <1>7, <2>2, <3>1
    <3>2. CASE m # n
      <4>1. m \in DOMAIN s_datas /\ s_datas[m] \in 1 .. new - 1 /\ objects[s_datas[m]].name = m
        BY <1>7, <2>1, <3>2 DEF MInv, BothWays
      <4> QED
        BY <1>7, <2>2, <4>1
    <3> QED
      BY <3>1, <3>2
  <2>4. ASSUME NEW o \in DOMAIN objects'
        PROVE  objects'[o].name \in DOMAIN s_datas' /\ s_datas'[objects'[o].name] = o
    <3>1. CASE o = new
      BY <1>6, <1>7, <2>1, <2>2, <3>1
    <3>2. CASE o # new
      <4>1. o \in 1 .. new - 1
        BY <1>7, <3>2
      <4>2. objects[o].name \in DOMAIN s_datas /\ s_datas[objects[o].name] = o
        BY <1>7, <4>1 DEF MInv, BothWays
      <4> QED
        BY <1>7, <2>1, <2>2, <4>1, <4>2
    <3> QED
      BY <3>1, <3>2
  <2> QED
    BY <2>1, <2>3, <2>4 DEF BothWays
<1>11. Pointers'
  <2>1. DOMAIN objects \subseteq DOMAIN objects' /\ new \in DOMAIN objects'
    BY <1>7
  <2> QED
    BY <1>3, <2>1 DEF MInv, Pointers
<1> QED
  BY <1>8, <1>10, <1>11 DEF MInv

(* Threads that look up what there is, or compare before they assign.           *)
LEMMA FoundStep ==
  ASSUME MInv, UNCHANGED <<s_datas, objects>>,
         NEW t \in Clients,
         \/ /\ UNCHANGED setter
            /\ \E o \in {NoVar, obtained[t]} \cup DOMAIN objects : obtained' = [obtained EXCEPT ![t] = o]
         \/ /\ UNCHANGED obtained
            /\ \E o \in DOMAIN objects : \E node : BeginSet(t, o, node)
         \/ UNCHANGED <<obtained, setter>>
  PROVE  MInv'
<1>1. AreVars' /\ BothWays'
  BY DEF MInv, AreVars, BothWays
<1>2. Pointers'
  <2>1. CASE \E o \in {NoVar, obtained[t]} \cup DOMAIN objects : obtained' = [obtained EXCEPT ![t] = o]
    <3>1. obtained' \in [Clients -> {NoVar} \cup DOMAIN objects]
      BY <2>1 DEF MInv, Pointers
    <3>2. CASE UNCHANGED setter
      BY <3>1, <3>2 DEF MInv, Pointers
    <3>3. CASE \E o \in DOMAIN objects : \E node : BeginSet(t, o, node)
      BY <3>1, <3>3 DEF MInv, Pointers, BeginSet
    <3> QED
      BY <3>2, <3>3
  <2>2. CASE UNCHANGED obtained /\ \E o \in DOMAIN objects : \E node : BeginSet(t, o, node)
    <3>1. PICK o, new :
            /\ o \in DOMAIN objects
            /\ new = NoVar \/ new.var = o
            /\ setter' = [setter EXCEPT ![t] = new]
      <4>1. PICK o, node : o \in DOMAIN objects /\ BeginSet(t, o, node)
        BY <2>2
      <4>2. PICK new : new = IF node = objects[o].val THEN NoVar ELSE [var |-> o, val |-> node]
        OBVIOUS
      <4>3. new = NoVar \/ new.var = o
        BY <4>2
      <4> QED
        BY <4>1, <4>2, <4>3 DEF BeginSet
    <3> QED
      BY <2>2, <3>1 DEF MInv, Pointers
  <2>3. CASE UNCHANGED <<obtained, setter>>
    BY <2>3 DEF MInv, Pointers
  <2> QED
    BY <2>1, <2>2, <2>3
<1> QED
  BY <1>1, <1>2 DEF MInv

LEMMA AssignStep ==
  ASSUME MInv, NEW t \in Clients, Assign(t)
  PROVE  MInv'
<1>1. PICK values : objects \in Seq(VarRecs(values))
  BY DEF MInv, AreVars
<1>2. PICK i, x : i = setter[t].var /\ x = setter[t].val
  OBVIOUS
<1>3. /\ i \in DOMAIN objects
      /\ objects' = [objects EXCEPT ![i] = [@ EXCEPT !.val = x]]
      /\ setter' = [setter EXCEPT ![t] = NoVar]
      /\ UNCHANGED <<s_datas, obtained>>
  BY <1>2 DEF Assign, MInv, Pointers
<1>4. PICK some : some = values \cup {x}
  OBVIOUS
<1>5. objects \in Seq(VarRecs(some)) /\ [objects[i] EXCEPT !.val = x] \in VarRecs(some)
  <2>1. VarRecs(values) \subseteq VarRecs(some)
    BY <1>4 DEF VarRecs
  <2>2. objects[i] \in VarRecs(values)
    BY <1>1, <1>3
  <2>3. [objects[i] EXCEPT !.val = x] \in VarRecs(some)
    BY <1>4, <2>2 DEF VarRecs
  <2> QED
    BY <1>1, <2>1, <2>3
<1>6. PICK y : y = [objects[i] EXCEPT !.val = x]
  OBVIOUS
<1>7. y.name = objects[i].name
  <2>1. objects[i] \in VarRecs(some)
    BY <1>3, <1>5
  <2> QED
    BY <1>6, <2>1 DEF VarRecs
<1>8. /\ objects' \in Seq(VarRecs(some)) /\ DOMAIN objects' = DOMAIN objects
      /\ \A o \in DOMAIN objects : objects'[o] = IF o = i THEN y ELSE objects[o]
  BY <1>3, <1>5, <1>6
<1>9. \A o \in DOMAIN objects : objects'[o].name = objects[o].name
  BY <1>7, <1>8
<1>10. AreVars'
  BY <1>8 DEF AreVars
<1>11. BothWays' /\ Pointers'
  BY <1>3, <1>8, <1>9 DEF MInv, BothWays, Pointers
<1> QED
  BY <1>10, <1>11 DEF MInv

LEMMA NextMInv == MInv /\ [ConfigMapNext]_cvars => MInv'
<1> SUFFICES ASSUME MInv, [ConfigMapNext]_cvars
             PROVE  MInv'
  OBVIOUS
<1>0. ASSUME NEW n \in LookUpNames, NEW type
      PROVE  Registered(n) \in {NoVar} \cup DOMAIN objects /\ Cast(Registered(n), type) \in {NoVar} \cup DOMAIN objects
  BY DEF MInv, BothWays, Registered, Cast
<1>1. ASSUME NEW t \in Clients, NEW n \in LookUpNames, NEW type \in Types,
             lookUp(t, n, type) \/ find(t, n, type)
      PROVE  MInv'
  <2>1. setter' = setter
    BY <1>1 DEF lookUp, find
  <2>2. ASSUME NEW o \in {NoVar, obtained[t]} \cup DOMAIN objects, Gets(t, o)
        PROVE  MInv'
    BY <2>1, <2>2, FoundStep DEF Gets
  <2>3. CASE lookUp(t, n, type)
    <3>1. CASE Registered(n) # NoVar
      BY <1>0, <2>2, <2>3, <3>1 DEF lookUp
    <3>2. CASE Registered(n) = NoVar /\ ~Valid(n)
      BY <2>2, <2>3, <3>2 DEF lookUp
    <3>3. CASE Registered(n) = NoVar /\ Valid(n)
      BY <2>1, <2>3, <3>3, RegisterStep DEF lookUp
    <3> QED
      BY <3>1, <3>2, <3>3
  <2>4. CASE find(t, n, type)
    BY <1>0, <2>2, <2>4 DEF find
  <2> QED
    BY <1>1, <2>3, <2>4
<1>2. ASSUME NEW t \in Clients, NEW x, setValue(t, x)
      PROVE  MInv'
  BY <1>2, FoundStep DEF setValue
<1>3. ASSUME NEW t \in Clients, LoadNode(t)
      PROVE  MInv'
  <2>1. /\ UNCHANGED <<s_datas, objects, obtained>>
        /\ \/ UNCHANGED setter
           \/ \E o \in DOMAIN objects : \E node : BeginSet(t, o, node)
    BY <1>3 DEF LoadNode
  <2> QED
    BY <2>1, FoundStep
<1>4. ASSUME NEW t \in Clients, NEW doc, loadFromYaml(t, doc) \/ Loaded(t) \/ UNCHANGED cvars
      PROVE  MInv'
  BY <1>4, FoundStep DEF loadFromYaml, Loaded, cvars
<1>5. ASSUME NEW t \in Clients, Assign(t)
      PROVE  MInv'
  BY <1>5, AssignStep
<1>6. CASE UNCHANGED cvars
  <2>1. AreVars' /\ BothWays' /\ Pointers'
    BY <1>6 DEF cvars, MInv, AreVars, BothWays, Pointers
  <2> QED
    BY <2>1 DEF MInv
<1> QED
  BY <1>1, <1>2, <1>3, <1>4, <1>5, <1>6 DEF ConfigMapNext

-----------------------------------------------------------------------------
LEMMA MapInvariant == ConfigMapSpec => []MInv
  BY InitMInv, NextMInv, PTL DEF ConfigMapSpec

(* What is in the map, and what the threads hold, are variables.                *)
THEOREM ConfigMapTypeCorrect == ConfigMapSpec => []CTypeOK
<1>1. MInv => CTypeOK
  BY VarsAre DEF MInv, BothWays, Pointers, CTypeOK
<1> QED
  BY <1>1, MapInvariant, PTL

(* Every variable that was ever handed out is the one its name stands for.      *)
THEOREM OneVarPerName == ConfigMapSpec => []NamesKeepTheirVar
<1>1. MInv => NamesKeepTheirVar
  BY DEF MInv, BothWays, NamesKeepTheirVar, Registered
<1> QED
  BY <1>1, MapInvariant, PTL

-----------------------------------------------------------------------------
(* The walk down a document.  NodesAt is a recursive function, so that there is *)
(* one has to be shown, and two walks agree as long as their names do.          *)

IsWalk(doc, name, m, f) ==
  f = [i \in 0 .. m |-> IF i = 0 THEN {doc} ELSE Inside(f[i - 1], name[i])]

StepsDown(doc, name, m, f) ==
  f[0] = {doc} /\ \A i \in 1 .. m : f[i] = Inside(f[i - 1], name[i])

LEMMA WalkStep ==
  ASSUME NEW doc, NEW name, NEW m \in Nat, NEW f, IsWalk(doc, name, m, f)
  PROVE  StepsDown(doc, name, m, f)
<1>1. PICK g : g = [i \in 0 .. m |-> IF i = 0 THEN {doc} ELSE Inside(f[i - 1], name[i])]
  OBVIOUS
<1>2. f = g
  BY <1>1 DEF IsWalk
<1>3. g[0] = {doc} /\ \A i \in 1 .. m : g[i] = Inside(f[i - 1], name[i])
  BY <1>1
<1> QED
  BY <1>2, <1>3 DEF StepsDown

(* The least of some numbers: the induction over them.                          *)
LEMMA LeastNumber ==
  ASSUME NEW T, T \subseteq Nat, T # {}
  PROVE  \E k \in T : \A j \in T : k <= j
<1> DEFINE R == OpToRel(<, Nat)
<1>1. IsWellFoundedOn(R, Nat)
  BY NatLessThanWellFounded
<1>2. \A i, j \in Nat : i < j => <<i, j>> \in R
  BY DEF OpToRel
<1> HIDE DEF R
<1>3. PICK k \in T : \A j \in T : ~(<<j, k>> \in R)
  BY <1>1, WFMin
<1>4. ASSUME NEW j \in T, ~(k <= j)
      PROVE  FALSE
  <2>1. j \in Nat /\ k \in Nat
    OBVIOUS
  <2>2. j < k
    BY <1>4, <2>1
  <2> QED
    BY <1>2, <1>3, <2>1, <2>2
<1> QED
  BY <1>4

LEMMA WalkExists ==
  ASSUME NEW doc, NEW name, NEW n \in Nat
  PROVE  \E f : IsWalk(doc, name, n, f)
<1> DEFINE T == {m \in Nat : ~\E f : IsWalk(doc, name, m, f)}
<1> SUFFICES ASSUME T # {}
             PROVE  FALSE
  OBVIOUS
<1>1. T \subseteq Nat /\ \A m \in Nat : m \in T <=> ~\E f : IsWalk(doc, name, m, f)
  OBVIOUS
<1> HIDE DEF T
<1>2. PICK m \in T : \A j \in T : m <= j
  BY <1>1, LeastNumber
<1>3. m \in Nat /\ ~\E f : IsWalk(doc, name, m, f)
  BY <1>1
<1>4. m # 0
  <2>1. PICK f : f = [i \in 0 .. 0 |-> {doc}]
    OBVIOUS
  <2>2. f = [i \in 0 .. 0 |-> IF i = 0 THEN {doc} ELSE Inside(f[i - 1], name[i])]
    BY <2>1
  <2>3. IsWalk(doc, name, 0, f)
    BY <2>2 DEF IsWalk
  <2> QED
    BY <1>3, <2>3
<1>5. PICK k : k = m - 1
  OBVIOUS
<1>6. k \in Nat /\ k \notin T /\ m = k + 1
  BY <1>2, <1>3, <1>4, <1>5
<1>7. PICK f : IsWalk(doc, name, k, f)
  BY <1>1, <1>6
<1>8. f[0] = {doc} /\ \A i \in 1 .. k : f[i] = Inside(f[i - 1], name[i])
  BY <1>6, <1>7, WalkStep DEF StepsDown
<1>9. PICK g : g = [i \in 0 .. m |-> IF i = m THEN Inside(f[k], name[m]) ELSE f[i]]
  OBVIOUS
<1>10. ASSUME NEW i \in 0 .. m
       PROVE  g[i] = IF i = 0 THEN {doc} ELSE Inside(g[i - 1], name[i])
  <2>1. CASE i = 0
    BY <1>4, <1>8, <1>9, <2>1
  <2>2. CASE i = m
    <3>1. g[m] = Inside(f[k], name[m]) /\ g[k] = f[k] /\ m - 1 = k
      BY <1>3, <1>5, <1>6, <1>9
    <3> QED
      BY <1>4, <2>2, <3>1
  <2>3. CASE i # 0 /\ i # m
    <3>1. PICK j : j = i - 1
      OBVIOUS
    <3>2. i \in 1 .. k /\ j \in 0 .. m /\ j # m
      BY <1>3, <1>5, <1>6, <2>3, <3>1
    <3>3. g[i] = f[i] /\ g[j] = f[j]
      BY <1>9, <2>3, <3>2
    <3> QED
      BY <1>8, <2>3, <3>1, <3>2, <3>3
  <2> QED
    BY <2>1, <2>2, <2>3
<1>11. g = [i \in 0 .. m |-> g[i]]
  BY <1>9
<1>12. IsWalk(doc, name, m, g)
  BY <1>10, <1>11 DEF IsWalk
<1> QED
  BY <1>3, <1>12

LEMMA WalksAgree ==
  ASSUME NEW doc, NEW name, NEW other, NEW m \in Nat, NEW n \in Nat, NEW k \in Nat,
         k <= m, k <= n, \A i \in 1 .. k : name[i] = other[i],
         NEW f, IsWalk(doc, name, m, f), NEW g, IsWalk(doc, other, n, g)
  PROVE  f[k] = g[k]
<1> DEFINE T == {i \in 0 .. k : f[i] # g[i]}
<1> SUFFICES ASSUME T # {}
             PROVE  FALSE
  OBVIOUS
<1>1. T \subseteq Nat /\ \A i \in 0 .. k : i \in T <=> f[i] # g[i]
  OBVIOUS
<1>2. T \subseteq 0 .. k
  OBVIOUS
<1> HIDE DEF T
<1>3. PICK i \in T : \A j \in T : i <= j
  BY <1>1, LeastNumber
<1>4. /\ f[0] = {doc} /\ \A j \in 1 .. m : f[j] = Inside(f[j - 1], name[j])
      /\ g[0] = {doc} /\ \A j \in 1 .. n : g[j] = Inside(g[j - 1], other[j])
  <2>1. StepsDown(doc, name, m, f) /\ StepsDown(doc, other, n, g)
    BY WalkStep
  <2> QED
    BY <2>1 DEF StepsDown
<1>5. i \in 1 .. k
  BY <1>1, <1>2, <1>4
<1>6. PICK j : j = i - 1
  OBVIOUS
<1>7. j \in 0 .. k /\ j \notin T
  BY <1>3, <1>5, <1>6
<1>8. f[j] = g[j]
  BY <1>1, <1>7
<1>9. i \in 1 .. m /\ i \in 1 .. n /\ name[i] = other[i]
  BY <1>5
<1>10. f[i] = Inside(f[j], name[i]) /\ g[i] = Inside(g[j], other[i])
  BY <1>4, <1>6, <1>9
<1> QED
  BY <1>1, <1>2, <1>8, <1>9, <1>10

LEMMA NodesAtWalk ==
  ASSUME NEW doc, NEW name, Len(name) \in Nat
  PROVE  \E f : IsWalk(doc, name, Len(name), f) /\ NodesAt(doc, name) = f[Len(name)]
<1>1. PICK f : f = CHOOSE g : IsWalk(doc, name, Len(name), g)
  OBVIOUS
<1>2. IsWalk(doc, name, Len(name), f)
  BY <1>1, WalkExists
<1>3. NodesAt(doc, name) = f[Len(name)]
  BY <1>1 DEF NodesAt, IsWalk
<1> QED
  BY <1>2, <1>3

LEMMA NodesAtRoot ==
  ASSUME NEW doc
  PROVE  NodesAt(doc, <<>>) = {doc}
<1>1. Len(<<>>) = 0 /\ 0 \in Nat
  OBVIOUS
<1>2. PICK f : IsWalk(doc, <<>>, 0, f) /\ NodesAt(doc, <<>>) = f[0]
  BY <1>1, NodesAtWalk
<1>3. StepsDown(doc, <<>>, 0, f)
  BY <1>1, <1>2, WalkStep
<1> QED
  BY <1>2, <1>3 DEF StepsDown

(* One word further down.                                                       *)
LEMMA NodesAtNext ==
  ASSUME NEW doc, NEW Words, NEW name \in Seq(Words), NEW word \in Words
  PROVE  NodesAt(doc, Append(name, word)) = Inside(NodesAt(doc, name), word)
<1> DEFINE longer == Append(name, word)
<1>1. PICK n : n = Len(name)
  OBVIOUS
<1>2. PICK m : m = n + 1
  OBVIOUS
<1>3. /\ n \in Nat /\ m \in Nat /\ Len(longer) = m
      /\ longer[m] = word /\ \A i \in 1 .. n : longer[i] = name[i]
  BY <1>1, <1>2
<1> HIDE DEF longer
<1>4. PICK f : IsWalk(doc, name, n, f) /\ NodesAt(doc, name) = f[n]
  BY <1>1, <1>3, NodesAtWalk
<1>5. PICK g : IsWalk(doc, longer, m, g) /\ NodesAt(doc, longer) = g[m]
  BY <1>3, NodesAtWalk
<1>6. f[n] = g[n]
  <2>1. n <= n /\ n <= m /\ \A i \in 1 .. n : name[i] = longer[i]
    BY <1>2, <1>3
  <2> QED
    BY <1>3, <1>4, <1>5, <2>1, WalksAgree
<1>7. g[m] = Inside(g[n], longer[m])
  <2>1. StepsDown(doc, longer, m, g)
    BY <1>3, <1>5, WalkStep
  <2>2. m \in 1 .. m /\ m - 1 = n
    BY <1>2, <1>3
  <2> QED
    BY <2>1, <2>2 DEF StepsDown
<1>8. NodesAt(doc, longer) = Inside(NodesAt(doc, name), word)
  BY <1>3, <1>4, <1>5, <1>6, <1>7
<1> QED
  BY <1>8 DEF longer

StartsWith(name, first) ==
  Len(first) <= Len(name) /\ \A i \in 1 .. Len(first) : name[i] = first[i]

(* Where nothing is, nothing is further down.                                   *)
LEMMA NothingBelow ==
  ASSUME NEW doc, NEW Words, NEW name \in Seq(Words), NEW first \in Seq(Words),
         StartsWith(name, first), NodesAt(doc, first) = {}
  PROVE  NodesAt(doc, name) = {}
<1>1. PICK n : n = Len(name)
  OBVIOUS
<1>2. PICK m : m = Len(first)
  OBVIOUS
<1>3. n \in Nat /\ m \in Nat /\ m <= n /\ \A i \in 1 .. m : name[i] = first[i]
  BY <1>1, <1>2 DEF StartsWith
<1>4. PICK f : IsWalk(doc, name, n, f) /\ NodesAt(doc, name) = f[n]
  BY <1>1, <1>3, NodesAtWalk
<1>5. PICK g : IsWalk(doc, first, m, g) /\ NodesAt(doc, first) = g[m]
  BY <1>2, <1>3, NodesAtWalk
<1>6. f[m] = {}
  <2>1. f[m] = g[m]
    BY <1>3, <1>4, <1>5, WalksAgree
  <2> QED
    BY <1>5, <2>1
<1> DEFINE T == {i \in m .. n : f[i] # {}}
<1>7. T \subseteq m .. n /\ \A i \in m .. n : i \in T <=> f[i] # {}
  OBVIOUS
<1> HIDE DEF T
<1>8. CASE T = {}
  BY <1>3, <1>4, <1>7, <1>8
<1>9. CASE T # {}
  <2>1. T \subseteq Nat
    BY <1>3, <1>7
  <2>2. PICK i \in T : \A j \in T : i <= j
    BY <1>9, <2>1, LeastNumber
  <2>3. i \in m .. n /\ f[i] # {} /\ i # m
    BY <1>6, <1>7
  <2>4. PICK j : j = i - 1
    OBVIOUS
  <2>5. j \in m .. n /\ j \notin T /\ i \in 1 .. n
    BY <1>3, <2>2, <2>3, <2>4
  <2>6. f[j] = {}
    BY <1>7, <2>5
  <2>7. f[i] = Inside({}, name[i])
    <3>1. StepsDown(doc, name, n, f)
      BY <1>3, <1>4, WalkStep
    <3> QED
      BY <2>4, <2>5, <2>6, <3>1 DEF StepsDown
  <2>8. Inside({}, name[i]) = {}
    BY DEF Inside
  <2> QED
    BY <2>3, <2>7, <2>8
<1> QED
  BY <1>8, <1>9

(* Every word of a map is listed.                                               *)
LEMMA AllListed ==
  ASSUME NEW S, IsFiniteSet(S)
  PROVE  /\ SetToSeq(S) \in Seq(S)
         /\ \A x \in S : \E i \in DOMAIN SetToSeq(S) : SetToSeq(S)[i] = x
<1>1. PICK n : n = Cardinality(S)
  OBVIOUS
<1>2. n \in Nat /\ ExistsBijection(1 .. n, S)
  BY <1>1, FS_CardinalityType
<1>3. IsFiniteSet(1 .. n) /\ Cardinality(1 .. n) = n
  BY <1>2, FS_Interval
<1>4. PICK f : f = SetToSeq(S)
  OBVIOUS
<1>5. f \in [1 .. n -> S] /\ IsInjective(f)
  <2>1. PICK g : g \in Bijection(1 .. n, S)
    BY <1>2 DEF ExistsBijection
  <2>2. g \in [1 .. n -> S] /\ IsInjective(g)
    BY <2>1 DEF Bijection, Injection, Surjection, IsInjective
  <2>3. f = CHOOSE h \in [1 .. n -> S] : IsInjective(h)
    BY <1>1, <1>4 DEF SetToSeq
  <2> QED
    BY <2>2, <2>3
<1>6. f \in Injection(1 .. n, S)
  BY <1>5 DEF Injection, IsInjective
<1>7. f \in Surjection(1 .. n, S)
  BY <1>1, <1>3, <1>6, FS_Injection
<1>8. \A x \in S : \E i \in 1 .. n : f[i] = x
  BY <1>7 DEF Surjection
<1>9. f \in Seq(S) /\ DOMAIN f = 1 .. n
  BY <1>2, <1>5
<1> QED
  BY <1>4, <1>8, <1>9

-----------------------------------------------------------------------------
(* Loads.  The documents are trees of maps with finitely many words.            *)

Readable(Words) ==
  /\ LookUpNames \subseteq Seq(Words) \ {<<>>}
  /\ \A doc \in Docs : \A name \in Seq(Words) : \A node \in NodesAt(doc, name) :
       IsMap(node) => IsFiniteSet(DOMAIN node.map) /\ DOMAIN node.map \subseteq Words

(* What a document gives a variable x: the nodes at its name that it can take.   *)
GivenBy(doc, x) == {node \in NodesAt(doc, x.name) : x.type = "int" => node \in {TextNode(n) : n \in Ints}}

IsNodeAt(doc, name, node) == NodesAt(doc, name) = {node}

(* How far a load l is with the variable o of vars, when q is what it has still *)
(* to visit and s what it is about to assign: the walk has yet to come to what  *)
(* the variable is named, or it has been there.                                 *)
OnTheWay(l, q, s, vars, o) ==
  /\ vars[o].val \in GivenBy(l.doc, vars[o]) \cup {l.before[o].val}
  /\ \/ \E i \in DOMAIN q : StartsWith(vars[o].name, q[i][1])
     \/ GivenBy(l.doc, vars[o]) = {}
     \/ vars[o].val \in GivenBy(l.doc, vars[o])
     \/ s # NoVar /\ s.var = o

Walk(Words, q, doc) ==
  /\ \E nodes : q \in Seq(Seq(Words) \X nodes)
  /\ \A i \in DOMAIN q : IsNodeAt(doc, q[i][1], q[i][2])

LoadIsRight(Words, l, q, s, vars) ==
  /\ l.doc \in Docs /\ DOMAIN l.before \subseteq DOMAIN vars
  /\ Walk(Words, q, l.doc)
  /\ s # NoVar => s.val \in GivenBy(l.doc, vars[s.var])
  /\ \A o \in DOMAIN l.before : OnTheWay(l, q, s, vars, o)

Applied(l, vars) ==
  \A o \in DOMAIN l.before :
    vars[o].val \in (IF GivenBy(l.doc, vars[o]) # {} THEN GivenBy(l.doc, vars[o]) ELSE {l.before[o].val})

(* Names are valid, and no two variables have the same.                         *)
ProperVars(Words, vars) ==
  /\ \A o \in DOMAIN vars : Valid(vars[o].name) /\ vars[o].name \in Seq(Words) \ {<<>>}
  /\ \A o, p \in DOMAIN vars : vars[o].name = vars[p].name => o = p

Quiet(l) == l # NoVar /\ l.quiet

LoadShape ==
  /\ DOMAIN todo = Clients /\ DOMAIN loading = Clients
  /\ \A t \in Clients : loading[t] # NoVar =>
       loading[t] = [doc |-> loading[t].doc, before |-> loading[t].before, quiet |-> loading[t].quiet]

QuietLoads(Words) ==
  \A t \in Clients : Quiet(loading[t]) =>
    /\ \A u \in Clients \ {t} : setter[u] = NoVar
    /\ LoadIsRight(Words, loading[t], todo[t], setter[t], objects)

LastLoad == loaded # NoVar => DOMAIN loaded.before \subseteq DOMAIN objects /\ Applied(loaded, objects)

(* The inductive invariant.                                                     *)
LInv(Words) ==
  /\ LoadShape /\ ProperVars(Words, objects)
  /\ QuietLoads(Words) /\ LastLoad

-----------------------------------------------------------------------------
(* Lists of nodes                                                               *)

HeadReplaced(q, m, r) ==
  /\ \A i \in DOMAIN m : \E j \in DOMAIN r : r[j] = m[i]
  /\ \A i \in DOMAIN q : i = 1 \/ \E j \in DOMAIN r : r[j] = q[i]
  /\ \A j \in DOMAIN r : \/ \E i \in DOMAIN m : r[j] = m[i]
                         \/ \E i \in DOMAIN q : r[j] = q[i]

LEMMA FrontReplaced ==
  ASSUME NEW S, NEW q \in Seq(S), q # <<>>, NEW m \in Seq(S), NEW r, r = m \o Tail(q)
  PROVE  r \in Seq(S) /\ HeadReplaced(q, m, r)
<1>1. PICK tail : tail = Tail(q)
  OBVIOUS
<1>2. PICK a, b : a = Len(m) /\ b = Len(tail)
  OBVIOUS
<1>3. /\ tail \in Seq(S) /\ Len(q) = b + 1 /\ a \in Nat /\ b \in Nat
      /\ \A i \in 1 .. b : tail[i] = q[i + 1]
  BY <1>1, <1>2, HeadTailProperties
<1>4. /\ r \in Seq(S) /\ Len(r) = a + b
      /\ \A i \in 1 .. a + b : r[i] = IF i <= a THEN m[i] ELSE tail[i - a]
  BY <1>1, <1>2, <1>3, ConcatProperties
<1>5. DOMAIN r = 1 .. a + b /\ DOMAIN m = 1 .. a /\ DOMAIN q = 1 .. b + 1
  BY <1>2, <1>3, <1>4
<1>6. \A i \in 1 .. a : i \in 1 .. a + b /\ r[i] = m[i]
  BY <1>3, <1>4
<1>7. ASSUME NEW i \in 1 .. b
      PROVE  a + i \in 1 .. a + b /\ r[a + i] = q[i + 1]
  <2>1. PICK k : k = a + i
    OBVIOUS
  <2>2. k \in 1 .. a + b /\ ~(k <= a) /\ k - a = i
    BY <1>3, <2>1
  <2>3. r[k] = tail[i]
    BY <1>4, <2>2
  <2> QED
    BY <1>3, <2>1, <2>2, <2>3
<1>8. ASSUME NEW i \in 1 .. b + 1, i # 1
      PROVE  \E j \in 1 .. a + b : r[j] = q[i]
  <2>1. PICK k : k = i - 1
    OBVIOUS
  <2>2. k \in 1 .. b /\ k + 1 = i
    BY <1>3, <1>8, <2>1
  <2> QED
    BY <1>7, <2>2
<1>9. ASSUME NEW j \in 1 .. a + b, ~(j <= a)
      PROVE  \E i \in 1 .. b + 1 : r[j] = q[i]
  <2>1. PICK k : k = j - a
    OBVIOUS
  <2>2. k \in 1 .. b /\ k + 1 \in 1 .. b + 1
    BY <1>3, <1>9, <2>1
  <2>3. r[j] = tail[k] /\ tail[k] = q[k + 1]
    BY <1>3, <1>4, <1>9, <2>1, <2>2
  <2> QED
    BY <2>2, <2>3
<1>10. \A i \in DOMAIN m : \E j \in DOMAIN r : r[j] = m[i]
  BY <1>5, <1>6
<1>11. \A i \in DOMAIN q : i = 1 \/ \E j \in DOMAIN r : r[j] = q[i]
  BY <1>5, <1>8
<1>12. \A j \in DOMAIN r : \/ \E i \in DOMAIN m : r[j] = m[i]
                           \/ \E i \in DOMAIN q : r[j] = q[i]
  <2>1. ASSUME NEW j \in DOMAIN r, j <= a
        PROVE  \E i \in DOMAIN m : r[j] = m[i]
    BY <1>3, <1>5, <1>6, <2>1
  <2>2. ASSUME NEW j \in DOMAIN r, ~(j <= a)
        PROVE  \E i \in DOMAIN q : r[j] = q[i]
    BY <1>5, <1>9, <2>2
  <2> QED
    BY <2>1, <2>2
<1> QED
  BY <1>4, <1>10, <1>11, <1>12 DEF HeadReplaced

(* What listAllMember lists below a node.                                       *)
LEMMA MembersAreInside ==
  ASSUME NEW Words, Readable(Words), NEW doc \in Docs, NEW name \in Seq(Words), NEW node,
         IsNodeAt(doc, name, node), NEW m, m = Members(name, node)
  PROVE  /\ \E nodes : m \in Seq(Seq(Words) \X nodes)
         /\ \A i \in DOMAIN m : IsNodeAt(doc, m[i][1], m[i][2])
         /\ IsMap(node) => \A w \in DOMAIN node.map :
              w \in Words /\ \E i \in DOMAIN m : m[i][1] = Append(name, w)
<1>1. CASE ~IsMap(node)
  <2>1. m = <<>> /\ m \in Seq(Seq(Words) \X {})
    BY <1>1 DEF Members
  <2> QED
    BY <1>1, <2>1
<1>2. CASE IsMap(node)
  <2>1. PICK S : S = DOMAIN node.map
    OBVIOUS
  <2>2. IsFiniteSet(S) /\ S \subseteq Words
    BY <1>2, <2>1 DEF Readable, IsNodeAt
  <2>3. PICK words : words = SetToSeq(S)
    OBVIOUS
  <2>4. words \in Seq(S) /\ \A x \in S : \E i \in DOMAIN words : words[i] = x
    BY <2>2, <2>3, AllListed
  <2>5. m = [i \in DOMAIN words |-> <<Append(name, words[i]), node.map[words[i]]>>]
    BY <1>2, <2>1, <2>3 DEF Members
  <2>6. PICK n : n \in Nat /\ DOMAIN words = 1 .. n
    BY <2>4
  <2>7. PICK nodes : nodes = {node.map[w] : w \in S}
    OBVIOUS
  <2>8. ASSUME NEW i \in 1 .. n
        PROVE  \E w \in S : words[i] = w /\ m[i] = <<Append(name, w), node.map[w]>>
    <3>1. PICK w : w = words[i]
      OBVIOUS
    <3>2. w \in S
      BY <2>4, <2>6, <3>1
    <3>3. m[i] = <<Append(name, w), node.map[w]>>
      BY <2>5, <2>6, <3>1
    <3> QED
      BY <3>1, <3>2, <3>3
  <2>9. ASSUME NEW i \in 1 .. n
        PROVE  m[i] \in Seq(Words) \X nodes
    <3>1. PICK w \in S : m[i] = <<Append(name, w), node.map[w]>>
      BY <2>8
    <3>2. Append(name, w) \in Seq(Words) /\ node.map[w] \in nodes
      BY <2>2, <2>7
    <3>3. <<Append(name, w), node.map[w]>> \in Seq(Words) \X nodes
      BY <3>2
    <3> QED
      BY <3>1, <3>3, Zenon
  <2>10. DOMAIN m = 1 .. n /\ m = [i \in 1 .. n |-> m[i]]
    BY <2>5, <2>6
  <2>11. m \in Seq(Seq(Words) \X nodes)
    BY <2>6, <2>9, <2>10
  <2>12. ASSUME NEW i \in DOMAIN m
         PROVE  IsNodeAt(doc, m[i][1], m[i][2])
    <3>1. PICK w \in S : m[i] = <<Append(name, w), node.map[w]>>
      BY <2>8, <2>10
    <3>2. NodesAt(doc, Append(name, w)) = Inside(NodesAt(doc, name), w)
      BY <2>2, NodesAtNext
    <3>3. Inside({node}, w) = {node.map[w]}
      BY <1>2, <2>1 DEF Inside
    <3>4. m[i][1] = Append(name, w) /\ m[i][2] = node.map[w]
      BY <3>1
    <3> QED
      BY <3>2, <3>3, <3>4 DEF IsNodeAt
  <2>13. ASSUME NEW w \in S
         PROVE  \E i \in DOMAIN m : m[i][1] = Append(name, w)
    <3>1. PICK i \in 1 .. n : words[i] = w
      BY <2>4, <2>6
    <3>2. m[i] = <<Append(name, w), node.map[w]>>
      BY <2>8, <3>1
    <3>3. m[i][1] = Append(name, w)
      BY <3>2
    <3> QED
      BY <2>10, <3>3
  <2> QED
    BY <2>1, <2>2, <2>11, <2>12, <2>13
<1> QED
  BY <1>1, <1>2

(* A name below a node of the walk is the node's own, or below one of its       *)
(* members, or not in the document.                                             *)
LEMMA NameBelow ==
  ASSUME NEW Words, Readable(Words), NEW doc \in Docs, NEW first \in Seq(Words), NEW node,
         IsNodeAt(doc, first, node), NEW m, m = Members(first, node),
         NEW name \in Seq(Words), StartsWith(name, first)
  PROVE  \/ name = first
         \/ \E i \in DOMAIN m : StartsWith(name, m[i][1])
         \/ NodesAt(doc, name) = {}
<1>1. PICK a, b : a = Len(first) /\ b = Len(name)
  OBVIOUS
<1>2. a \in Nat /\ b \in Nat /\ a <= b /\ \A i \in 1 .. a : name[i] = first[i]
  BY <1>1 DEF StartsWith
<1>3. CASE a = b
  <2>1. name = first
    BY <1>1, <1>2, <1>3, SeqEqual
  <2> QED
    BY <2>1
<1>4. CASE a # b
  <2>1. PICK w : w = name[a + 1]
    OBVIOUS
  <2>2. a + 1 \in 1 .. b /\ w \in Words
    <3>1. a + 1 \in 1 .. b
      BY <1>2, <1>4
    <3> QED
      BY <1>1, <2>1, <3>1
  <2>3. PICK longer : longer = Append(first, w)
    OBVIOUS
  <2>4. /\ longer \in Seq(Words) /\ Len(longer) = a + 1
        /\ longer[a + 1] = w /\ \A i \in 1 .. a : longer[i] = first[i]
    BY <1>1, <1>2, <2>2, <2>3, AppendProperties
  <2>5. StartsWith(name, longer)
    <3>1. \A i \in 1 .. a + 1 : i \in 1 .. a \/ i = a + 1
      BY <1>2
    <3> QED
      BY <1>1, <1>2, <2>1, <2>2, <2>4, <3>1 DEF StartsWith
  <2>6. NodesAt(doc, longer) = Inside({node}, w)
    <3>1. NodesAt(doc, Append(first, w)) = Inside(NodesAt(doc, first), w)
      BY <2>2, NodesAtNext
    <3> QED
      BY <2>3, <3>1 DEF IsNodeAt
  <2>7. CASE IsMap(node) /\ w \in DOMAIN node.map
    <3>1. \A v \in DOMAIN node.map : v \in Words /\ \E i \in DOMAIN m : m[i][1] = Append(first, v)
      BY <2>7, MembersAreInside
    <3>2. PICK i \in DOMAIN m : m[i][1] = longer
      BY <2>3, <2>7, <3>1
    <3> QED
      BY <2>5, <3>2
  <2>8. CASE ~(IsMap(node) /\ w \in DOMAIN node.map)
    <3>1. NodesAt(doc, longer) = {}
      BY <2>6, <2>8 DEF Inside
    <3> QED
      BY <2>4, <2>5, <3>1, NothingBelow
  <2> QED
    BY <2>7, <2>8
<1> QED
  BY <1>3, <1>4

-----------------------------------------------------------------------------
(* What the steps of a load do to it.                                           *)

LEMMA SameGiven ==
  ASSUME NEW doc, NEW x, NEW y, x.name = y.name, x.type = y.type
  PROVE  GivenBy(doc, x) = GivenBy(doc, y)
BY DEF GivenBy

(* New variables do not concern a load.                                         *)
LEMMA MoreVars ==
  ASSUME NEW Words, NEW l, NEW q, NEW s, NEW vars, LoadIsRight(Words, l, q, s, vars),
         NEW more, DOMAIN vars \subseteq DOMAIN more, \A o \in DOMAIN vars : more[o] = vars[o],
         s # NoVar => s.var \in DOMAIN vars
  PROVE  LoadIsRight(Words, l, q, s, more)
<1>1. ASSUME NEW o \in DOMAIN l.before
      PROVE  OnTheWay(l, q, s, more, o)
  <2>1. more[o] = vars[o] /\ OnTheWay(l, q, s, vars, o)
    BY DEF LoadIsRight
  <2> QED
    BY <2>1 DEF OnTheWay
<1>2. s # NoVar => more[s.var] = vars[s.var]
  OBVIOUS
<1> QED
  BY <1>1, <1>2 DEF LoadIsRight

(* Every name is below the root.                                                *)
LEMMA LoadBegins ==
  ASSUME NEW Words, Readable(Words), NEW doc \in Docs, NEW vars, ProperVars(Words, vars),
         NEW l, l.doc = doc, l.before = vars,
         NEW none, none = <<>>, NEW q, q = <<<<none, doc>>>>
  PROVE  LoadIsRight(Words, l, q, NoVar, vars)
<1>1. /\ q \in Seq(Seq(Words) \X {doc})
      /\ DOMAIN q = 1 .. 1 /\ q[1][1] = <<>> /\ q[1][2] = doc
  <2>1. none \in Seq(Words)
    OBVIOUS
  <2>2. PICK root : root = <<none, doc>>
    OBVIOUS
  <2>3. root \in Seq(Words) \X {doc} /\ root[1] = none /\ root[2] = doc
    BY <2>1, <2>2
  <2>4. q = <<root>>
    BY <2>2
  <2> QED
    BY <2>3, <2>4
<1>2. IsNodeAt(doc, <<>>, doc)
  BY NodesAtRoot DEF IsNodeAt
<1>3. Walk(Words, q, doc)
  BY <1>1, <1>2 DEF Walk
<1>4. ASSUME NEW o \in DOMAIN vars
      PROVE  OnTheWay(l, q, NoVar, vars, o)
  <2>1. vars[o].name \in Seq(Words)
    BY DEF ProperVars
  <2>2. StartsWith(vars[o].name, <<>>)
    BY <2>1 DEF StartsWith
  <2> QED
    BY <1>1, <2>2 DEF OnTheWay
<1> QED
  BY <1>3, <1>4 DEF LoadIsRight

LEMMA LoadAssigns ==
  ASSUME NEW Words, NEW l, NEW q, NEW s, NEW vars, LoadIsRight(Words, l, q, s, vars),
         s # NoVar, s.var \in DOMAIN vars,
         NEW after, DOMAIN after = DOMAIN vars,
         \A o \in DOMAIN vars : /\ after[o].name = vars[o].name /\ after[o].type = vars[o].type
                                /\ after[o].val = IF o = s.var THEN s.val ELSE vars[o].val
  PROVE  LoadIsRight(Words, l, q, NoVar, after)
<1>1. ASSUME NEW o \in DOMAIN l.before
      PROVE  OnTheWay(l, q, NoVar, after, o)
  <2>1. o \in DOMAIN vars /\ OnTheWay(l, q, s, vars, o)
    BY DEF LoadIsRight
  <2>2. PICK given : given = GivenBy(l.doc, vars[o])
    OBVIOUS
  <2>3. GivenBy(l.doc, after[o]) = given /\ after[o].name = vars[o].name
    BY <2>1, <2>2, SameGiven
  <2>4. CASE o = s.var
    <3>1. after[o].val \in given
      BY <2>1, <2>2, <2>4 DEF LoadIsRight
    <3> QED
      BY <2>3, <3>1 DEF OnTheWay
  <2>5. CASE o # s.var
    <3>1. after[o].val = vars[o].val
      BY <2>1, <2>5
    <3> QED
      BY <2>1, <2>2, <2>3, <2>5, <3>1 DEF OnTheWay
  <2> QED
    BY <2>4, <2>5
<1> QED
  BY <1>1 DEF LoadIsRight

(* The walk is at its end.                                                      *)
LEMMA LoadEnds ==
  ASSUME NEW Words, NEW l, NEW vars, LoadIsRight(Words, l, <<>>, NoVar, vars)
  PROVE  Applied(l, vars)
<1>1. DOMAIN <<>> = {}
  OBVIOUS
<1>2. ASSUME NEW o \in DOMAIN l.before
      PROVE  vars[o].val \in (IF GivenBy(l.doc, vars[o]) # {} THEN GivenBy(l.doc, vars[o]) ELSE {l.before[o].val})
  <2>1. OnTheWay(l, <<>>, NoVar, vars, o)
    BY DEF LoadIsRight
  <2> QED
    BY <1>1, <2>1 DEF OnTheWay
<1> QED
  BY <1>2 DEF Applied

(* The variables a node names and those that can take it; one of both is set.   *)
AreNamed(vars, name, named) ==
  \A o \in DOMAIN vars : o \in named <=> name # <<>> /\ Valid(name) /\ vars[o].name = name
CanTake(vars, node, takes) ==
  \A o \in DOMAIN vars : o \in takes <=> (vars[o].type = "int" => node \in {TextNode(n) : n \in Ints})
SetOne(vars, node, ones, s) ==
  \/ \E o \in DOMAIN vars \cap ones :
       \/ node = vars[o].val /\ s = NoVar
       \/ s.var = o /\ s.val = node /\ s # NoVar
  \/ s = NoVar /\ DOMAIN vars \cap ones = {}

(* A node is visited: what o is called is its name, or below it, or elsewhere.  *)
LEMMA LoadVisits ==
  ASSUME NEW Words, Readable(Words), NEW l, NEW q, NEW vars, ProperVars(Words, vars),
         LoadIsRight(Words, l, q, NoVar, vars), q # <<>>,
         NEW name, name = Head(q)[1], NEW node, node = Head(q)[2],
         NEW m, m = IF Valid(name) THEN Members(name, node) ELSE <<>>,
         NEW named, NEW takes, AreNamed(vars, name, named), CanTake(vars, node, takes),
         NEW s, SetOne(vars, node, named \cap takes, s)
  PROVE  LoadIsRight(Words, l, m \o Tail(q), s, vars)
<1>1. PICK nodes : q \in Seq(Seq(Words) \X nodes)
  BY DEF LoadIsRight, Walk
<1>2. 1 \in DOMAIN q /\ Head(q) = q[1] /\ q[1] \in Seq(Words) \X nodes
  BY <1>1, HeadTailProperties
<1>3. name = q[1][1] /\ node = q[1][2] /\ name \in Seq(Words) /\ l.doc \in Docs
  BY <1>2 DEF LoadIsRight
<1>4. IsNodeAt(l.doc, name, node)
  BY <1>2, <1>3 DEF LoadIsRight, Walk
<1>5. PICK some : m \in Seq(Seq(Words) \X some)
  <2>1. CASE Valid(name)
    BY <1>3, <1>4, <2>1, MembersAreInside
  <2>2. CASE ~Valid(name)
    <3>1. m \in Seq(Seq(Words) \X {})
      BY <2>2
    <3> QED
      BY <3>1
  <2> QED
    BY <2>1, <2>2
<1>6. \A i \in DOMAIN m : IsNodeAt(l.doc, m[i][1], m[i][2])
  <2>1. CASE Valid(name)
    BY <1>3, <1>4, <2>1, MembersAreInside
  <2>2. CASE ~Valid(name)
    <3>1. DOMAIN m = {}
      BY <2>2
    <3> QED
      BY <3>1
  <2> QED
    BY <2>1, <2>2
<1>7. PICK all : all = Seq(Words) \X (nodes \cup some)
  OBVIOUS
<1>8. q \in Seq(all) /\ m \in Seq(all)
  <2>1. Seq(Words) \X nodes \subseteq all /\ Seq(Words) \X some \subseteq all
    BY <1>7
  <2> QED
    BY <1>1, <1>5, <2>1
<1>9. PICK r : r = m \o Tail(q)
  OBVIOUS
<1>10. /\ r \in Seq(all)
       /\ \A i \in DOMAIN m : \E j \in DOMAIN r : r[j] = m[i]
       /\ \A i \in DOMAIN q : i = 1 \/ \E j \in DOMAIN r : r[j] = q[i]
       /\ \A j \in DOMAIN r : \/ \E i \in DOMAIN m : r[j] = m[i]
                              \/ \E i \in DOMAIN q : r[j] = q[i]
  <2>1. r \in Seq(all) /\ HeadReplaced(q, m, r)
    BY <1>8, <1>9, FrontReplaced
  <2> QED
    BY <2>1 DEF HeadReplaced
<1>11. Walk(Words, r, l.doc)
  <2>1. \A i \in DOMAIN q : IsNodeAt(l.doc, q[i][1], q[i][2])
    BY DEF LoadIsRight, Walk
  <2>2. \A j \in DOMAIN r : IsNodeAt(l.doc, r[j][1], r[j][2])
    BY <1>6, <1>10, <2>1
  <2> QED
    BY <1>7, <1>10, <2>2 DEF Walk
<1>12. ASSUME NEW o \in DOMAIN vars, vars[o].name = name, o \in takes
       PROVE  node \in GivenBy(l.doc, vars[o])
  BY <1>4, <1>12 DEF GivenBy, IsNodeAt, CanTake
<1>13. s # NoVar => s.val \in GivenBy(l.doc, vars[s.var])
  <2>1. ASSUME s # NoVar
        PROVE  s.var \in DOMAIN vars \cap named \cap takes /\ s.val = node
    BY <2>1 DEF SetOne
  <2> QED
    BY <1>12, <2>1 DEF AreNamed
<1>14. ASSUME NEW o \in DOMAIN l.before
       PROVE  OnTheWay(l, r, s, vars, o)
  <2>1. o \in DOMAIN vars /\ OnTheWay(l, q, NoVar, vars, o)
    BY DEF LoadIsRight
  <2>2. PICK its : its = vars[o].name
    OBVIOUS
  <2>3. Valid(its) /\ its \in Seq(Words) /\ its # <<>>
    BY <2>1, <2>2 DEF ProperVars
  <2>4. ASSUME NEW i \in DOMAIN q, StartsWith(its, q[i][1])
        PROVE  \/ \E j \in DOMAIN r : StartsWith(its, r[j][1])
               \/ GivenBy(l.doc, vars[o]) = {}
               \/ vars[o].val \in GivenBy(l.doc, vars[o])
               \/ s # NoVar /\ s.var = o
    <3>1. CASE i # 1
      BY <1>10, <2>4, <3>1
    <3>2. CASE i = 1
      <4>1. StartsWith(its, name)
        BY <1>3, <2>4, <3>2
      <4>2. Valid(name)
        BY <1>3, <2>3, <4>1 DEF Valid, StartsWith
      <4>3. \/ its = name
            \/ \E j \in DOMAIN m : StartsWith(its, m[j][1])
            \/ NodesAt(l.doc, its) = {}
        BY <1>3, <1>4, <2>3, <4>1, <4>2, NameBelow
      <4>4. CASE its = name /\ o \in takes
        <5>1. o \in named
          BY <2>1, <2>2, <2>3, <4>2, <4>4 DEF AreNamed
        <5>2. PICK p \in DOMAIN vars :
                /\ p \in named /\ p \in takes
                /\ \/ node = vars[p].val /\ s = NoVar
                   \/ s.var = p /\ s.val = node /\ s # NoVar
          BY <2>1, <4>4, <5>1 DEF SetOne
        <5>3. p = o
          BY <2>1, <2>2, <4>4, <5>2 DEF ProperVars, AreNamed
        <5>4. node \in GivenBy(l.doc, vars[o])
          BY <1>12, <2>1, <2>2, <4>4
        <5> QED
          BY <5>2, <5>3, <5>4
      <4>5. CASE its = name /\ o \notin takes
        <5>1. GivenBy(l.doc, vars[o]) = {}
          BY <1>4, <2>1, <2>2, <4>5 DEF GivenBy, IsNodeAt, CanTake
        <5> QED
          BY <5>1
      <4>6. CASE \E j \in DOMAIN m : StartsWith(its, m[j][1])
        BY <1>10, <4>6
      <4>7. CASE NodesAt(l.doc, its) = {}
        <5>1. GivenBy(l.doc, vars[o]) = {}
          BY <2>2, <4>7 DEF GivenBy
        <5> QED
          BY <5>1
      <4> QED
        BY <4>3, <4>4, <4>5, <4>6, <4>7
    <3> QED
      BY <3>1, <3>2
  <2> QED
    BY <2>1, <2>2, <2>4 DEF OnTheWay
<1>15. LoadIsRight(Words, l, r, s, vars)
  BY <1>11, <1>13, <1>14 DEF LoadIsRight
<1> QED
  BY <1>9, <1>15

-----------------------------------------------------------------------------
(* The steps, one by one.  A variable that is about to be assigned is told from *)
(* nullptr.                                                                     *)

SettersAreShown == \A o, x : [var |-> o, val |-> x] # NoVar

LEMMA InitLInv == \A Words : ConfigMapInit => LInv(Words)
<1> SUFFICES ASSUME NEW Words, ConfigMapInit
             PROVE  LInv(Words)
  OBVIOUS
<1>1. /\ DOMAIN objects = {} /\ DOMAIN todo = Clients /\ DOMAIN loading = Clients
      /\ \A t \in Clients : loading[t] = NoVar
      /\ loaded = NoVar
  BY DEF ConfigMapInit
<1>2. LoadShape /\ ProperVars(Words, objects)
  BY <1>1 DEF LoadShape, ProperVars
<1>3. QuietLoads(Words) /\ LastLoad
  BY <1>1 DEF QuietLoads, Quiet, LastLoad
<1> QED
  BY <1>2, <1>3 DEF LInv

(* A load that a set disturbs is no longer quiet.                               *)
LEMMA Disturbed ==
  ASSUME LoadShape, NEW others, Disturb(others), DOMAIN todo' = Clients
  PROVE  /\ LoadShape'
         /\ \A u \in Clients : Quiet(loading'[u]) => u \notin others /\ loading'[u] = loading[u]
<1>1. DOMAIN loading' = Clients
  BY DEF Disturb
<1>2. ASSUME NEW u \in Clients
      PROVE  /\ loading'[u] # NoVar =>
                  loading'[u] = [doc |-> loading'[u].doc, before |-> loading'[u].before,
                                 quiet |-> loading'[u].quiet]
             /\ Quiet(loading'[u]) => u \notin others /\ loading'[u] = loading[u]
  <2>1. PICK l, k : l = loading[u] /\ k = loading'[u]
    OBVIOUS
  <2>2. l # NoVar => l = [doc |-> l.doc, before |-> l.before, quiet |-> l.quiet]
    BY <2>1 DEF LoadShape
  <2>3. k = IF u \in others /\ l # NoVar THEN [l EXCEPT !.quiet = FALSE] ELSE l
    BY <2>1 DEF Disturb
  <2>4. CASE u \in others /\ l # NoVar
    <3>1. k = [doc |-> l.doc, before |-> l.before, quiet |-> FALSE]
      BY <2>2, <2>3, <2>4
    <3>2. k.doc = l.doc /\ k.before = l.before /\ k.quiet = FALSE
      BY <3>1
    <3> QED
      BY <2>1, <3>1, <3>2 DEF Quiet
  <2>5. CASE ~(u \in others /\ l # NoVar)
    <3>1. k = l
      BY <2>3, <2>5
    <3> QED
      BY <2>1, <2>2, <2>5, <3>1 DEF Quiet
  <2> QED
    BY <2>4, <2>5
<1> QED
  BY <1>1, <1>2 DEF LoadShape

(* Looking up: the variables there were stay as they are.                       *)
LEMMA LooksUp ==
  ASSUME NEW Words, Readable(Words), LInv(Words), MInv, MInv',
         NEW t \in Clients, NEW n \in LookUpNames, NEW type \in Types, lookUp(t, n, type) \/ find(t, n, type)
  PROVE  LInv(Words)'
<1>1. UNCHANGED <<todo, setter, loading, loaded>>
  BY DEF lookUp, find
<1>2. /\ DOMAIN objects \subseteq DOMAIN objects'
      /\ \A o \in DOMAIN objects : objects'[o] = objects[o]
      /\ \A o \in DOMAIN objects' \ DOMAIN objects : Valid(objects'[o].name)
  <2>1. CASE UNCHANGED objects
    BY <2>1
  <2>2. CASE ~UNCHANGED objects
    <3>1. Valid(n) /\ Register(t, n, type)
      BY <2>2 DEF lookUp, find, Gets
    <3>2. PICK x : x = [name |-> n, type |-> type, val |-> TextNode("0")]
      OBVIOUS
    <3>3. objects' = Append(objects, x) /\ x.name = n
      BY <3>1, <3>2 DEF Register
    <3>4. PICK values : objects \in Seq(VarRecs(values))
      BY DEF MInv, AreVars
    <3>5. PICK k : k = Len(objects)
      OBVIOUS
    <3>6. /\ k \in Nat /\ DOMAIN objects = 1 .. k /\ DOMAIN objects' = 1 .. k + 1
          /\ objects'[k + 1] = x /\ \A o \in 1 .. k : objects'[o] = objects[o]
      BY <3>3, <3>4, <3>5
    <3>7. \A o \in DOMAIN objects' \ DOMAIN objects : o = k + 1
      BY <3>6
    <3> QED
      BY <3>1, <3>3, <3>6, <3>7
  <2> QED
    BY <2>1, <2>2
<1>3. \A o \in DOMAIN objects' : Valid(objects'[o].name)
  BY <1>2 DEF LInv, ProperVars
<1>4. ProperVars(Words, objects)'
  <2>1. \A o \in DOMAIN objects' : objects'[o].name \in DOMAIN s_datas' /\ s_datas'[objects'[o].name] = o
    BY DEF MInv, BothWays
  <2>2. DOMAIN s_datas' \subseteq Seq(Words) \ {<<>>}
    BY DEF MInv, BothWays, Readable
  <2>3. \A o \in DOMAIN objects' : objects'[o].name \in Seq(Words) \ {<<>>}
    BY <2>1, <2>2
  <2>4. \A o, p \in DOMAIN objects' : objects'[o].name = objects'[p].name => o = p
    BY <2>1
  <2> QED
    BY <1>3, <2>3, <2>4 DEF ProperVars
<1>5. LoadShape'
  BY <1>1 DEF LInv, LoadShape
<1>6. QuietLoads(Words)'
  <2>1. ASSUME NEW u \in Clients, Quiet(loading[u])
        PROVE  /\ \A v \in Clients \ {u} : setter[v] = NoVar
               /\ LoadIsRight(Words, loading[u], todo[u], setter[u], objects')
    <3>1. \A v \in Clients \ {u} : setter[v] = NoVar
      BY <2>1 DEF LInv, QuietLoads
    <3>2. LoadIsRight(Words, loading[u], todo[u], setter[u], objects)
      BY <2>1 DEF LInv, QuietLoads
    <3>3. setter[u] # NoVar => setter[u].var \in DOMAIN objects
      BY DEF MInv, Pointers
    <3> QED
      BY <1>2, <3>1, <3>2, <3>3, MoreVars
  <2> QED
    BY <1>1, <2>1 DEF QuietLoads
<1>7. LastLoad'
  <2>1. loaded # NoVar => DOMAIN loaded.before \subseteq DOMAIN objects' /\ Applied(loaded, objects')
    BY <1>2 DEF LInv, LastLoad, Applied
  <2> QED
    BY <1>1, <2>1 DEF LastLoad
<1> QED
  BY <1>4, <1>5, <1>6, <1>7 DEF LInv

LEMMA SetsAlone ==
  ASSUME NEW Words, LInv(Words), NEW t, NEW x, setValue(t, x)
  PROVE  LInv(Words)'
<1>1. Disturb(Clients) /\ loaded' = NoVar /\ UNCHANGED <<todo, objects>>
  BY DEF setValue
<1>2. LoadShape' /\ \A u \in Clients : ~Quiet(loading'[u])
  <2>1. LoadShape /\ DOMAIN todo' = Clients
    BY <1>1 DEF LInv, LoadShape
  <2> QED
    BY <1>1, <2>1, Disturbed
<1>3. ProperVars(Words, objects)'
  BY <1>1 DEF LInv, ProperVars
<1>4. QuietLoads(Words)' /\ LastLoad'
  BY <1>1, <1>2 DEF QuietLoads, LastLoad
<1> QED
  BY <1>2, <1>3, <1>4 DEF LInv

LEMMA Assigns ==
  ASSUME NEW Words, LInv(Words), MInv, NEW t \in Clients, Assign(t)
  PROVE  LInv(Words)'
<1>1. PICK s : s = setter[t]
  OBVIOUS
<1>2. /\ s # NoVar /\ s.var \in DOMAIN objects
      /\ objects' = [objects EXCEPT ![s.var].val = s.val]
      /\ setter' = [setter EXCEPT ![t] = NoVar]
      /\ Disturb(Clients \ {t}) /\ loaded' = NoVar /\ UNCHANGED todo
  BY <1>1 DEF Assign, MInv, Pointers
<1>3. /\ LoadShape'
      /\ \A u \in Clients : Quiet(loading'[u]) => u = t /\ loading'[u] = loading[u]
  <2>1. LoadShape /\ DOMAIN todo' = Clients
    BY <1>2 DEF LInv, LoadShape
  <2>2. \A u \in Clients : Quiet(loading'[u]) => u \notin Clients \ {t} /\ loading'[u] = loading[u]
    BY <1>2, <2>1, Disturbed
  <2>3. LoadShape'
    BY <1>2, <2>1, Disturbed
  <2> QED
    BY <2>2, <2>3
<1>4. /\ DOMAIN objects' = DOMAIN objects
      /\ \A o \in DOMAIN objects :
           /\ objects'[o].name = objects[o].name /\ objects'[o].type = objects[o].type
           /\ objects'[o].val = IF o = s.var THEN s.val ELSE objects[o].val
  <2>1. PICK values : objects \in Seq(VarRecs(values))
    BY DEF MInv, AreVars
  <2>2. DOMAIN objects' = DOMAIN objects
    BY <1>2
  <2>3. ASSUME NEW o \in DOMAIN objects
        PROVE  /\ objects'[o].name = objects[o].name /\ objects'[o].type = objects[o].type
               /\ objects'[o].val = IF o = s.var THEN s.val ELSE objects[o].val
    <3>1. PICK x : x = objects[o]
      OBVIOUS
    <3>2. x = [name |-> x.name, type |-> x.type, val |-> x.val]
      <4>1. x \in VarRecs(values)
        BY <2>1, <3>1
      <4> QED
        BY <4>1 DEF VarRecs
    <3>3. objects'[o] = IF o = s.var THEN [x EXCEPT !.val = s.val] ELSE x
      BY <1>2, <3>1
    <3>4. CASE o = s.var
      <4>1. objects'[o] = [name |-> x.name, type |-> x.type, val |-> s.val]
        BY <3>2, <3>3, <3>4
      <4> QED
        BY <3>1, <3>4, <4>1
    <3>5. CASE o # s.var
      BY <3>1, <3>3, <3>5
    <3> QED
      BY <3>4, <3>5
  <2> QED
    BY <2>2, <2>3
<1>5. ProperVars(Words, objects)'
  BY <1>4 DEF LInv, ProperVars
<1>6. QuietLoads(Words)'
  <2>1. ASSUME Quiet(loading[t])
        PROVE  /\ \A u \in Clients \ {t} : setter'[u] = NoVar
               /\ LoadIsRight(Words, loading[t], todo[t], setter'[t], objects')
    <3>1. /\ \A u \in Clients \ {t} : setter[u] = NoVar
          /\ LoadIsRight(Words, loading[t], todo[t], s, objects)
      BY <1>1, <2>1 DEF LInv, QuietLoads
    <3>2. setter'[t] = NoVar /\ \A u \in Clients \ {t} : setter'[u] = NoVar
      BY <1>2, <3>1 DEF MInv, Pointers
    <3>3. LoadIsRight(Words, loading[t], todo[t], NoVar, objects')
      BY <1>2, <1>4, <3>1, LoadAssigns
    <3> QED
      BY <3>2, <3>3
  <2> QED
    BY <1>2, <1>3, <2>1 DEF QuietLoads
<1> QED
  BY <1>2, <1>3, <1>5, <1>6 DEF LInv, LastLoad

LEMMA Begins ==
  ASSUME NEW Words, Readable(Words), LInv(Words), MInv, NEW t \in Clients, NEW doc \in Docs, loadFromYaml(t, doc)
  PROVE  LInv(Words)'
<1>1. PICK l : l = [doc |-> doc, before |-> objects,
                    quiet |-> \A u \in Clients : setter[u] = NoVar /\ loading[u] = NoVar]
  OBVIOUS
<1>2. /\ todo' = [todo EXCEPT ![t] = <<<<<<>>, doc>>>>] /\ loading' = [loading EXCEPT ![t] = l]
      /\ UNCHANGED <<objects, setter, loaded>> /\ setter[t] = NoVar
  BY <1>1 DEF loadFromYaml, Idle
<1>3. /\ l.doc = doc /\ l.before = objects
      /\ l.quiet => \A u \in Clients : setter[u] = NoVar
  BY <1>1
<1>4. l = [doc |-> l.doc, before |-> l.before, quiet |-> l.quiet]
  BY <1>1
<1>5. /\ DOMAIN todo' = Clients /\ DOMAIN loading' = Clients
      /\ loading'[t] = l /\ todo'[t] = <<<<<<>>, doc>>>>
      /\ \A u \in Clients \ {t} : loading'[u] = loading[u] /\ todo'[u] = todo[u]
  BY <1>2 DEF LInv, LoadShape
<1>6. LoadShape'
  <2>1. ASSUME NEW u \in Clients, loading'[u] # NoVar
        PROVE  loading'[u] = [doc |-> loading'[u].doc, before |-> loading'[u].before, quiet |-> loading'[u].quiet]
    <3>1. CASE u = t
      BY <1>4, <1>5, <3>1
    <3>2. CASE u # t
      BY <1>5, <2>1, <3>2 DEF LInv, LoadShape
    <3> QED
      BY <3>1, <3>2
  <2> QED
    BY <1>5, <2>1 DEF LoadShape
<1>7. QuietLoads(Words)'
  <2>1. ASSUME NEW u \in Clients, Quiet(loading'[u])
        PROVE  /\ \A v \in Clients \ {u} : setter[v] = NoVar
               /\ LoadIsRight(Words, loading'[u], todo'[u], setter[u], objects)
    <3>1. CASE u = t
      <4>1. \A v \in Clients : setter[v] = NoVar
        BY <1>3, <1>5, <2>1, <3>1 DEF Quiet
      <4>2. ProperVars(Words, objects)
        BY DEF LInv
      <4>3. LoadIsRight(Words, l, <<<<<<>>, doc>>>>, NoVar, objects)
        BY <1>3, <4>2, LoadBegins
      <4> QED
        BY <1>2, <1>5, <3>1, <4>1, <4>3
    <3>2. CASE u # t
      BY <1>5, <2>1, <3>2 DEF LInv, QuietLoads
    <3> QED
      BY <3>1, <3>2
  <2> QED
    BY <1>2, <2>1 DEF QuietLoads
<1> QED
  BY <1>2, <1>6, <1>7 DEF LInv, LastLoad

LEMMA Ends ==
  ASSUME NEW Words, LInv(Words), NEW t \in Clients, Loaded(t)
  PROVE  LInv(Words)'
<1>1. /\ loading[t] # NoVar /\ todo[t] = <<>> /\ setter[t] = NoVar
      /\ loaded' = IF loading[t].quiet THEN loading[t] ELSE loaded
      /\ loading' = [loading EXCEPT ![t] = NoVar]
      /\ UNCHANGED <<objects, todo, setter>>
  BY DEF Loaded
<1>2. /\ DOMAIN loading' = Clients /\ loading'[t] = NoVar
      /\ \A u \in Clients \ {t} : loading'[u] = loading[u]
  BY <1>1 DEF LInv, LoadShape
<1>3. LoadShape' /\ ProperVars(Words, objects)'
  BY <1>1, <1>2 DEF LInv, LoadShape, ProperVars
<1>4. QuietLoads(Words)'
  <2>1. ASSUME NEW u \in Clients, Quiet(loading'[u])
        PROVE  /\ \A v \in Clients \ {u} : setter[v] = NoVar
               /\ LoadIsRight(Words, loading'[u], todo[u], setter[u], objects)
    <3>1. u # t
      BY <1>2, <2>1 DEF Quiet
    <3> QED
      BY <1>2, <2>1, <3>1 DEF LInv, QuietLoads
  <2> QED
    BY <1>1, <2>1 DEF QuietLoads
<1>5. LastLoad'
  <2>1. CASE loading[t].quiet
    <3>1. LoadIsRight(Words, loading[t], <<>>, NoVar, objects)
      BY <1>1, <2>1 DEF LInv, QuietLoads, Quiet
    <3>2. DOMAIN loading[t].before \subseteq DOMAIN objects /\ Applied(loading[t], objects)
      BY <3>1, LoadEnds DEF LoadIsRight
    <3> QED
      BY <1>1, <2>1, <3>2 DEF LastLoad
  <2>2. CASE ~loading[t].quiet
    BY <1>1, <2>2 DEF LInv, LastLoad
  <2> QED
    BY <2>1, <2>2
<1> QED
  BY <1>3, <1>4, <1>5 DEF LInv

LEMMA Visits ==
  ASSUME NEW Words, Readable(Words), SettersAreShown, LInv(Words), MInv, NEW t \in Clients, LoadNode(t)
  PROVE  LInv(Words)'
<1>1. PICK q, name, node : q = todo[t] /\ name = Head(q)[1] /\ node = Head(q)[2]
  OBVIOUS
<1>2. PICK m : m = IF Valid(name) THEN Members(name, node) ELSE <<>>
  OBVIOUS
<1>3. /\ q # <<>> /\ setter[t] = NoVar /\ UNCHANGED objects
      /\ todo' = [todo EXCEPT ![t] = m \o Tail(q)]
  BY <1>1, <1>2 DEF LoadNode
<1>4. /\ DOMAIN todo' = Clients /\ todo'[t] = m \o Tail(q)
      /\ \A u \in Clients \ {t} : todo'[u] = todo[u]
  BY <1>3 DEF LInv, LoadShape
<1>5. PICK named : AreNamed(objects, name, named)
  <2>1. PICK named : named = {o \in DOMAIN objects : name # <<>> /\ Valid(name) /\ objects[o].name = name}
    OBVIOUS
  <2>2. AreNamed(objects, name, named)
    BY <2>1 DEF AreNamed
  <2> QED
    BY <2>2
<1>6. PICK takes : CanTake(objects, node, takes)
  <2>1. PICK takes : takes = {o \in DOMAIN objects : objects[o].type = "int" => node \in {TextNode(n) : n \in Ints}}
    OBVIOUS
  <2>2. CanTake(objects, node, takes)
    BY <2>1 DEF CanTake
  <2> QED
    BY <2>2
<1>7. \A o \in DOMAIN objects : Converts(o, node) <=> o \in takes
  BY <1>6 DEF Converts, CanTake
<1>8. \A o \in DOMAIN objects : Names(t, o) <=> o \in named
  <2>1. ASSUME NEW o \in DOMAIN objects
        PROVE  o = Registered(name) /\ o # NoVar <=> objects[o].name = name
    <3>1. o # NoVar
      BY VarsAre, ConfigMapAssumption DEF MInv
    <3>2. objects[o].name \in DOMAIN s_datas /\ s_datas[objects[o].name] = o
      BY DEF MInv, BothWays
    <3>3. name \in DOMAIN s_datas => objects[s_datas[name]].name = name
      BY DEF MInv, BothWays
    <3> QED
      BY <3>1, <3>2, <3>3 DEF Registered
  <2> QED
    BY <1>1, <1>5, <2>1 DEF Names, AreNamed
<1>9. ProperVars(Words, objects) /\ ProperVars(Words, objects)'
  BY <1>3 DEF LInv, ProperVars
<1>10. ASSUME NEW s, Quiet(loading[t]), SetOne(objects, node, named \cap takes, s)
      PROVE  /\ \A u \in Clients \ {t} : setter[u] = NoVar
             /\ LoadIsRight(Words, loading[t], m \o Tail(q), s, objects)
  <2>1. /\ \A u \in Clients \ {t} : setter[u] = NoVar
        /\ LoadIsRight(Words, loading[t], q, NoVar, objects)
    BY <1>1, <1>3, <1>10 DEF LInv, QuietLoads
  <2>2. LoadIsRight(Words, loading[t], m \o Tail(q), s, objects)
    BY <1>1, <1>2, <1>3, <1>5, <1>6, <1>9, <1>10, <2>1, LoadVisits
  <2> QED
    BY <2>1, <2>2
<1>11. CASE \E o \in DOMAIN objects :
              /\ Names(t, o) /\ Converts(o, node)
              /\ BeginSet(t, o, node) /\ Disturb(Clients \ {t}) /\ loaded' = NoVar
  <2>1. PICK o \in DOMAIN objects :
          /\ Names(t, o) /\ Converts(o, node)
          /\ BeginSet(t, o, node) /\ Disturb(Clients \ {t}) /\ loaded' = NoVar
    BY <1>11
  <2>2. PICK s : s = IF node = objects[o].val THEN NoVar ELSE [var |-> o, val |-> node]
    OBVIOUS
  <2>3. \/ node = objects[o].val /\ s = NoVar
        \/ s.var = o /\ s.val = node /\ s # NoVar
    <3>1. CASE node = objects[o].val
      BY <2>2, <3>1
    <3>2. CASE node # objects[o].val
      <4>1. s = [var |-> o, val |-> node]
        BY <2>2, <3>2
      <4>2. s # NoVar
        BY <4>1 DEF SettersAreShown
      <4> QED
        BY <4>1, <4>2
    <3> QED
      BY <3>1, <3>2
  <2>4. setter' = [setter EXCEPT ![t] = s]
    BY <2>1, <2>2 DEF BeginSet
  <2>5. setter'[t] = s /\ \A u \in Clients \ {t} : setter'[u] = setter[u]
    BY <2>4 DEF MInv, Pointers
  <2>6. LoadShape
    BY DEF LInv
  <2>7. \A u \in Clients : Quiet(loading'[u]) => u \notin Clients \ {t} /\ loading'[u] = loading[u]
    BY <1>4, <2>1, <2>6, Disturbed
  <2>8. LoadShape'
    BY <1>4, <2>1, <2>6, Disturbed
  <2>9. ASSUME Quiet(loading[t])
        PROVE  /\ \A u \in Clients \ {t} : setter[u] = NoVar
               /\ LoadIsRight(Words, loading[t], m \o Tail(q), s, objects)
    <3>1. SetOne(objects, node, named \cap takes, s)
      <4>1. o \in DOMAIN objects \cap (named \cap takes)
        BY <1>7, <1>8, <2>1
      <4> QED
        BY <2>3, <4>1 DEF SetOne
    <3> QED
      BY <1>10, <2>9, <3>1
  <2>10. QuietLoads(Words)'
    BY <1>3, <1>4, <2>5, <2>7, <2>9 DEF QuietLoads
  <2> QED
    BY <1>9, <2>1, <2>8, <2>10 DEF LInv, LastLoad
<1>12. CASE /\ ~\E o \in DOMAIN objects : Names(t, o) /\ Converts(o, node)
            /\ UNCHANGED <<setter, loading, loaded>>
  <2>1. SetOne(objects, node, named \cap takes, NoVar)
    BY <1>7, <1>8, <1>12 DEF SetOne
  <2>2. ASSUME NEW u \in Clients, Quiet(loading[u])
        PROVE  /\ \A v \in Clients \ {u} : setter[v] = NoVar
               /\ LoadIsRight(Words, loading[u], todo'[u], setter[u], objects)
    <3>1. CASE u = t
      BY <1>3, <1>4, <1>10, <2>1, <2>2, <3>1
    <3>2. CASE u # t
      BY <1>4, <2>2, <3>2 DEF LInv, QuietLoads
    <3> QED
      BY <3>1, <3>2
  <2>3. QuietLoads(Words)'
    BY <1>3, <1>12, <2>2 DEF QuietLoads
  <2>4. LoadShape' /\ LastLoad'
    BY <1>3, <1>4, <1>12 DEF LInv, LoadShape, LastLoad
  <2> QED
    BY <1>9, <2>3, <2>4 DEF LInv
<1> QED
  BY <1>1, <1>11, <1>12 DEF LoadNode

LEMMA NextLInv ==
  ASSUME NEW Words, Readable(Words), SettersAreShown, LInv(Words), MInv, MInv', [ConfigMapNext]_cvars
  PROVE  LInv(Words)'
<1>1. CASE ConfigMapNext
  <2>1. PICK t \in Clients :
          \/ \E n \in LookUpNames, type \in Types : lookUp(t, n, type) \/ find(t, n, type)
          \/ \E x \in Ints : setValue(t, x)
          \/ \E doc \in Docs : loadFromYaml(t, doc)
          \/ LoadNode(t) \/ Assign(t) \/ Loaded(t)
    BY <1>1 DEF ConfigMapNext
  <2>2. CASE \E n \in LookUpNames, type \in Types : lookUp(t, n, type) \/ find(t, n, type)
    BY <2>2, LooksUp
  <2>3. CASE \E x \in Ints : setValue(t, x)
    BY <2>3, SetsAlone
  <2>4. CASE \E doc \in Docs : loadFromYaml(t, doc)
    BY <2>4, Begins
  <2>5. CASE LoadNode(t)
    BY <2>5, Visits
  <2>6. CASE Assign(t)
    BY <2>6, Assigns
  <2>7. CASE Loaded(t)
    BY <2>7, Ends
  <2> QED
    BY <2>1, <2>2, <2>3, <2>4, <2>5, <2>6, <2>7
<1>2. CASE UNCHANGED cvars
  BY <1>2 DEF cvars, LInv, LoadShape, ProperVars, QuietLoads, LastLoad
<1> QED
  BY <1>1, <1>2

(* After a load that nothing disturbed, every variable there was has the value  *)
(* the document gives its name, if it gives one the variable can take, and the  *)
(* others are as they were: whatever the document, whatever other threads look  *)
(* up meanwhile.  Documents are trees of maps with finitely many words, and no  *)
(* variable has the empty name, which loadFromYaml passes over.                 *)
THEOREM QuietLoadsAreApplied ==
  ASSUME NEW Words, Readable(Words), SettersAreShown
  PROVE  ConfigMapSpec => []LoadsAreApplied
<1>1. ConfigMapInit => MInv /\ LInv(Words)
  BY InitMInv, InitLInv
<1>2. MInv /\ LInv(Words) /\ [ConfigMapNext]_cvars => (MInv /\ LInv(Words))'
  <2> SUFFICES ASSUME MInv, LInv(Words), [ConfigMapNext]_cvars
               PROVE  MInv' /\ LInv(Words)'
    OBVIOUS
  <2>1. MInv'
    BY NextMInv
  <2> QED
    BY <2>1, NextLInv
<1>3. LInv(Words) => LoadsAreApplied
  <2> SUFFICES ASSUME LInv(Words), loaded # NoVar, NEW o \in DOMAIN loaded.before
               PROVE  LET given == {node \in NodesAt(loaded.doc, objects[o].name) : Converts(o, node)}
                      IN  objects[o].val \in (IF given # {} THEN given ELSE {loaded.before[o].val})
    BY DEF LoadsAreApplied
  <2>1. objects[o].val \in (IF GivenBy(loaded.doc, objects[o]) # {}
                            THEN GivenBy(loaded.doc, objects[o]) ELSE {loaded.before[o].val})
    BY DEF LInv, LastLoad, Applied
  <2>2. GivenBy(loaded.doc, objects[o]) = {node \in NodesAt(loaded.doc, objects[o].name) : Converts(o, node)}
    BY DEF GivenBy, Converts
  <2> QED
    BY <2>1, <2>2
<1> QED
  BY <1>1, <1>2, <1>3, PTL DEF ConfigMapSpec
=============================================================================
