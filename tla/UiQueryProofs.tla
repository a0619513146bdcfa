--------------------------- MODULE UiQueryProofs ---------------------------
(***************************************************************************)
(* Proofs about UiQuery, for every tree of objects and every change the    *)
(* application makes: what UI.waitFor answers is true of the scene at that *)
(* moment; and a selector that is offered as naming a node alone does, and *)
(* goes on to mean it, where the count of selectors sees all that a query  *)
(* finds (Unmistakable).                                                   *)
(***************************************************************************)
EXTENDS UiQuery, FiniteSetTheorems, TLAPS

(* A finite set that an order without circles is given on has an element   *)
(* that comes before no other.                                             *)
LEMMA LastOne ==
    ASSUME NEW S, IsFiniteSet(S), S # {}, NEW R,
           \A x \in S : <<x, x>> \notin R,
           \A x, y, z \in S : <<x, y>> \in R /\ <<y, z>> \in R => <<x, z>> \in R
    PROVE  \E x \in S : \A y \in S : <<x, y>> \notin R
<1> DEFINE After(x) == {y \in S : <<x, y>> \in R}
           afters   == {After(x) : x \in S}
<1>1. IsWellFoundedOn(StrictSubsetOrdering(S), SUBSET S)
  BY FS_StrictSubsetOrderingWellFounded, FS_FiniteSubsetsOfFinite
<1>2. afters \subseteq SUBSET S /\ afters # {}
  <2>1. \A x \in S : After(x) \in SUBSET S
    OBVIOUS
  <2> HIDE DEF After
  <2> QED
    BY <2>1
<1> HIDE DEF afters
<1>3. PICK least \in afters : \A a \in afters : <<a, least>> \notin StrictSubsetOrdering(S)
  BY <1>1, <1>2, WFMin
<1>4. PICK x \in S : least = After(x)
  BY DEF afters
<1>5. ASSUME NEW y \in S, <<x, y>> \in R PROVE FALSE
  <2>1. After(y) \in afters /\ After(y) \subseteq After(x) /\ y \in After(x) \ After(y)
    BY <1>5 DEF afters
  <2>2. <<After(y), After(x)>> \in StrictSubsetOrdering(S)
    BY <2>1 DEF StrictSubsetOrdering
  <2> QED
    BY <1>3, <1>4, <2>1, <2>2
<1> QED
  BY <1>5

(* A set with one element, by its cardinality.                             *)
LEMMA OneElement ==
    ASSUME NEW S, IsFiniteSet(S), NEW x \in S, Cardinality(S) <= 1
    PROVE  S = {x}
<1>1. Cardinality(S) = 0 \/ Cardinality(S) = 1
  BY FS_CardinalityType
<1> QED
  BY <1>1, FS_EmptySet, FS_Singleton

(* Sets of nodes are finite.                                               *)
LEMMA FiniteNodes ==
    ASSUME NEW S \in SUBSET Nodes
    PROVE  /\ IsFiniteSet(S) /\ Cardinality(S) \in Nat /\ Cardinality(S) <= Cardinality(Nodes)
           /\ Cardinality(Nodes) \in Nat
BY NodesAssumption, FS_Subset, FS_CardinalityType

-----------------------------------------------------------------------------
(* The tree.                                                               *)

(* What holds of a node as soon as it holds of its parent holds of all.    *)
LEMMA FromParents ==
    ASSUME NEW S, \A n \in Nodes : (Parent[n] = Nothing \/ Parent[n] \in S) => n \in S
    PROVE  Nodes \subseteq S
<1> DEFINE T == Nodes \ S
<1> SUFFICES ASSUME T # {} PROVE FALSE
  OBVIOUS
<1>1. PICK n \in T : Parent[n] \notin T
  BY ParentAssumption
<1> QED
  BY <1>1, ParentAssumption

(* A definition by what a node's parent has is a definition: every step    *)
(* from the value of the parent to that of the node has a function that    *)
(* follows it.                                                             *)
LEMMA ByParents ==
    ASSUME NEW V, NEW base \in V, NEW Step \in [Nodes -> [V -> V]]
    PROVE  \E f \in [Nodes -> V] : \A n \in Nodes :
               f[n] = IF Parent[n] = Nothing THEN base ELSE Step[n][f[Parent[n]]]
<1> DEFINE Follows(f, n) == f[n] = IF Parent[n] = Nothing THEN base ELSE Step[n][f[Parent[n]]]
           UpTo(T) == \A n \in T : Parent[n] # Nothing => Parent[n] \in T
           defined == {T \in SUBSET Nodes : UpTo(T) /\ \E f \in [T -> V] : \A n \in T : Follows(f, n)}
           larger  == {e \in defined \X defined : e[1] \subseteq e[2] /\ e[1] # e[2]}
<1>1. {} \in defined
  <2>1. [n \in {} |-> base] \in [{} -> V]
    OBVIOUS
  <2> QED
    BY <2>1
<1>2. IsFiniteSet(defined)
  BY NodesAssumption, FS_SUBSET, FS_Subset
<1>3. /\ \A T \in defined : <<T, T>> \notin larger
      /\ \A T, U, W \in defined : <<T, U>> \in larger /\ <<U, W>> \in larger => <<T, W>> \in larger
  <2> HIDE DEF defined
  <2> QED
    OBVIOUS
<1>4. PICK T \in defined : \A U \in defined : <<T, U>> \notin larger
  <2> HIDE DEF defined, larger
  <2> QED
    BY <1>1, <1>2, <1>3, LastOne
<1>5. PICK f \in [T -> V] : \A n \in T : Follows(f, n)
  BY <1>4
<1>6. T \in SUBSET Nodes /\ UpTo(T)
  BY <1>4
<1>7. ASSUME NEW n \in Nodes \ T, Parent[n] = Nothing \/ Parent[n] \in T PROVE FALSE
  <2> DEFINE v == IF Parent[n] = Nothing THEN base ELSE Step[n][f[Parent[n]]]
             g == [m \in T \cup {n} |-> IF m = n THEN v ELSE f[m]]
  <2>1. v \in V
    BY <1>5, <1>7
  <2>2. g \in [T \cup {n} -> V]
    <3> HIDE DEF v
    <3> QED
      BY <1>5, <2>1
  <2>3. ASSUME NEW m \in T \cup {n} PROVE Follows(g, m)
    <3>1. n \notin T /\ Parent[n] # n
      BY <1>7, NodesAssumption
    <3>2. CASE m = n
      BY <1>7, <3>1, <3>2, NodesAssumption
    <3>3. CASE m # n
      <4>1. m \in T /\ g[m] = f[m] /\ (Parent[m] # Nothing => Parent[m] \in T)
        BY <1>6, <2>3, <3>3
      <4>2. Parent[m] # Nothing => g[Parent[m]] = f[Parent[m]]
        BY <3>1, <4>1
      <4> HIDE DEF g
      <4> QED
        BY <1>5, <4>1, <4>2
    <3> QED
      BY <3>2, <3>3
  <2>4. UpTo(T \cup {n})
    BY <1>6, <1>7
  <2>5. T \cup {n} \in defined
    <3> HIDE DEF g
    <3> QED
      BY <1>6, <2>2, <2>3, <2>4
  <2>6. <<T, T \cup {n}>> \in larger
    <3> HIDE DEF defined
    <3> QED
      BY <1>4, <1>7, <2>5
  <2> QED
    BY <1>4, <2>5, <2>6
<1>8. T = Nodes
  BY <1>6, <1>7, FromParents
<1> QED
  BY <1>5, <1>8

(* What is above a node: its parent and what is above that.                *)
LEMMA AboveEquation ==
    /\ Above \in [Nodes -> SUBSET Nodes]
    /\ \A n \in Nodes :
          Above[n] = IF Parent[n] = Nothing THEN {} ELSE {Parent[n]} \cup Above[Parent[n]]
<1> DEFINE V == SUBSET Nodes
           none == {}
           Step == [n \in Nodes |-> [v \in V |-> ({Parent[n]} \cap Nodes) \cup v]]
           Up(f) == f = [n \in Nodes |-> IF Parent[n] = Nothing THEN {}
                                         ELSE {Parent[n]} \cup f[Parent[n]]]
<1>1. Step \in [Nodes -> [V -> V]] /\ none \in V
  OBVIOUS
<1>2. \E f \in [Nodes -> V] : \A n \in Nodes :
         f[n] = IF Parent[n] = Nothing THEN none ELSE Step[n][f[Parent[n]]]
  <2> HIDE DEF Step, V, none
  <2> QED
    BY <1>1, ByParents
<1>3. PICK f \in [Nodes -> V] : \A n \in Nodes :
         f[n] = IF Parent[n] = Nothing THEN {} ELSE {Parent[n]} \cup f[Parent[n]]
  <2>1. PICK f \in [Nodes -> V] : \A n \in Nodes :
           f[n] = IF Parent[n] = Nothing THEN none ELSE Step[n][f[Parent[n]]]
    BY <1>2
  <2>2. ASSUME NEW n \in Nodes, Parent[n] # Nothing
        PROVE  Step[n][f[Parent[n]]] = {Parent[n]} \cup f[Parent[n]]
    <3>1. Parent[n] \in Nodes /\ f[Parent[n]] \in V
      BY <2>1, <2>2, ParentAssumption
    <3> QED
      BY <3>1
  <2>3. \A n \in Nodes :
           f[n] = IF Parent[n] = Nothing THEN {} ELSE {Parent[n]} \cup f[Parent[n]]
    <3> HIDE DEF Step, V
    <3> QED
      BY <2>1, <2>2
  <2> HIDE DEF Step, V
  <2> QED
    BY <2>3
<1>4. Up(f)
  BY <1>3
<1> DEFINE up == CHOOSE g : Up(g)
<1>5. Up(up)
  <2> HIDE DEF Up
  <2> QED
    BY <1>4
<1>6. Above = [n \in Nodes |-> up[n]]
  BY DEF Above
<1> HIDE DEF up
<1>7. \A n \in Nodes : up[n] = IF Parent[n] = Nothing THEN {} ELSE {Parent[n]} \cup up[Parent[n]]
  BY <1>5
<1>8. \A n \in Nodes : Above[n] = up[n]
  BY <1>6
<1>9. ASSUME NEW n \in Nodes
      PROVE  Above[n] = IF Parent[n] = Nothing THEN {} ELSE {Parent[n]} \cup Above[Parent[n]]
  BY <1>7, <1>8, ParentAssumption
<1>10. Nodes \subseteq {n \in Nodes : Above[n] \subseteq Nodes}
  <2> DEFINE S == {n \in Nodes : Above[n] \subseteq Nodes}
  <2>1. ASSUME NEW n \in Nodes, Parent[n] = Nothing \/ Parent[n] \in S PROVE n \in S
    BY <1>9, <2>1
  <2> QED
    BY <2>1, FromParents
<1> QED
  BY <1>6, <1>9, <1>10

(* Above is transitive, and no node is above itself.                       *)
LEMMA AboveFacts ==
    ASSUME NEW n \in Nodes
    PROVE  /\ Above[n] \subseteq Nodes
           /\ \A m \in Above[n] : Above[m] \subseteq Above[n]
           /\ n \notin Above[n]
           /\ n \in Windows => Above[n] = {}
<1> DEFINE S == {k \in Nodes : \A m \in Above[k] : Above[m] \subseteq Above[k]}
<1>1. ASSUME NEW k \in Nodes, Parent[k] = Nothing \/ Parent[k] \in S PROVE k \in S
  BY <1>1, AboveEquation
<1>2. Nodes \subseteq S
  BY <1>1, FromParents
<1> DEFINE T == {k \in Nodes : k \in Above[k]}
<1>3. ASSUME NEW k \in T, Parent[k] \notin T PROVE FALSE
  <2>1. /\ Parent[k] # Nothing /\ Parent[k] \in Nodes
        /\ Above[k] = {Parent[k]} \cup Above[Parent[k]]
    BY <1>3, AboveEquation, ParentAssumption
  <2>2. k \in Above[Parent[k]] \/ k = Parent[k]
    BY <1>3, <2>1
  <2> QED
    BY <1>2, <1>3, <2>1, <2>2
<1>4. T = {}
  BY <1>3, ParentAssumption
<1> QED
  BY <1>2, <1>4, AboveEquation, ParentAssumption DEF Nodes

(* A node and what is above it.                                            *)
Line(n) == {n} \cup Above[n]

LEMMA LineFacts ==
    ASSUME NEW n \in Nodes
    PROVE  /\ n \in Line(n) /\ Line(n) \subseteq Nodes
           /\ \A m \in Line(n) : Line(m) \subseteq Line(n) /\ Above[m] \subseteq Above[n]
           /\ Parent[n] # Nothing => Parent[n] \in Nodes /\ Above[n] = Line(Parent[n])
BY AboveEquation, AboveFacts, ParentAssumption DEF Line

(* Two of a line are in line with each other.                              *)
LEMMA LineIsChain ==
    ASSUME NEW k \in Nodes, NEW m \in Line(k), NEW n \in Line(k)
    PROVE  m = n \/ m \in Above[n] \/ n \in Above[m]
<1> DEFINE S == {j \in Nodes : \A a, b \in Line(j) : a = b \/ a \in Above[b] \/ b \in Above[a]}
<1>1. ASSUME NEW j \in Nodes, Parent[j] = Nothing \/ Parent[j] \in S PROVE j \in S
  <2>1. CASE Parent[j] = Nothing
    BY <2>1, AboveEquation DEF Line
  <2>2. CASE Parent[j] \in S
    <3>1. Above[j] = Line(Parent[j])
      BY <2>2, NodesAssumption, LineFacts
    <3>2. \A a, b \in Above[j] : a = b \/ a \in Above[b] \/ b \in Above[a]
      BY <2>2, <3>1
    <3> QED
      BY <3>2 DEF Line
  <2> QED
    BY <1>1, <2>1, <2>2
<1>2. Nodes \subseteq S
  BY <1>1, FromParents
<1> QED
  BY <1>2

(* Of two siblings, or two windows, neither is above the other, and they   *)
(* are in no line together.                                                *)
LEMMA SiblingsApart ==
    ASSUME NEW a \in Nodes, NEW b \in Nodes, a # b, Parent[a] = Parent[b]
    PROVE  /\ a \notin Above[b] /\ Above[a] = Above[b]
           /\ \A k \in Nodes : ~(a \in Line(k) /\ b \in Line(k))
<1>1. Above[a] = Above[b]
  BY AboveEquation
<1>2. a \notin Above[b] /\ b \notin Above[a]
  BY <1>1, AboveFacts
<1> QED
  BY <1>1, <1>2, LineIsChain

-----------------------------------------------------------------------------
(* The order of the walk.                                                  *)
LEMMA BeforeIsOrder ==
    ASSUME NEW s, s.place \in [Nodes -> Nat]
    PROVE  /\ \A n \in Nodes : ~Before(s, n, n)
           /\ \A k, m, n \in Nodes : Before(s, k, m) /\ Before(s, m, n) => Before(s, k, n)
<1> DEFINE Branches(m, n, a, b) ==
              a \in Line(m) /\ b \in Line(n) /\ Parent[a] = Parent[b] /\ s.place[a] < s.place[b]
<1>1. \A m, n \in Nodes : Before(s, m, n) <=> (m \in Above[n] \/ \E a, b : Branches(m, n, a, b))
  BY DEF Before, Line
<1>2. \A m, n \in Nodes : \A a, b : Branches(m, n, a, b) => a \in Nodes /\ b \in Nodes /\ a # b
  BY LineFacts
<1>3. ASSUME NEW n \in Nodes PROVE ~Before(s, n, n)
  <2>1. ASSUME NEW a, NEW b, Branches(n, n, a, b) PROVE FALSE
    BY <1>2, <2>1, SiblingsApart
  <2> HIDE DEF Branches
  <2> QED
    BY <1>1, <2>1, AboveFacts
<1>4. ASSUME NEW k \in Nodes, NEW m \in Nodes, NEW n \in Nodes, Before(s, k, m), Before(s, m, n)
      PROVE  Before(s, k, n)
  <2>1. CASE k \in Above[m] /\ m \in Above[n]
    BY <1>1, <2>1, AboveFacts
  <2>2. ASSUME k \in Above[m], NEW a, NEW b, Branches(m, n, a, b) PROVE Before(s, k, n)
    <3>1. a \in Nodes /\ b \in Nodes /\ a # b /\ k \in Line(m)
      BY <1>2, <2>2 DEF Line
    <3>2. CASE k \in Above[a]
      <4>1. k \in Above[b] /\ Above[b] \subseteq Above[n]
        BY <2>2, <3>1, <3>2, SiblingsApart, LineFacts
      <4> QED
        BY <1>1, <4>1
    <3>3. CASE k = a \/ a \in Above[k]
      <4>1. Branches(k, n, a, b)
        BY <2>2, <3>3 DEF Line
      <4> QED
        BY <1>1, <4>1
    <3> QED
      BY <2>2, <3>1, <3>2, <3>3, LineIsChain
  <2>3. ASSUME NEW a, NEW b, Branches(k, m, a, b), m \in Above[n] PROVE Before(s, k, n)
    <3>1. Branches(k, n, a, b)
      BY <2>3, LineFacts DEF Line
    <3> QED
      BY <1>1, <3>1
  <2>4. ASSUME NEW a, NEW b, Branches(k, m, a, b), NEW c, NEW d, Branches(m, n, c, d)
        PROVE  Before(s, k, n)
    <3>1. a \in Nodes /\ b \in Nodes /\ c \in Nodes /\ d \in Nodes /\ a # b /\ c # d
      BY <1>2, <2>4
    <3>2. CASE b = c
      <4>1. s.place[a] < s.place[d]
        BY <2>4, <3>1, <3>2
      <4>2. Branches(k, n, a, d)
        BY <2>4, <3>2, <4>1
      <4> QED
        BY <1>1, <4>2
    <3>3. CASE b \in Above[c]
      <4>1. b \in Above[d]
        BY <2>4, <3>1, <3>3, SiblingsApart
      <4>2. b \in Line(n)
        BY <2>4, <4>1, LineFacts DEF Line
      <4> QED
        BY <1>1, <2>4, <4>2
    <3>4. CASE c \in Above[b]
      <4>1. c \in Above[a]
        BY <2>4, <3>1, <3>4, SiblingsApart
      <4>2. c \in Line(k)
        BY <2>4, <4>1, LineFacts DEF Line
      <4> QED
        BY <1>1, <2>4, <4>2
    <3> QED
      BY <2>4, <3>2, <3>3, <3>4, LineIsChain
  <2> HIDE DEF Branches
  <2> QED
    BY <1>1, <1>4, <2>1, <2>2, <2>3, <2>4
<1> QED
  BY <1>3, <1>4

-----------------------------------------------------------------------------
(* Places in models.                                                       *)
Places(o) == {NoContext} \cup {OwnContext(o, n) : n \in Nodes} \cup {DelegateMetadata(o, n) : n \in Nodes}

HasPlace(p) == p.index # Nothing \/ p.cell # Nothing

(* A place is an index or a cell, never both.                              *)
LEMMA OnePlace ==
    ASSUME NEW o \in Orders, NEW p \in Places(o)
    PROVE  /\ p.index = Nothing \/ p.cell = Nothing
           /\ HasPlace(p) => p.is
<1>1. ~HasPlace(NoContext)
  BY DEF NoContext, HasPlace
<1>2. ASSUME NEW n \in Nodes
      PROVE  /\ OwnContext(o, n).index = Nothing \/ OwnContext(o, n).cell = Nothing
             /\ HasPlace(OwnContext(o, n)) => OwnContext(o, n).is
             /\ DelegateMetadata(o, n).index = OwnContext(o, n).index
             /\ DelegateMetadata(o, n).cell = OwnContext(o, n).cell
             /\ OwnContext(o, n).is => DelegateMetadata(o, n).is
  BY DEF OwnContext, HasPlace, DelegateMetadata
<1> QED
  BY <1>1, <1>2 DEF Places, HasPlace

(* The nearest and the farthest place of a node are defined by those of    *)
(* its parent.                                                             *)
Near(o, f) == f = [n \in Nodes |->
    IF Parent[n] = Nothing THEN NoContext
    ELSE IF OwnContext(o, n).is THEN OwnContext(o, n) ELSE f[Parent[n]]]

Far(o, f) == f = [n \in Nodes |->
    IF Parent[n] \in Windows \cup {Nothing} THEN NoContext
    ELSE IF f[Parent[n]].is THEN f[Parent[n]] ELSE DelegateMetadata(o, n)]

LEMMA NearestPlace ==
    ASSUME NEW o
    PROVE  \E f : Near(o, f)
<1> DEFINE V == Places(o)
           none == NoContext
           Step == [n \in Nodes |-> [v \in V |-> IF OwnContext(o, n).is THEN OwnContext(o, n) ELSE v]]
<1>1. Step \in [Nodes -> [V -> V]] /\ none \in V
  BY DEF Places
<1>2. \E f \in [Nodes -> V] : \A n \in Nodes :
         f[n] = IF Parent[n] = Nothing THEN none ELSE Step[n][f[Parent[n]]]
  <2> HIDE DEF Step, V, none
  <2> QED
    BY <1>1, ByParents
<1>3. PICK f \in [Nodes -> V] : \A n \in Nodes :
         f[n] = IF Parent[n] = Nothing THEN none ELSE Step[n][f[Parent[n]]]
  BY <1>2
<1>4. ASSUME NEW n \in Nodes, Parent[n] # Nothing
      PROVE  Step[n][f[Parent[n]]] = IF OwnContext(o, n).is THEN OwnContext(o, n) ELSE f[Parent[n]]
  <2>1. f[Parent[n]] \in V
    BY <1>3, <1>4, ParentAssumption
  <2> HIDE DEF V
  <2> QED
    BY <2>1
<1>5. \A n \in Nodes : f[n] = IF Parent[n] = Nothing THEN NoContext
                              ELSE IF OwnContext(o, n).is THEN OwnContext(o, n) ELSE f[Parent[n]]
  <2> HIDE DEF Step, V
  <2> QED
    BY <1>3, <1>4
<1> HIDE DEF Step, V
<1> QED
  BY <1>3, <1>5 DEF Near

LEMMA FarthestPlace ==
    ASSUME NEW o
    PROVE  \E f : Far(o, f)
<1> DEFINE V == Places(o)
           none == NoContext
           Step == [n \in Nodes |-> [v \in V |->
                       IF Parent[n] \in Windows THEN NoContext
                       ELSE IF v.is THEN v ELSE DelegateMetadata(o, n)]]
<1>1. Step \in [Nodes -> [V -> V]] /\ none \in V
  BY DEF Places
<1>2. \E f \in [Nodes -> V] : \A n \in Nodes :
         f[n] = IF Parent[n] = Nothing THEN none ELSE Step[n][f[Parent[n]]]
  <2> HIDE DEF Step, V, none
  <2> QED
    BY <1>1, ByParents
<1>3. PICK f \in [Nodes -> V] : \A n \in Nodes :
         f[n] = IF Parent[n] = Nothing THEN none ELSE Step[n][f[Parent[n]]]
  BY <1>2
<1>4. ASSUME NEW n \in Nodes, Parent[n] # Nothing
      PROVE  Step[n][f[Parent[n]]] = IF Parent[n] \in Windows THEN NoContext
                                     ELSE IF f[Parent[n]].is THEN f[Parent[n]]
                                     ELSE DelegateMetadata(o, n)
  <2>1. f[Parent[n]] \in V
    BY <1>3, <1>4, ParentAssumption
  <2> HIDE DEF V
  <2> QED
    BY <2>1
<1>5. \A n \in Nodes : f[n] = IF Parent[n] \in Windows \cup {Nothing} THEN NoContext
                              ELSE IF f[Parent[n]].is THEN f[Parent[n]] ELSE DelegateMetadata(o, n)
  <2> HIDE DEF Step, V
  <2> QED
    BY <1>3, <1>4
<1> HIDE DEF Step, V
<1> QED
  BY <1>3, <1>5 DEF Far

(* They are places.                                                        *)
LEMMA ContextIsPlace ==
    ASSUME NEW o \in Orders
    PROVE  \A n \in Nodes : Context[o][n] \in Places(o)
<1> DEFINE near == CHOOSE f : Near(o, f)
<1>1. Near(o, near)
  BY NearestPlace
<1>2. Context[o] = [n \in Nodes |-> near[n]]
  BY DEF Context, Near
<1> HIDE DEF near
<1>3. \A n \in Nodes : near[n] = IF Parent[n] = Nothing THEN NoContext
                                 ELSE IF OwnContext(o, n).is THEN OwnContext(o, n) ELSE near[Parent[n]]
  BY <1>1 DEF Near
<1> DEFINE S == {n \in Nodes : near[n] \in Places(o)}
<1>4. ASSUME NEW n \in Nodes, Parent[n] = Nothing \/ Parent[n] \in S PROVE n \in S
  BY <1>3, <1>4 DEF Places
<1>5. Nodes \subseteq S
  BY <1>4, FromParents
<1> QED
  BY <1>2, <1>5

LEMMA DelegateIsPlace ==
    ASSUME NEW o \in Orders
    PROVE  \A n \in Nodes :
              Delegate[o][n] \in Places(o) /\ (n \in Windows => Delegate[o][n] = NoContext)
<1> DEFINE far == CHOOSE f : Far(o, f)
<1>1. Far(o, far)
  BY FarthestPlace
<1>2. Delegate[o] = [n \in Nodes |-> far[n]]
  BY DEF Delegate, Far
<1> HIDE DEF far
<1>3. \A n \in Nodes : far[n] = IF Parent[n] \in Windows \cup {Nothing} THEN NoContext
                                ELSE IF far[Parent[n]].is THEN far[Parent[n]]
                                ELSE DelegateMetadata(o, n)
  BY <1>1 DEF Far
<1> DEFINE S == {n \in Nodes : far[n] \in Places(o)}
<1>4. ASSUME NEW n \in Nodes, Parent[n] = Nothing \/ Parent[n] \in S PROVE n \in S
  BY <1>3, <1>4 DEF Places
<1>5. Nodes \subseteq S
  BY <1>4, FromParents
<1> QED
  BY <1>2, <1>3, <1>5, ParentAssumption DEF Nodes

(* What a node is annotated with are places, and a window has none.        *)
LEMMA AnnotationsArePlaces ==
    ASSUME NEW o \in Orders, NEW n \in Nodes,
           NEW d \in Annotations[o][n] \cup {Delegate[o][n], NoContext}
    PROVE  d \in Places(o) /\ (n \in Windows => d = NoContext)
<1>1. CASE d \in Annotations[o][n]
  <2>1. d = NoContext \/ \E a \in {n} \cup Above[n] : Parent[a] \in Items /\ d = DelegateMetadata(o, a)
    BY <1>1 DEF Annotations
  <2>2. {n} \cup Above[n] \subseteq Nodes
    BY AboveFacts
  <2>3. d \in Places(o)
    BY <2>1, <2>2 DEF Places
  <2>4. ASSUME n \in Windows PROVE d = NoContext
    <3>1. Above[n] = {} /\ Parent[n] = Nothing /\ Nothing \notin Items
      BY <2>4, AboveFacts, ParentAssumption, NodesAssumption DEF Nodes
    <3> QED
      BY <2>1, <3>1
  <2> QED
    BY <2>3, <2>4
<1> QED
  BY <1>1, DelegateIsPlace DEF Places

-----------------------------------------------------------------------------
(* Queries: what is left of the matches.                                   *)

(* Of some matches a query keeps some, and of one match, that one.         *)
LEMMA FirstOfSome ==
    ASSUME NEW s, s.place \in [Nodes -> Nat], NEW nodes \in SUBSET Nodes, NEW max \in Nat \ {0}
    PROVE  /\ FirstOf(s, nodes, max) \subseteq nodes
           /\ nodes # {} => FirstOf(s, nodes, max) # {}
           /\ Cardinality(nodes) <= max => FirstOf(s, nodes, max) = nodes
<1>1. ASSUME nodes # {} PROVE FirstOf(s, nodes, max) # {}
  <2> DEFINE R == {e \in nodes \X nodes : Before(s, e[2], e[1])}
  <2>1. /\ \A x \in nodes : <<x, x>> \notin R
        /\ \A x, y, z \in nodes : <<x, y>> \in R /\ <<y, z>> \in R => <<x, z>> \in R
    BY BeforeIsOrder
  <2>2. \E x \in nodes : \A y \in nodes : <<x, y>> \notin R
    <3> HIDE DEF R
    <3> QED
      BY <1>1, <2>1, LastOne, FiniteNodes
  <2>3. PICK x \in nodes : \A y \in nodes : <<x, y>> \notin R
    BY <2>2
  <2>4. {m \in nodes : Before(s, m, x)} = {}
    BY <2>3
  <2>5. Cardinality({m \in nodes : Before(s, m, x)}) < max
    BY <2>4, FS_EmptySet
  <2> QED
    BY <1>1, <2>5 DEF FirstOf
<1> QED
  BY <1>1 DEF FirstOf

LEMMA WithoutStyleOfSome ==
    ASSUME NEW sel, NEW nodes \in SUBSET Nodes
    PROVE  /\ WithoutStyle(sel, nodes) \subseteq nodes
           /\ nodes # {} => WithoutStyle(sel, nodes) # {}
           /\ sel.kind # "type" => WithoutStyle(sel, nodes) = nodes
<1>1. \A S : S = {} => Cardinality(S) # 1
  BY FS_EmptySet
<1> QED
  BY <1>1 DEF WithoutStyle

LEMMA OutermostOfSome ==
    ASSUME NEW nodes
    PROVE  /\ Outermost(nodes) \subseteq nodes
           /\ nodes # {} => Outermost(nodes) # {}
BY DEF Outermost

LEMMA MatchesAreNodes ==
    ASSUME NEW s, s.live \subseteq Nodes, NEW sel, NEW hidden
    PROVE  CollectMatches(s, sel, hidden) \subseteq s.live /\ CollectMatches(s, sel, hidden) \subseteq Nodes
BY DEF CollectMatches

LEMMA QueryOfSome ==
    ASSUME NEW s \in Scenes, NEW sel, NEW hidden, NEW max \in Nat \ {0}
    PROVE  LET all   == CollectMatches(s, sel, hidden)
               found == Query(s, sel, hidden, max)
           IN  /\ found \subseteq all
               /\ all # {} => found # {}
               /\ \A n : all = {n} => found = {n}
<1> DEFINE all   == CollectMatches(s, sel, hidden)
           first == FirstOf(s, all, max)
           plain == WithoutStyle(sel, first)
           found == Outermost(plain)
<1>1. s.place \in [Nodes -> Nat] /\ all \in SUBSET Nodes
  BY MatchesAreNodes DEF Scenes
<1>2. first \subseteq all /\ (all # {} => first # {})
  <2> HIDE DEF all
  <2> QED
    BY <1>1, FirstOfSome
<1>3. plain \subseteq first /\ (first # {} => plain # {})
  <2> HIDE DEF first, all
  <2> QED
    BY <1>1, <1>2, WithoutStyleOfSome
<1>4. found \subseteq plain /\ (plain # {} => found # {})
  <2> HIDE DEF plain
  <2> QED
    BY OutermostOfSome
<1>5. Query(s, sel, hidden, max) = found
  BY DEF Query
<1> HIDE DEF all, first, plain, found
<1>6. found \subseteq all /\ (all # {} => found # {})
  BY <1>2, <1>3, <1>4
<1> QED
  BY <1>5, <1>6 DEF all

(* A query for a name, with room for all nodes, gives the matches or their *)
(* outermost one.                                                          *)
LEMMA QueryOfName ==
    ASSUME NEW s \in Scenes, NEW sel, sel.kind # "type", NEW hidden, NEW x,
           Query(s, sel, hidden, Cardinality(Nodes)) = {x},
           NEW n \in CollectMatches(s, sel, hidden)
    PROVE  x = n \/ x \in Above[n] \cap CollectMatches(s, sel, hidden)
<1> DEFINE all == CollectMatches(s, sel, hidden)
<1>1. all \in SUBSET Nodes /\ s.place \in [Nodes -> Nat]
  BY MatchesAreNodes DEF Scenes
<1>2. Cardinality(all) <= Cardinality(Nodes)
  <2> HIDE DEF all
  <2> QED
    BY <1>1, FiniteNodes
<1>3. FirstOf(s, all, Cardinality(Nodes)) = all
  BY <1>2 DEF FirstOf
<1>4. WithoutStyle(sel, all) = all
  BY DEF WithoutStyle
<1>5. Outermost(all) = {x}
  BY <1>3, <1>4 DEF Query
<1> HIDE DEF all
<1>6. n \in all
  BY DEF all
<1>7. x \in all
  BY <1>5, OutermostOfSome
<1>8. x = n \/ x \in Above[n]
  BY <1>5, <1>6 DEF Outermost
<1> QED
  BY <1>7, <1>8 DEF all

-----------------------------------------------------------------------------
(* Node ids.                                                               *)

AllNumbered(s) == \A n \in s.live : s.number[n] # 0

LEMMA LargestIsLargest ==
    ASSUME NEW s, s.number \in [Nodes -> Nat], Nodes # {}
    PROVE  Largest(s) \in Nat /\ \A n \in Nodes : s.number[n] <= Largest(s)
<1> DEFINE R == {e \in Nodes \X Nodes : s.number[e[1]] < s.number[e[2]]}
<1>1. /\ \A x \in Nodes : <<x, x>> \notin R
      /\ \A x, y, z \in Nodes : <<x, y>> \in R /\ <<y, z>> \in R => <<x, z>> \in R
  OBVIOUS
<1>2. \E x \in Nodes : \A y \in Nodes : <<x, y>> \notin R
  <2> HIDE DEF R
  <2> QED
    BY <1>1, LastOne, NodesAssumption
<1>3. PICK x \in Nodes : \A y \in Nodes : <<x, y>> \notin R
  BY <1>2
<1>4. ASSUME NEW y \in Nodes PROVE s.number[y] <= s.number[x]
  <2>1. s.number[x] \in Nat /\ s.number[y] \in Nat
    OBVIOUS
  <2>2. ~(s.number[x] < s.number[y])
    BY <1>3
  <2> QED
    BY <2>1, <2>2
<1>5. \E k \in {s.number[n] : n \in Nodes} : \A n \in Nodes : s.number[n] <= k
  BY <1>4
<1> QED
  BY <1>5 DEF Largest

(* A walk of the tree gives every object that lives an id of its own; the  *)
(* others keep the ones they have.                                         *)
LEMMA NumberedFacts ==
    ASSUME NEW s \in Scenes, NEW t \in Numbered(s)
    PROVE  /\ t \in Scenes /\ AllNumbered(t)
           /\ t.live = s.live /\ t.shown = s.shown /\ t.value = s.value
<1> DEFINE new == Unnumbered(s)
           ids == (Largest(s) + 1) .. (Largest(s) + Cardinality(new))
<1>1. PICK f \in [new -> ids] :
         /\ \A m, n \in new : f[m] = f[n] => m = n
         /\ t = [s EXCEPT !.number = [n \in Nodes |-> IF n \in new THEN f[n] ELSE s.number[n]]]
  BY DEF Numbered
<1> DEFINE number == [n \in Nodes |-> IF n \in new THEN f[n] ELSE s.number[n]]
<1>2. /\ s \in [live : SUBSET Nodes, shown : SUBSET Nodes, place : [Nodes -> Nat],
                order : Orders, number : [Nodes -> Nat], value : [Valued -> Values]]
      /\ \A n \in s.live : Above[n] \subseteq s.live
      /\ \A m, n \in Nodes : s.number[m] = s.number[n] => m = n \/ s.number[n] = 0
  BY DEF Scenes
<1>3. new \subseteq Nodes /\ \A n \in s.live : n \in new \/ s.number[n] # 0
  BY <1>2 DEF Unnumbered
<1>4. \A n \in new : f[n] \in Nat /\ f[n] # 0 /\ \A m \in Nodes : s.number[m] < f[n]
  <2> SUFFICES ASSUME NEW n \in new
               PROVE  f[n] \in Nat /\ f[n] # 0 /\ \A m \in Nodes : s.number[m] < f[n]
    OBVIOUS
  <2>1. Cardinality(new) \in Nat
    <3> HIDE DEF new
    <3> QED
      BY <1>3, FiniteNodes
  <2>2. Largest(s) \in Nat /\ \A m \in Nodes : s.number[m] <= Largest(s)
    BY <1>2, <1>3, LargestIsLargest
  <2>3. f[n] \in ids
    BY <1>1
  <2> HIDE DEF new
  <2> QED
    BY <1>2, <2>1, <2>2, <2>3
<1> HIDE DEF new, ids
<1>5. number \in [Nodes -> Nat]
  BY <1>2, <1>4
<1>6. \A m, n \in Nodes : number[m] = number[n] => m = n \/ number[n] = 0
  BY <1>1, <1>2, <1>4
<1>7. \A n \in s.live : number[n] # 0
  BY <1>2, <1>3, <1>4
<1> HIDE DEF number
<1>8. t = [s EXCEPT !.number = number]
  BY <1>1 DEF number
<1> QED
  BY <1>2, <1>5, <1>6, <1>7, <1>8 DEF Scenes, AllNumbered

(* Of the instances of a source line no two have the same ordinal.         *)
LEMMA OrdinalsDiffer ==
    ASSUME NEW s \in Scenes, NEW m \in s.live \cap Items, NEW n \in s.live \cap Items, m # n,
           s.number[m] # 0, s.number[n] # 0,
           Object[m].sourceLocation = Object[n].sourceLocation
    PROVE  SourceOrdinal(s, m) # SourceOrdinal(s, n)
<1> DEFINE l == Object[n].sourceLocation
           Older(k) == {j \in SourceGroup(s, l) : NumberedBefore(s, j, k)}
<1>1. /\ s.live \subseteq Nodes /\ s.number \in [Nodes -> Nat]
      /\ \A j, k \in Nodes : s.number[j] = s.number[k] => j = k \/ s.number[k] = 0
  BY DEF Scenes
<1>2. SourceGroup(s, l) \subseteq Nodes /\ m \in SourceGroup(s, l) /\ n \in SourceGroup(s, l)
  BY <1>1 DEF SourceGroup, Counted
<1>3. ASSUME NEW j \in SourceGroup(s, l), NEW k \in SourceGroup(s, l),
             s.number[j] # 0, s.number[k] # 0, s.number[j] < s.number[k]
      PROVE  Cardinality(Older(j)) < Cardinality(Older(k))
  <2>1. j \in Nodes /\ k \in Nodes /\ s.number[j] \in Nat /\ s.number[k] \in Nat
    BY <1>1, <1>2
  <2>2. \A i \in SourceGroup(s, l) : i \in Nodes /\ s.number[i] \in Nat
    BY <1>1, <1>2
  <2>3. Older(j) \subseteq Older(k)
    BY <1>3, <2>1, <2>2 DEF NumberedBefore
  <2>4. j \in Older(k) /\ j \notin Older(j)
    BY <1>3, <2>1 DEF NumberedBefore
  <2>5. Older(k) \in SUBSET Nodes
    BY <1>2
  <2>6. IsFiniteSet(Older(k)) /\ Older(j) # Older(k)
    <3> HIDE DEF Older
    <3> QED
      BY <2>4, <2>5, FiniteNodes
  <2> HIDE DEF Older
  <2> QED
    BY <2>3, <2>6, FS_Subset, FS_CardinalityType
<1>4. SourceOrdinal(s, m) = Cardinality(Older(m)) /\ SourceOrdinal(s, n) = Cardinality(Older(n))
  BY DEF SourceOrdinal
<1>5. /\ s.number[m] \in Nat /\ s.number[n] \in Nat
      /\ s.number[m] < s.number[n] \/ s.number[n] < s.number[m]
  BY <1>1
<1>6. \A k \in {m, n} : Cardinality(Older(k)) \in Nat
  <2>1. \A k \in {m, n} : Older(k) \in SUBSET Nodes
    BY <1>2
  <2> HIDE DEF Older
  <2> QED
    BY <2>1, FiniteNodes
<1> HIDE DEF Older, l
<1> QED
  BY <1>2, <1>3, <1>4, <1>5, <1>6

-----------------------------------------------------------------------------
(* Claims.                                                                 *)

(* What of a selector only depends on what the author wrote and where the  *)
(* models have their delegates.                                            *)
Fits(o, n, sel) ==
    /\ IF sel.kind = "nodeId" THEN n = sel.value ELSE Object[n][sel.kind] = sel.value
    /\ sel.index # Nothing => Delegate[o][n].index = sel.index
    /\ sel.cell # Nothing => Delegate[o][n].cell = sel.cell

Kinds == {"nodeId", "id", "objectName", "sourceLocation"}

LEMMA MatchesFit ==
    ASSUME NEW s, NEW n, NEW sel, sel.kind \in Kinds
    PROVE  NodeMatchesSelector(s, n, sel) <=>
              Fits(s.order, n, sel) /\ (sel.instance # Nothing => SourceInstance(s, n) = sel.instance)
<1>1. sel.kind # "type"
  BY DEF Kinds
<1> QED
  BY <1>1 DEF NodeMatchesSelector, Fits

(* The selectors that the agent offers can be parsed, are of these kinds,  *)
(* and only a source line has instances.                                   *)
Parsed(sel) ==
    /\ WellFormed(sel) /\ sel.kind \in Kinds
    /\ sel.instance # Nothing => sel.kind = "sourceLocation"

(* What makes a selector one of a node.                                    *)
Describes(o, n, sel) == Parsed(sel) /\ Fits(o, n, sel)

(* The instance is that of the node.                                       *)
Instance(s, n, sel) ==
    sel.instance # Nothing =>
        /\ n \in Items /\ sel.value = Object[n].sourceLocation
        /\ Repeats(s, n) /\ sel.instance = SourceOrdinal(s, n)

LEMMA PlainFields ==
    ASSUME NEW k, NEW v
    PROVE  /\ Plain(k, v).kind = k /\ Plain(k, v).value = v /\ Plain(k, v).index = Nothing
           /\ Plain(k, v).cell = Nothing /\ Plain(k, v).instance = Nothing
           /\ \A c : /\ Within(Plain(k, v), c).kind = k /\ Within(Plain(k, v), c).value = v
                     /\ Within(Plain(k, v), c).index = c.index
                     /\ Within(Plain(k, v), c).cell = c.cell
                     /\ Within(Plain(k, v), c).instance = Nothing
           /\ \A i : LET sel == [Plain(k, v) EXCEPT !.instance = i]
                     IN  /\ sel.kind = k /\ sel.value = v /\ sel.index = Nothing
                         /\ sel.cell = Nothing /\ sel.instance = i
BY DEF Plain, Within

(* The matches of a selector that describes only this node.                *)
LEMMA OnlyMatch ==
    ASSUME NEW s \in Scenes, NEW n \in s.live, NEW sel, sel.kind \in Kinds,
           NodeMatchesSelector(s, n, sel),
           \A m \in s.live : NodeMatchesSelector(s, m, sel) => m = n
    PROVE  CollectMatches(s, sel, TRUE) = {n}
BY DEF CollectMatches

LEMMA NodeIdClaims ==
    ASSUME NEW s \in Scenes, NEW n \in s.live, NEW sel, sel = Plain("nodeId", n)
    PROVE  Describes(s.order, n, sel) /\ Instance(s, n, sel) /\ CollectMatches(s, sel, TRUE) = {n}
<1>1. n # Nothing
  BY NodesAssumption DEF Scenes
<1>2. sel.kind \in Kinds
  BY PlainFields DEF Kinds
<1>3. \A m : NodeMatchesSelector(s, m, sel) <=> m = n
  BY <1>2, PlainFields, MatchesFit DEF Fits
<1>4. Describes(s.order, n, sel) /\ Instance(s, n, sel)
  BY <1>1, <1>2, PlainFields DEF Describes, Parsed, Instance, WellFormed, Fits
<1> QED
  BY <1>2, <1>3, <1>4, OnlyMatch

(* An id or an objectName that occurs once.                                *)
LEMMA NameClaims ==
    ASSUME NEW s \in Scenes, NEW n \in s.live, NEW d, NEW sel \in Names(s, n, d)
    PROVE  Describes(s.order, n, sel) /\ Instance(s, n, sel) /\ CollectMatches(s, sel, TRUE) = {n}
<1>1. PICK k \in {"id", "objectName"} : sel = Plain(k, Object[n][k]) /\ Object[n][k] # Nothing
  BY DEF Names
<1>2. /\ sel.kind = k /\ sel.value = Object[n][k] /\ sel.index = Nothing /\ sel.cell = Nothing
      /\ sel.instance = Nothing /\ k \in Kinds /\ k # "nodeId"
  BY <1>1, PlainFields DEF Kinds
<1>3. \A m : NodeMatchesSelector(s, m, sel) <=> Object[m][k] = Object[n][k]
  BY <1>2, MatchesFit DEF Fits
<1> DEFINE same == {m \in s.live : Object[m][k] = Object[n][k]}
<1>4. Cardinality(same) <= 1
  BY <1>2 DEF Names, IsUnique, Counted
<1>5. same \in SUBSET Nodes /\ n \in same
  BY DEF Scenes
<1>6. same = {n}
  <2> HIDE DEF same
  <2> QED
    BY <1>4, <1>5, FiniteNodes, OneElement
<1>7. \A m \in s.live : NodeMatchesSelector(s, m, sel) => m = n
  BY <1>3, <1>6
<1>8. Describes(s.order, n, sel) /\ Instance(s, n, sel)
  BY <1>1, <1>2 DEF Describes, Parsed, Instance, WellFormed, Fits
<1> QED
  BY <1>2, <1>3, <1>7, <1>8, OnlyMatch

(* A source line, with an ordinal where it repeats.                        *)
LEMMA SourceClaimsAreTrue ==
    ASSUME WindowLines, NEW s \in Scenes, AllNumbered(s), NEW n \in s.live, NEW located,
           NEW sel \in SourceClaims(s, n, located)
    PROVE  Describes(s.order, n, sel) /\ Instance(s, n, sel) /\ CollectMatches(s, sel, TRUE) = {n}
<1> DEFINE line == Object[n].sourceLocation
<1>1. Authored(located, n) \subseteq SourceOf[n]
  BY DEF Authored
<1>2. s.live \subseteq Nodes /\ n \in Nodes
  BY DEF Scenes
<1>3. /\ line # Nothing /\ SourceOf[n] = {Plain("sourceLocation", line)}
      /\ sel = IF Repeats(s, n)
               THEN [Plain("sourceLocation", line) EXCEPT !.instance = SourceOrdinal(s, n)]
               ELSE Plain("sourceLocation", line)
  BY <1>1, <1>2, PlainFields DEF SourceOf, SourceClaims
<1>4. /\ sel.kind = "sourceLocation" /\ sel.value = line /\ sel.index = Nothing /\ sel.cell = Nothing
      /\ sel.instance = IF Repeats(s, n) THEN SourceOrdinal(s, n) ELSE Nothing
  BY <1>3, PlainFields
<1>5. SourceOrdinal(s, n) \in Nat
  <2>1. {m \in SourceGroup(s, line) : NumberedBefore(s, m, n)} \in SUBSET Nodes
    BY <1>2 DEF SourceGroup, Counted
  <2> QED
    BY <2>1, FiniteNodes DEF SourceOrdinal
<1>6. Object[n]["sourceLocation"] = line /\ "sourceLocation" \in Kinds
  BY DEF Kinds
<1>7. Describes(s.order, n, sel) /\ Instance(s, n, sel)
  BY <1>3, <1>4, <1>6 DEF Describes, Parsed, Instance, WellFormed, Fits, Repeats
<1>8. \A m \in s.live : NodeMatchesSelector(s, m, sel) =>
         Object[m].sourceLocation = line /\ (Repeats(s, n) => SourceInstance(s, m) = sel.instance)
  BY <1>4, <1>5, <1>6, MatchesFit, NodesAssumption DEF Fits
<1>9. ASSUME NEW m \in s.live, NodeMatchesSelector(s, m, sel) PROVE m = n
  <2>1. Object[m].sourceLocation = line /\ SourceOf[m] = SourceOf[n] /\ m \in Nodes
    BY <1>2, <1>8, <1>9 DEF SourceOf
  <2>2. CASE m \in Windows \/ n \in Windows
    BY <1>2, <1>3, <2>1, <2>2 DEF WindowLines
  <2>3. CASE m \in Items /\ n \in Items /\ Repeats(s, n)
    <3>1. SourceInstance(s, m) = SourceOrdinal(s, n)
      BY <1>4, <1>8, <1>9, <2>3
    <3>2. SourceOrdinal(s, m) = SourceOrdinal(s, n)
      BY <1>5, <3>1, NodesAssumption DEF SourceInstance
    <3> QED
      BY <2>1, <2>3, <3>2, OrdinalsDiffer DEF AllNumbered
  <2>4. CASE m \in Items /\ n \in Items /\ ~Repeats(s, n)
    <3>1. ~(Cardinality(SourceGroup(s, line)) > 1)
      BY <2>4 DEF Repeats
    <3>2. SourceGroup(s, line) \in SUBSET Nodes /\ n \in SourceGroup(s, line) /\ m \in SourceGroup(s, line)
      BY <1>2, <2>1, <2>4 DEF SourceGroup, Counted
    <3>3. Cardinality(SourceGroup(s, line)) <= 1
      BY <3>1, <3>2, FiniteNodes
    <3>4. SourceGroup(s, line) = {n}
      BY <3>2, <3>3, FiniteNodes, OneElement
    <3> QED
      BY <3>2, <3>4
  <2> QED
    BY <1>2, <2>1, <2>2, <2>3, <2>4 DEF Nodes
<1>10. NodeMatchesSelector(s, n, sel)
  BY <1>4, <1>5, <1>6, <1>7, MatchesFit, NodesAssumption DEF SourceInstance, Instance, Describes, Parsed
<1> QED
  BY <1>4, <1>6, <1>7, <1>9, <1>10, OnlyMatch

(* A place that a node is annotated with is the place of its delegate, and *)
(* the one the count of composites has for it.                             *)
LEMMA PlaceOfNode ==
    ASSUME NEW o \in Orders, NotNested(o),
           NEW n \in Nodes, NEW d \in Annotations[o][n] \cup {Delegate[o][n], NoContext}, HasPlace(d)
    PROVE  /\ n \in Items /\ d \in Places(o) /\ SamePlace(d, Delegate[o][n]) /\ Delegate[o][n].is
           /\ Context[o][n].is /\ SamePlace(d, Context[o][n])
<1>1. ~HasPlace(NoContext)
  BY DEF NoContext, HasPlace
<1>2. n \in Items /\ d \in Places(o)
  BY <1>1, AnnotationsArePlaces DEF Nodes
<1>3. SamePlace(d, Delegate[o][n])
  BY <1>1, <1>2 DEF NotNested, HasPlace, SamePlace
<1>4. Delegate[o][n] \in Places(o) /\ HasPlace(Delegate[o][n])
  BY <1>3, DelegateIsPlace DEF HasPlace, SamePlace
<1>5. SamePlace(Delegate[o][n], Context[o][n])
  BY <1>2, <1>4, OnePlace DEF NotNested
<1>6. HasPlace(Context[o][n]) /\ Context[o][n] \in Places(o)
  BY <1>4, <1>5, ContextIsPlace DEF HasPlace, SamePlace
<1> QED
  BY <1>2, <1>3, <1>4, <1>5, <1>6, OnePlace DEF SamePlace

(* A node that a composite fits, in the place of a node, is in that place. *)
LEMMA FitsInPlace ==
    ASSUME NEW o \in Orders, NotNested(o),
           NEW n \in Nodes, NEW d \in Annotations[o][n] \cup {Delegate[o][n], NoContext}, HasPlace(d),
           NEW m \in Nodes, NEW k, NEW v, Fits(o, m, Within(Plain(k, v), d))
    PROVE  /\ SamePlace(Delegate[o][m], Delegate[o][n]) /\ Delegate[o][m].is /\ m \in Items
           /\ Context[o][m].is /\ Within(Plain(k, v), d) = Within(Plain(k, v), Context[o][m])
<1>1. d \in Places(o) /\ SamePlace(d, Delegate[o][n])
  BY PlaceOfNode
<1>2. d.index # Nothing => Delegate[o][m].index = d.index
  BY PlainFields DEF Fits
<1>3. d.cell # Nothing => Delegate[o][m].cell = d.cell
  BY PlainFields DEF Fits
<1>4. Delegate[o][m] \in Places(o)
  BY DelegateIsPlace
<1>5. HasPlace(Delegate[o][m])
  BY <1>2, <1>3 DEF HasPlace
<1>6. SamePlace(Delegate[o][m], d)
  BY <1>1, <1>2, <1>3, <1>4, OnePlace DEF SamePlace, HasPlace
<1>7. m \in Items /\ Delegate[o][m].is /\ Context[o][m].is /\ SamePlace(Delegate[o][m], Context[o][m])
  BY <1>5, PlaceOfNode
<1> QED
  BY <1>1, <1>6, <1>7 DEF SamePlace, Within

(* A composite of the id or the source line with a place, that of the      *)
(* delegate or another.                                                    *)
LEMMA CompositeDescribes ==
    ASSUME NEW o \in Orders, NEW n \in Nodes, NEW d \in Places(o), NEW p \in StableId[n] \cup SourceOf[n]
    PROVE  /\ Parsed(Within(p, d)) /\ Within(p, d).instance = Nothing
           /\ SamePlace(d, Delegate[o][n]) => Describes(o, n, Within(p, d))
           /\ \E k \in {"id", "objectName", "sourceLocation"} :
                 p = Plain(k, Object[n][k]) /\ Object[n][k] # Nothing
<1>1. PICK k \in {"id", "objectName", "sourceLocation"} :
         p = Plain(k, Object[n][k]) /\ Object[n][k] # Nothing
  <2>1. CASE p \in SourceOf[n]
    <3>1. p = Plain("sourceLocation", Object[n].sourceLocation) /\ p # Plain("sourceLocation", Nothing)
      BY <2>1 DEF SourceOf
    <3> QED
      BY <3>1
  <2>2. CASE p \in StableId[n]
    <3>1. \/ p = Plain("id", Object[n].id) /\ Object[n].id # Nothing
          \/ p = Plain("objectName", Object[n].objectName) /\ p # Plain("objectName", Nothing)
      BY <2>2 DEF StableId
    <3> QED
      BY <3>1
  <2> QED
    BY <2>1, <2>2
<1> DEFINE sel == Within(p, d)
<1>2. /\ sel.kind = k /\ sel.value = Object[n][k] /\ sel.index = d.index /\ sel.cell = d.cell
      /\ sel.instance = Nothing
  BY <1>1, PlainFields
<1>3. k \in Kinds /\ k # "nodeId"
  BY DEF Kinds
<1> HIDE DEF sel
<1>4. Parsed(sel)
  BY <1>1, <1>2, <1>3, OnePlace DEF Parsed, WellFormed
<1>5. SamePlace(d, Delegate[o][n]) => Fits(o, n, sel)
  BY <1>1, <1>2, <1>3 DEF Fits, SamePlace
<1> QED
  BY <1>1, <1>2, <1>4, <1>5 DEF sel, Describes

LEMMA DelegateClaimsAreTrue ==
    ASSUME NEW s \in Scenes, NotNested(s.order), NamedAlike(s.order), NEW n \in s.live,
           NEW d \in Annotations[s.order][n] \cup {Delegate[s.order][n], NoContext}, NEW located,
           NEW sel \in DelegateClaims(s, n, d, located)
    PROVE  CollectMatches(s, sel, TRUE) = {n}
<1>1. PICK p \in StableId[n] \cup SourceOf[n] :
         sel = Within(p, d) /\ DelegateCompositeIsUnique(s, sel) /\ HasPlace(d)
  BY DEF DelegateClaims, Authored, HasPlace
<1>2. s.live \subseteq Nodes /\ n \in Nodes /\ s.order \in Orders
  BY DEF Scenes
<1>3. Describes(s.order, n, sel) /\ sel.instance = Nothing
  BY <1>1, <1>2, CompositeDescribes, PlaceOfNode
<1>4. PICK k \in {"id", "objectName", "sourceLocation"} :
         p = Plain(k, Object[n][k]) /\ Object[n][k] # Nothing
  BY <1>1, <1>2, CompositeDescribes, PlaceOfNode
<1> DEFINE same == {i \in Counted(s) \cap Items : sel \in Composites[s.order][i]}
<1>5. n \in Items /\ Context[s.order][n].is /\ sel = Within(p, Context[s.order][n])
  BY <1>1, <1>2, PlaceOfNode DEF SamePlace, Within
<1>6. n \in same
  BY <1>1, <1>2, <1>5 DEF Composites, Counted
<1>7. same \in SUBSET Nodes /\ Cardinality(same) <= 1
  BY <1>1, <1>2 DEF DelegateCompositeIsUnique, Counted
<1>8. same = {n}
  <2> HIDE DEF same
  <2> QED
    BY <1>6, <1>7, FiniteNodes, OneElement
<1>9. ASSUME NEW m \in s.live, NodeMatchesSelector(s, m, sel) PROVE m = n
  <2>1. Fits(s.order, m, sel) /\ m \in Nodes
    BY <1>2, <1>3, <1>9, MatchesFit DEF Describes, Parsed
  <2>2. Object[m][k] = Object[n][k]
    <3>1. sel.kind = k /\ sel.value = Object[n][k] /\ k # "nodeId"
      BY <1>1, <1>4, PlainFields
    <3> QED
      BY <2>1, <3>1 DEF Fits
  <2>3. /\ SamePlace(Delegate[s.order][m], Delegate[s.order][n]) /\ m \in Items /\ Context[s.order][m].is
        /\ sel = Within(p, Context[s.order][m])
    <3>1. /\ SamePlace(Delegate[s.order][m], Delegate[s.order][n]) /\ m \in Items /\ Context[s.order][m].is
          /\ Within(Plain(k, Object[n][k]), d) = Within(Plain(k, Object[n][k]), Context[s.order][m])
      BY <1>1, <1>2, <1>4, <2>1, FitsInPlace
    <3> QED
      BY <1>1, <1>4, <3>1
  <2>4. p \in StableId[m] \cup SourceOf[m]
    <3>1. CASE k = "sourceLocation"
      <4>1. p = Plain("sourceLocation", Object[m].sourceLocation) /\ Object[m].sourceLocation # Nothing
        BY <1>4, <2>2, <3>1
      <4> QED
        BY <2>1, <4>1, PlainFields DEF SourceOf
    <3>2. CASE k = "id"
      <4>1. p = Plain("id", Object[m].id) /\ Object[m].id # Nothing
        BY <1>4, <2>2, <3>2
      <4> QED
        BY <2>1, <4>1 DEF StableId
    <3>3. CASE k = "objectName"
      <4>1. /\ p = Plain("objectName", Object[m].objectName) /\ Object[m].objectName # Nothing
            /\ Object[m].objectName = Object[n].objectName
        BY <1>4, <2>2, <3>3
      <4>2. p # Plain("objectName", Nothing) /\ p.kind = "objectName"
        BY <4>1, PlainFields
      <4>3. p \in StableId[n]
        BY <1>2, <4>2, PlainFields DEF SourceOf
      <4>4. Object[n].id = Nothing
        BY <1>2, <4>2, <4>3, PlainFields DEF StableId
      <4>5. Delegate[s.order][n].is
        BY <1>1, <1>2, PlaceOfNode
      <4>6. Object[m].id = Nothing
        BY <1>5, <2>3, <4>1, <4>4, <4>5 DEF NamedAlike
      <4> QED
        BY <2>1, <4>1, <4>2, <4>6 DEF StableId
    <3> QED
      BY <3>1, <3>2, <3>3
  <2>5. m \in same
    <3>1. sel \in Composites[s.order][m]
      BY <1>2, <2>3, <2>4 DEF Composites
    <3> QED
      BY <1>9, <2>3, <3>1 DEF Counted
  <2> QED
    BY <1>8, <2>5
<1>10. NodeMatchesSelector(s, n, sel)
  BY <1>3, MatchesFit DEF Describes, Parsed
<1> QED
  BY <1>3, <1>9, <1>10, OnlyMatch DEF Describes, Parsed

(* What is claimed of a node can be parsed.                                *)
LEMMA ClaimsParse ==
    ASSUME NEW s \in Scenes, NEW n \in s.live,
           NEW d \in Annotations[s.order][n] \cup {Delegate[s.order][n], NoContext}, NEW located,
           NEW sel \in Claims(s, n, d, located)
    PROVE  Parsed(sel)
<1>1. n \in Nodes /\ s.order \in Orders /\ d \in Places(s.order)
  BY AnnotationsArePlaces DEF Scenes
<1>2. CASE sel = Plain("nodeId", n)
  BY <1>2, NodeIdClaims DEF Describes
<1>3. CASE sel \in Names(s, n, d)
  BY <1>3, NameClaims DEF Describes
<1>4. CASE sel \in SourceClaims(s, n, located)
  <2>1. PICK p \in SourceOf[n] :
           sel = IF Repeats(s, n) THEN [p EXCEPT !.instance = SourceOrdinal(s, n)] ELSE p
    BY <1>4 DEF SourceClaims, Authored
  <2> DEFINE line == Object[n].sourceLocation
  <2>2. p = Plain("sourceLocation", line) /\ line # Nothing
    BY <1>1 DEF SourceOf
  <2>3. sel.kind = "sourceLocation" /\ sel.value = line /\ sel.index = Nothing
    BY <2>1, <2>2, PlainFields
  <2> QED
    BY <2>2, <2>3 DEF Parsed, WellFormed, Kinds
<1>5. CASE sel \in DelegateClaims(s, n, d, located)
  <2>1. PICK p \in StableId[n] \cup SourceOf[n] : sel = Within(p, d)
    BY <1>5 DEF DelegateClaims, Authored
  <2> QED
    BY <1>1, <2>1, CompositeDescribes
<1> QED
  BY <1>2, <1>3, <1>4, <1>5 DEF Claims

(* And it is true, unless the count of selectors has missed something.     *)
LEMMA ClaimsAreTrue ==
    ASSUME Unmistakable, NEW s \in Scenes, AllNumbered(s), NEW n \in s.live,
           NEW d \in Annotations[s.order][n] \cup {Delegate[s.order][n], NoContext}, NEW located,
           NEW sel \in Claims(s, n, d, located)
    PROVE  Describes(s.order, n, sel) /\ Instance(s, n, sel) /\ CollectMatches(s, sel, TRUE) = {n}
<1>1. NotNested(s.order) /\ NamedAlike(s.order) /\ WindowLines
  BY DEF Unmistakable, Scenes
<1>2. CASE sel = Plain("nodeId", n)
  BY <1>2, NodeIdClaims
<1>3. CASE sel \in Names(s, n, d)
  BY <1>3, NameClaims
<1>4. CASE sel \in SourceClaims(s, n, located)
  BY <1>1, <1>4, SourceClaimsAreTrue
<1>5. CASE sel \in DelegateClaims(s, n, d, located)
  <2>1. n \in Nodes /\ s.order \in Orders
    BY DEF Scenes
  <2>2. PICK p \in StableId[n] \cup SourceOf[n] : sel = Within(p, d) /\ HasPlace(d)
    BY <1>5 DEF DelegateClaims, Authored, HasPlace
  <2>3. Describes(s.order, n, sel) /\ sel.instance = Nothing
    BY <1>1, <2>1, <2>2, CompositeDescribes, PlaceOfNode
  <2> QED
    BY <1>1, <1>5, <2>3, DelegateClaimsAreTrue DEF Instance
<1> QED
  BY <1>2, <1>3, <1>4, <1>5 DEF Claims

(* What is suggested with an ambiguous answer is verified.                 *)
LEMMA SuggestedAreTrue ==
    ASSUME NEW s \in Scenes, NEW hidden, NEW ask, NEW nodes \in SUBSET CollectMatches(s, ask, hidden),
           NEW a \in Suggested(s, nodes, hidden)
    PROVE  /\ a.node \in s.live /\ Describes(s.order, a.node, a.selector) /\ a.selector.instance = Nothing
           /\ CollectMatches(s, a.selector, hidden) = {a.node}
<1>1. PICK n \in nodes : \E p \in StableId[n] :
         /\ a = [selector |-> Within(p, Delegate[s.order][n]), node |-> n] /\ HasPlace(Delegate[s.order][n])
         /\ Cardinality(CollectMatches(s, a.selector, hidden)) = 1
  BY DEF Suggested, HasPlace
<1>2. PICK p \in StableId[n] :
         /\ a = [selector |-> Within(p, Delegate[s.order][n]), node |-> n] /\ HasPlace(Delegate[s.order][n])
         /\ Cardinality(CollectMatches(s, a.selector, hidden)) = 1
  BY <1>1
<1>3. /\ n \in s.live /\ n \in Nodes /\ (hidden \/ n \in Windows \/ Visible(s, n))
      /\ s.order \in Orders
  BY DEF CollectMatches, Scenes
<1> DEFINE sel == Within(p, Delegate[s.order][n])
<1>4. Describes(s.order, n, sel) /\ sel.instance = Nothing
  BY <1>2, <1>3, CompositeDescribes, DelegateIsPlace DEF SamePlace
<1> HIDE DEF sel
<1>5. n \in CollectMatches(s, sel, hidden)
  BY <1>3, <1>4, MatchesFit DEF CollectMatches, Describes, Parsed
<1>6. a.node = n /\ a.selector = sel /\ Cardinality(CollectMatches(s, sel, hidden)) = 1
  BY <1>2 DEF sel
<1>7. CollectMatches(s, sel, hidden) \in SUBSET Nodes
  BY MatchesAreNodes DEF Scenes
<1>8. CollectMatches(s, sel, hidden) = {n}
  BY <1>5, <1>6, <1>7, FiniteNodes, OneElement
<1> QED
  BY <1>3, <1>4, <1>6, <1>8

(* What a node is found by alone fits nothing that the node is in.         *)
LEMMA NoneAboveFits ==
    ASSUME NEW s \in Scenes, NEW hidden, NEW sel, NEW n,
           CollectMatches(s, sel, hidden) = {n}, sel.kind \in Kinds, sel.instance = Nothing
    PROVE  \A m \in Above[n] : ~Fits(s.order, m, sel)
<1>1. n \in s.live /\ n \in Nodes /\ (hidden \/ n \in Windows \/ Visible(s, n))
  BY DEF CollectMatches, Scenes
<1>2. ASSUME NEW m \in Above[n], Fits(s.order, m, sel) PROVE FALSE
  <2>1. m \in s.live /\ m \in Nodes /\ n \notin Windows
    BY <1>1, AboveFacts DEF Scenes
  <2>2. Visible(s, n) => Visible(s, m)
    BY <1>1, AboveFacts DEF Visible
  <2>3. m \in CollectMatches(s, sel, hidden)
    BY <1>1, <1>2, <2>1, <2>2, MatchesFit DEF CollectMatches
  <2> QED
    BY <1>1, <2>3, AboveFacts
<1> QED
  BY <1>2

-----------------------------------------------------------------------------
(* Waiting.                                                                *)
LEMMA CompareIsBoolean ==
    ASSUME NEW v \in Values, NEW c \in Conditions, c.op # Nothing, Comparable(v, c.op)
    PROVE  Compare(v, c.op, c.value) \in BOOLEAN
<1>1. c.op \in {"=", "!=", ">"}
  BY ConditionsAssumption DEF Operators
<1>2. CASE c.op = "="
  BY <1>2 DEF Compare
<1>3. CASE c.op = "!="
  BY <1>3 DEF Compare
<1>4. CASE c.op = ">"
  <2>1. v \in {0, 1} /\ c.value \in {0, 1}
    BY <1>4, ConditionsAssumption DEF Comparable, Values
  <2> QED
    BY <1>4, <2>1 DEF Compare
<1> QED
  BY <1>1, <1>2, <1>3, <1>4

LEMMA TargetsOfSome ==
    ASSUME NEW s \in Scenes, NEW c \in Conditions
    PROVE  LET all   == CollectMatches(s, c.selector, OnProperty(c))
               nodes == WaitTargets(s, c)
           IN  /\ nodes \subseteq all
               /\ all # {} => nodes # {}
               /\ \A n : all = {n} => nodes = {n}
               /\ IsFiniteSet(nodes)
<1> DEFINE all     == CollectMatches(s, c.selector, OnProperty(c))
           query   == Query(s, c.selector, OnProperty(c), WaitMatches)
           visible == {n \in query : n \in Items /\ Visible(s, n)}
           nodes   == WaitTargets(s, c)
<1>1. query \subseteq all /\ (all # {} => query # {}) /\ \A n : all = {n} => query = {n}
  BY QueryOfSome, BoundsAssumption
<1>2. all \in SUBSET Nodes
  BY MatchesAreNodes DEF Scenes
<1>3. (nodes = visible /\ Cardinality(visible) = 1) \/ nodes = query
  BY DEF WaitTargets
<1> HIDE DEF all, query, nodes
<1>4. Cardinality(visible) = 1 => visible # {}
  BY FS_EmptySet
<1>5. nodes \subseteq query /\ (query # {} => nodes # {})
  BY <1>3, <1>4
<1>6. nodes \in SUBSET Nodes
  BY <1>1, <1>2, <1>5
<1> QED
  BY <1>1, <1>5, <1>6, FiniteNodes DEF all, nodes

LEMMA VerdictType ==
    ASSUME NEW s \in Scenes, NEW c \in Conditions
    PROVE  EvaluateWaitCondition(s, c).satisfied \in BOOLEAN
<1> DEFINE nodes   == WaitTargets(s, c)
           target  == CHOOSE n \in nodes : TRUE
           state   == (nodes # {}) = (c.state = "found")
           compare == Compare(s.value[target], c.op, c.value)
           verdict == EvaluateWaitCondition(s, c)
<1>1. CASE ~OnProperty(c)
  <2>1. verdict.satisfied = state
    BY <1>1 DEF EvaluateWaitCondition
  <2>2. state \in BOOLEAN
    OBVIOUS
  <2> HIDE DEF verdict, state
  <2>3. verdict.satisfied \in BOOLEAN
    BY <2>1, <2>2
  <2> QED
    BY <2>3 DEF verdict
<1>2. CASE OnProperty(c)
  <2>1. \/ verdict.satisfied = FALSE
        \/ /\ target \in Valued /\ Comparable(s.value[target], c.op)
           /\ verdict.satisfied = compare
    <3> HIDE DEF compare, target
    <3> QED
      BY <1>2 DEF EvaluateWaitCondition, compare, target
  <2>2. ASSUME target \in Valued, Comparable(s.value[target], c.op) PROVE compare \in BOOLEAN
    <3>1. s.value[target] \in Values
      BY <2>2 DEF Scenes
    <3> HIDE DEF target
    <3> QED
      BY <1>2, <2>2, <3>1, CompareIsBoolean DEF OnProperty
  <2> HIDE DEF verdict, compare, target
  <2>3. verdict.satisfied \in BOOLEAN
    BY <2>1, <2>2
  <2> QED
    BY <2>3 DEF verdict
<1> QED
  BY <1>1, <1>2

-----------------------------------------------------------------------------
(* What the application may do to a scene: the ids stay, what comes has    *)
(* none, and of what goes the source line is noted.                        *)
Changed ==
    /\ scene' \in Scenes /\ scene'.number = scene.number
    /\ \A n \in scene'.live \ scene.live : scene.number[n] = 0
    /\ \A n \in scene.live \ scene'.live : Object[n].sourceLocation \in reduced'
    /\ reduced \subseteq reduced'

LEMMA ApplicationChanges ==
    ASSUME scene \in Scenes, changes \in 0..MaxChanges, Application
    PROVE  /\ Changed
           /\ wait.at \in {"idle", "looping"} /\ changes' \in 0..MaxChanges /\ current' = FALSE
           /\ UNCHANGED <<offered, wait>>
<1> DEFINE R == [live : SUBSET Nodes, shown : SUBSET Nodes, place : [Nodes -> Nat],
                 order : Orders, number : [Nodes -> Nat], value : [Valued -> Values]]
<1>1. /\ scene \in R
      /\ \A n \in scene.live : Above[n] \subseteq scene.live
      /\ \A m, n \in Nodes : scene.number[m] = scene.number[n] => m = n \/ scene.number[n] = 0
  BY DEF Scenes
<1>2. ASSUME NEW s, Becomes(s)
      PROVE  /\ scene' = s /\ wait.at \in {"idle", "looping"} /\ changes' \in 0..MaxChanges
             /\ current' = FALSE /\ UNCHANGED <<offered, wait>>
  BY <1>2, BoundsAssumption DEF Becomes
<1>3. Items \subseteq Nodes
  BY DEF Nodes
<1>4. ASSUME NEW i \in Changing.live, Create(i) PROVE Changed /\ \E s : Becomes(s)
  <2>1. i \in Nodes /\ i \notin scene.live /\ scene.number[i] = 0 /\ Above[i] \subseteq scene.live
    BY <1>3, <1>4, ChangingAssumption DEF Create
  <2> DEFINE s == [scene EXCEPT !.live = @ \cup {i}]
  <2>2. Becomes(s) /\ reduced' = reduced
    BY <1>4 DEF Create
  <2>3. /\ s \in R /\ s.live = scene.live \cup {i} /\ s.number = scene.number
    BY <1>1, <2>1
  <2> HIDE DEF s
  <2>4. s \in Scenes
    BY <1>1, <2>1, <2>3 DEF Scenes
  <2> QED
    BY <1>2, <2>1, <2>2, <2>3, <2>4 DEF Changed
<1>5. ASSUME NEW i \in Changing.live, Destroy(i) PROVE Changed /\ \E s : Becomes(s)
  <2> DEFINE gone == {n \in scene.live : n = i \/ i \in Above[n]}
             s    == [scene EXCEPT !.live = @ \ gone]
  <2>1. Becomes(s) /\ reduced' = reduced \cup {Object[n].sourceLocation : n \in gone}
    BY <1>5 DEF Destroy
  <2>2. s \in R /\ s.live = scene.live \ gone /\ s.number = scene.number
    BY <1>1
  <2> HIDE DEF s
  <2>3. ASSUME NEW n \in s.live PROVE Above[n] \subseteq s.live
    <3>1. n \in Nodes /\ n \in scene.live /\ i \notin Above[n] /\ Above[n] \subseteq scene.live
      BY <1>1, <2>2
    <3>2. ASSUME NEW m \in Above[n] PROVE m \notin gone
      <4>1. Above[m] \subseteq Above[n]
        BY <3>1, <3>2, AboveFacts
      <4> QED
        BY <3>1, <4>1
    <3> QED
      BY <2>2, <3>1, <3>2
  <2>4. s \in Scenes
    BY <1>1, <2>2, <2>3 DEF Scenes
  <2> QED
    BY <1>2, <2>1, <2>2, <2>4 DEF Changed
<1>6. ASSUME NEW s, Becomes(s), UNCHANGED reduced, s \in R, s.live = scene.live,
             s.number = scene.number
      PROVE  Changed
  <2>1. s \in Scenes
    BY <1>1, <1>6 DEF Scenes
  <2> QED
    BY <1>2, <1>6, <2>1 DEF Changed
<1>7. ASSUME NEW i \in Changing.shown, ShowOrHide(i) PROVE Changed /\ \E s : Becomes(s)
  <2> DEFINE s == [scene EXCEPT !.shown = IF i \in @ THEN @ \ {i} ELSE @ \cup {i}]
  <2>1. Becomes(s) /\ UNCHANGED reduced
    BY <1>7 DEF ShowOrHide
  <2>2. i \in Nodes
    BY <1>3, ChangingAssumption
  <2>3. s \in R /\ s.live = scene.live /\ s.number = scene.number
    BY <1>1, <2>2
  <2> HIDE DEF s
  <2> QED
    BY <1>6, <2>1, <2>3
<1>8. ASSUME NEW i \in Changing.place, NEW j \in Changing.place, Restack(i, j)
      PROVE  Changed /\ \E s : Becomes(s)
  <2> DEFINE place == [scene.place EXCEPT ![i] = scene.place[j], ![j] = scene.place[i]]
             s     == [scene EXCEPT !.place = place]
  <2>1. Becomes(s) /\ UNCHANGED reduced
    BY <1>8 DEF Restack
  <2>2. i \in Nodes /\ j \in Nodes
    BY <1>3, ChangingAssumption
  <2>3. place \in [Nodes -> Nat]
    BY <1>1, <2>2
  <2> HIDE DEF place
  <2>4. s \in R /\ s.live = scene.live /\ s.number = scene.number
    BY <1>1, <2>3
  <2> HIDE DEF s
  <2> QED
    BY <1>6, <2>1, <2>4
<1>9. ASSUME NEW i \in Valued, NEW v \in Values, SetValue(i, v) PROVE Changed /\ \E s : Becomes(s)
  <2> DEFINE value == [scene.value EXCEPT ![i] = v]
             s     == [scene EXCEPT !.value = value]
  <2>1. Becomes(s) /\ UNCHANGED reduced
    BY <1>9 DEF SetValue
  <2>2. value \in [Valued -> Values]
    BY <1>1
  <2> HIDE DEF value
  <2>3. s \in R /\ s.live = scene.live /\ s.number = scene.number
    BY <1>1, <2>2
  <2> HIDE DEF s
  <2> QED
    BY <1>6, <2>1, <2>3
<1>10. ASSUME NEW o \in Orders, Reorder(o) PROVE Changed /\ \E s : Becomes(s)
  <2> DEFINE s == [scene EXCEPT !.order = o]
  <2>1. Becomes(s) /\ UNCHANGED reduced
    BY <1>10 DEF Reorder
  <2>2. s \in R /\ s.live = scene.live /\ s.number = scene.number
    BY <1>1
  <2> HIDE DEF s
  <2> QED
    BY <1>6, <2>1, <2>2
<1>11. Changed /\ \E s : Becomes(s)
  BY <1>4, <1>5, <1>7, <1>8, <1>9, <1>10 DEF Application
<1> QED
  BY <1>2, <1>11

(* As long as no instance of its line goes, that of a node stays.          *)
LEMMA InstancesStay ==
    ASSUME scene \in Scenes, Changed, NEW n \in scene'.live, scene.number[n] # 0,
           Object[n].sourceLocation \notin reduced'
    PROVE  /\ n \in scene.live
           /\ \A sel : Instance(scene, n, sel) => Instance(scene', n, sel)
<1> DEFINE l        == Object[n].sourceLocation
           group(s) == SourceGroup(s, l)
           older(s) == {m \in group(s) : NumberedBefore(s, m, n)}
<1>1. n \in scene.live
  BY DEF Changed
<1>2. group(scene) \subseteq group(scene') /\ group(scene') \in SUBSET Nodes
  BY DEF Changed, Scenes, SourceGroup, Counted
<1>3. \A m \in group(scene') \ group(scene) : scene.number[m] = 0
  BY DEF Changed, SourceGroup, Counted
<1>4. older(scene) = older(scene')
  BY <1>2, <1>3 DEF Changed, NumberedBefore
<1>5. SourceOrdinal(scene', n) = SourceOrdinal(scene, n)
  BY <1>4 DEF SourceOrdinal
<1>6. Repeats(scene, n) => Repeats(scene', n)
  <2>1. /\ Cardinality(group(scene)) \in Nat /\ Cardinality(group(scene')) \in Nat
        /\ Cardinality(group(scene)) <= Cardinality(group(scene'))
    <3> HIDE DEF group
    <3> QED
      BY <1>2, FiniteNodes, FS_Subset
  <2> QED
    BY <2>1 DEF Repeats
<1> QED
  BY <1>1, <1>5, <1>6 DEF Instance

-----------------------------------------------------------------------------
(* Types. What is offered can be parsed, and nothing is while a wait runs. *)
WaitType ==
    /\ wait = [at |-> wait.at, until |-> wait.until, late |-> wait.late, verdict |-> wait.verdict]
    /\ wait.at \in {"idle", "evaluate", "looping", "again", "answered"}
    /\ wait.at # "idle" => wait.until \in Conditions
    /\ wait.late \in BOOLEAN
    /\ wait.verdict.satisfied \in BOOLEAN

OfferType(o) ==
    o.node \in Nodes /\ o.hidden \in BOOLEAN /\ o.order \in Orders /\ Parsed(o.selector)

TypeInv ==
    /\ scene \in Scenes
    /\ changes \in 0..MaxChanges
    /\ current \in BOOLEAN
    /\ WaitType
    /\ offered # {} => wait.at = "idle"
    /\ \A o \in offered : OfferType(o)

(* The answer to a wait is what its last evaluation found, in the scene as *)
(* it still is.                                                            *)
VerdictInv == wait.at = "answered" => wait.verdict = EvaluateWaitCondition(scene, wait.until)

(* What an offer needs to go on meaning its node: with the models as they  *)
(* were when it was made it fits the node, and nothing that the node is    *)
(* in; the node and all that it is in have their ids; and if it has an     *)
(* instance number, that is the node's until an instance of the line goes. *)
Means(s, gone, o) ==
    /\ Fits(o.order, o.node, o.selector)
    /\ \A m \in Line(o.node) : s.number[m] # 0
    /\ o.selector.instance = Nothing => \A m \in Above[o.node] : ~Fits(o.order, m, o.selector)
    /\ o.node \in s.live /\ Object[o.node].sourceLocation \notin gone =>
          Instance(s, o.node, o.selector)

NamesAlone(s, o) == CollectMatches(s, o.selector, o.hidden) = {o.node}

MeaningInv == \A o \in offered : Means(scene, reduced, o) /\ (current => NamesAlone(scene, o))

(* An answer, whichever it is: to a scene in which all have their ids come *)
(* offers that each, unless something was missed, name a node alone.       *)
IsTrue(s, o) ==
    /\ o.order = s.order /\ Fits(s.order, o.node, o.selector)
    /\ Instance(s, o.node, o.selector) /\ NamesAlone(s, o)

Answered ==
    /\ scene' \in Numbered(scene) /\ wait.at = "idle"
    /\ current' = TRUE /\ reduced' = {} /\ UNCHANGED <<changes, wait>>
    /\ \A o \in offered' :
          OfferType(o) /\ o.node \in scene'.live /\ (Unmistakable => IsTrue(scene', o))

LEMMA OffersAreTrue ==
    ASSUME NEW s \in Scenes, AllNumbered(s), NEW n \in s.live,
           NEW d \in Annotations[s.order][n] \cup {Delegate[s.order][n], NoContext}, NEW located,
           NEW o \in Offers(s, n, d, located)
    PROVE  OfferType(o) /\ o.node \in s.live /\ (Unmistakable => IsTrue(s, o))
<1>1. PICK sel \in Claims(s, n, d, located) : o = Offer(s, sel, n, TRUE)
  BY DEF Offers
<1>2. /\ Parsed(sel)
      /\ Unmistakable => /\ Describes(s.order, n, sel) /\ Instance(s, n, sel)
                         /\ CollectMatches(s, sel, TRUE) = {n}
  BY ClaimsParse, ClaimsAreTrue
<1>3. o.selector = sel /\ o.node = n /\ o.hidden = TRUE /\ o.order = s.order
  BY <1>1 DEF Offer
<1>4. n \in Nodes /\ s.order \in Orders
  BY DEF Scenes
<1> QED
  BY <1>2, <1>3, <1>4 DEF OfferType, IsTrue, NamesAlone, Describes

LEMMA AnswersAreTrue ==
    ASSUME scene \in Scenes,
           \/ \E hidden, located \in BOOLEAN : GetTree(hidden, located)
           \/ \E n \in Nodes : DescribeNode(n)
           \/ \E sel \in Asked, hidden \in BOOLEAN : AskQuery(sel, hidden)
    PROVE  Answered
<1> DEFINE True(s, o) == OfferType(o) /\ o.node \in s.live /\ (Unmistakable => IsTrue(s, o))
<1>1. ASSUME NEW s \in Numbered(scene), NEW offers, Answer(s, offers), \A o \in offers : True(s, o)
      PROVE  Answered
  BY <1>1 DEF Answer, Answered
<1>2. ASSUME NEW s \in Numbered(scene), NEW n \in s.live,
             NEW d \in Annotations[s.order][n] \cup {Delegate[s.order][n], NoContext}, NEW located,
             NEW o \in Offers(s, n, d, located)
      PROVE  True(s, o)
  <2>1. s \in Scenes /\ AllNumbered(s)
    BY NumberedFacts
  <2> QED
    BY <2>1, OffersAreTrue
<1> HIDE DEF True
<1>3. ASSUME NEW hidden \in BOOLEAN, NEW located \in BOOLEAN, GetTree(hidden, located)
      PROVE  Answered
  <2> DEFINE shown(s) == {n \in s.live : hidden \/ n \in Windows \/ Visible(s, n)}
             ofNode(s, n) == UNION {Offers(s, n, d, located) : d \in Annotations[s.order][n]}
             offers(s) == UNION {ofNode(s, n) : n \in shown(s)}
  <2>1. PICK s \in Numbered(scene) : Answer(s, offers(s))
    BY <1>3 DEF GetTree
  <2>2. ASSUME NEW o \in offers(s) PROVE True(s, o)
    <3>1. PICK n \in shown(s) : o \in ofNode(s, n)
      OBVIOUS
    <3>2. PICK d \in Annotations[s.order][n] : o \in Offers(s, n, d, located)
      BY <3>1
    <3>3. n \in s.live
      OBVIOUS
    <3> QED
      BY <1>2, <3>2, <3>3
  <2> HIDE DEF offers
  <2> QED
    BY <1>1, <2>1, <2>2
<1>4. ASSUME NEW n \in Nodes, DescribeNode(n) PROVE Answered
  <2>1. PICK s \in Numbered(scene) : n \in s.live /\ Answer(s, Offers(s, n, NoContext, TRUE))
    BY <1>4 DEF DescribeNode
  <2>2. \A o \in Offers(s, n, NoContext, TRUE) : True(s, o)
    BY <1>2, <2>1
  <2> QED
    BY <1>1, <2>1, <2>2
<1>5. ASSUME NEW sel \in Asked, NEW hidden \in BOOLEAN, AskQuery(sel, hidden) PROVE Answered
  <2> DEFINE nodes(s) == Query(s, sel, hidden, Cardinality(Nodes))
             more(s)  == IF Cardinality(nodes(s)) > 1 THEN Suggested(s, nodes(s), hidden) ELSE {}
             found(s) == UNION {Offers(s, n, Delegate[s.order][n], TRUE) : n \in nodes(s)}
             told(s)  == {Offer(s, a.selector, a.node, hidden) : a \in more(s)}
  <2>1. PICK s \in Numbered(scene) : Answer(s, found(s) \cup told(s))
    BY <1>5 DEF AskQuery
  <2>2. s \in Scenes
    BY NumberedFacts
  <2>3. nodes(s) \subseteq CollectMatches(s, sel, hidden) /\ nodes(s) \subseteq s.live
    <3>1. CASE Nodes = {}
      <4>1. CollectMatches(s, sel, hidden) = {}
        BY <2>2, <3>1, MatchesAreNodes DEF Scenes
      <4>2. FirstOf(s, {}, Cardinality(Nodes)) = {} /\ WithoutStyle(sel, {}) = {} /\ Outermost({}) = {}
        BY DEF FirstOf, WithoutStyle, Outermost
      <4> QED
        BY <4>1, <4>2 DEF Query
    <3>2. CASE Nodes # {}
      <4>1. Cardinality(Nodes) \in Nat \ {0}
        BY <3>2, NodesAssumption, FS_CardinalityType, FS_EmptySet
      <4>2. nodes(s) \subseteq CollectMatches(s, sel, hidden)
        BY <2>2, <4>1, QueryOfSome
      <4> HIDE DEF nodes
      <4> QED
        BY <2>2, <4>2, MatchesAreNodes DEF Scenes
    <3> QED
      BY <3>1, <3>2
  <2>4. ASSUME NEW o \in found(s) PROVE True(s, o)
    <3> HIDE DEF nodes
    <3>1. PICK n \in nodes(s) : o \in Offers(s, n, Delegate[s.order][n], TRUE)
      OBVIOUS
    <3> QED
      BY <1>2, <2>3, <3>1
  <2>5. ASSUME NEW o \in told(s) PROVE True(s, o)
    <3> HIDE DEF nodes
    <3>1. PICK a \in Suggested(s, nodes(s), hidden) : o = Offer(s, a.selector, a.node, hidden)
      OBVIOUS
    <3>2. /\ a.node \in s.live /\ Describes(s.order, a.node, a.selector) /\ a.selector.instance = Nothing
          /\ CollectMatches(s, a.selector, hidden) = {a.node}
      BY <2>2, <2>3, SuggestedAreTrue
    <3>3. /\ o.selector = a.selector /\ o.node = a.node /\ o.hidden = hidden /\ o.order = s.order
          /\ a.node \in Nodes /\ s.order \in Orders
      BY <2>2, <3>1, <3>2 DEF Scenes, Offer
    <3> QED
      BY <3>2, <3>3 DEF True, OfferType, Describes, IsTrue, Instance, NamesAlone
  <2> HIDE DEF found, told
  <2> QED
    BY <1>1, <2>1, <2>4, <2>5
<1> QED
  BY <1>3, <1>4, <1>5

-----------------------------------------------------------------------------
(* Every step is a change by the application, an answer, or one of a wait. *)
LEMMA StartsTyped == Init => TypeInv /\ VerdictInv /\ MeaningInv
<1> SUFFICES ASSUME Init PROVE TypeInv /\ VerdictInv /\ MeaningInv
  OBVIOUS
<1>1. wait = NoWait /\ offered = {}
  BY DEF Init
<1>2. WaitType
  BY <1>1 DEF WaitType, NoWait
<1>3. scene \in Scenes /\ changes \in 0..MaxChanges /\ current \in BOOLEAN
  <2>1. scene \in Scenes
    BY ScenesAssumption DEF Init
  <2>2. changes \in 0..MaxChanges
    BY BoundsAssumption DEF Init
  <2>3. current \in BOOLEAN
    BY DEF Init
  <2> QED
    BY <2>1, <2>2, <2>3
<1>4. wait.at = "idle"
  BY <1>1 DEF NoWait
<1> QED
  BY <1>1, <1>2, <1>3, <1>4 DEF TypeInv, VerdictInv, MeaningInv

(* The steps of a wait.                                                    *)
LEMMA EvaluateTyped ==
    ASSUME TypeInv, Evaluate
    PROVE  /\ scene' \in Numbered(scene) /\ UNCHANGED <<changes, offered, current, reduced>>
           /\ WaitType' /\ wait'.at # "idle" /\ offered = {}
           /\ wait'.at = "answered" => wait'.verdict = EvaluateWaitCondition(scene', wait'.until)
<1> DEFINE verdict == EvaluateWaitCondition(scene', wait.until)
           at == IF verdict.satisfied \/ wait.at = "again" THEN "answered"
                 ELSE IF wait.late THEN "again" ELSE "looping"
<1>1. /\ scene' \in Numbered(scene) /\ wait.at \in {"evaluate", "again"}
      /\ wait' = [wait EXCEPT !.verdict = verdict, !.at = at]
      /\ UNCHANGED <<changes, offered, current, reduced>>
  BY DEF Evaluate
<1>2. scene' \in Scenes /\ wait.until \in Conditions
  BY <1>1, NumberedFacts DEF TypeInv, WaitType
<1>3. verdict.satisfied \in BOOLEAN
  BY <1>2, VerdictType
<1>4. at \in {"looping", "again", "answered"}
  OBVIOUS
<1> HIDE DEF verdict, at
<1>5. /\ wait' = [at |-> at, until |-> wait.until, late |-> wait.late, verdict |-> verdict]
      /\ wait.late \in BOOLEAN
  BY <1>1 DEF TypeInv, WaitType
<1>6. /\ wait'.at = at /\ wait'.until = wait.until /\ wait'.late = wait.late
      /\ wait'.verdict = verdict
  BY <1>5
<1>7. WaitType' /\ wait'.at # "idle"
  BY <1>2, <1>3, <1>4, <1>5, <1>6 DEF WaitType
<1>8. offered = {}
  BY <1>1 DEF TypeInv
<1>9. wait'.verdict = EvaluateWaitCondition(scene', wait'.until)
  BY <1>6 DEF verdict
<1> QED
  BY <1>1, <1>7, <1>8, <1>9

LEMMA WaitStepTyped ==
    ASSUME TypeInv, (\E c \in Conditions : StartWait(c)) \/ TimePasses \/ LoopEnds \/ NextCall
    PROVE  /\ UNCHANGED <<scene, changes>> /\ WaitType' /\ wait'.at # "answered"
           /\ current' \in BOOLEAN /\ offered' = {}
<1>1. /\ wait = [at |-> wait.at, until |-> wait.until, late |-> wait.late, verdict |-> wait.verdict]
      /\ wait.at # "idle" => wait.until \in Conditions
      /\ wait.late \in BOOLEAN /\ wait.verdict.satisfied \in BOOLEAN
      /\ current \in BOOLEAN /\ (wait.at # "idle" => offered = {})
  BY DEF TypeInv, WaitType
<1>2. CASE \E c \in Conditions : StartWait(c)
  <2>1. PICK c \in Conditions : StartWait(c)
    BY <1>2
  <2>2. wait' = [at |-> "evaluate", until |-> c, late |-> FALSE, verdict |-> NoWait.verdict]
    BY <2>1 DEF StartWait, NoWait
  <2>3. NoWait.verdict.satisfied = FALSE
    BY DEF NoWait
  <2>4. UNCHANGED <<scene, changes>> /\ current' = FALSE /\ offered' = {}
    BY <2>1 DEF StartWait
  <2>5. /\ wait'.at = "evaluate" /\ wait'.until = c /\ wait'.late = FALSE
        /\ wait'.verdict = NoWait.verdict
    BY <2>2
  <2> QED
    BY <2>2, <2>3, <2>4, <2>5 DEF WaitType
<1>3. CASE TimePasses
  BY <1>1, <1>3 DEF TimePasses, WaitType
<1>4. CASE LoopEnds
  BY <1>1, <1>4 DEF LoopEnds, WaitType
<1>5. CASE NextCall
  BY <1>1, <1>5 DEF NextCall, NoWait, WaitType
<1> QED
  BY <1>2, <1>3, <1>4, <1>5

LEMMA StepKinds ==
    ASSUME Next
    PROVE  \/ Application
           \/ \/ \E hidden, located \in BOOLEAN : GetTree(hidden, located)
              \/ \E n \in Nodes : DescribeNode(n)
              \/ \E sel \in Asked, hidden \in BOOLEAN : AskQuery(sel, hidden)
           \/ Evaluate
           \/ (\E c \in Conditions : StartWait(c)) \/ TimePasses \/ LoopEnds \/ NextCall
BY DEF Next

LEMMA NextTypeInv == TypeInv /\ [Next]_vars => TypeInv'
<1> SUFFICES ASSUME TypeInv, [Next]_vars PROVE TypeInv'
  OBVIOUS
<1>1. CASE Application
  <2>1. /\ Changed /\ changes' \in 0..MaxChanges /\ current' = FALSE
        /\ UNCHANGED <<offered, wait>>
    BY <1>1, ApplicationChanges DEF TypeInv
  <2> QED
    BY <2>1 DEF TypeInv, WaitType, Changed
<1>2. CASE Answered
  <2>1. scene' \in Scenes
    BY <1>2, NumberedFacts DEF Answered, TypeInv
  <2> QED
    BY <1>2, <2>1 DEF TypeInv, WaitType, Answered
<1>3. CASE Evaluate
  <2>1. scene' \in Scenes
    BY <1>3, EvaluateTyped, NumberedFacts DEF TypeInv
  <2> QED
    BY <1>3, <2>1, EvaluateTyped DEF TypeInv
<1>4. CASE (\E c \in Conditions : StartWait(c)) \/ TimePasses \/ LoopEnds \/ NextCall
  BY <1>4, WaitStepTyped DEF TypeInv
<1>5. CASE UNCHANGED vars
  BY <1>5 DEF vars, TypeInv, WaitType
<1> QED
  BY <1>1, <1>2, <1>3, <1>4, <1>5, StepKinds, AnswersAreTrue DEF TypeInv

(* After the last evaluation of a wait nothing changes until the client's  *)
(* next call.                                                              *)
LEMMA NextVerdictInv == TypeInv /\ VerdictInv /\ [Next]_vars => VerdictInv'
<1> SUFFICES ASSUME TypeInv, VerdictInv, [Next]_vars PROVE VerdictInv'
  OBVIOUS
<1>1. CASE Application
  <2>1. wait.at \in {"idle", "looping"} /\ wait' = wait
    BY <1>1, ApplicationChanges DEF TypeInv
  <2> QED
    BY <2>1 DEF VerdictInv
<1>2. CASE Answered
  BY <1>2 DEF Answered, VerdictInv
<1>3. CASE Evaluate
  BY <1>3, EvaluateTyped DEF VerdictInv
<1>4. CASE (\E c \in Conditions : StartWait(c)) \/ TimePasses \/ LoopEnds \/ NextCall
  BY <1>4, WaitStepTyped DEF VerdictInv
<1>5. CASE UNCHANGED vars
  BY <1>5 DEF vars, VerdictInv
<1> QED
  BY <1>1, <1>2, <1>3, <1>4, <1>5, StepKinds, AnswersAreTrue DEF TypeInv

(* Where a node and what it is in have kept their places, a selector fits  *)
(* the same of them; and one without a place fits the same anywhere.       *)
LEMMA FitsStays ==
    ASSUME NEW p \in Orders, NEW q \in Orders, NEW n \in Nodes, NEW sel,
           ~Composite(sel) \/ n \notin Moved(p, q), NEW m \in Line(n)
    PROVE  Fits(p, m, sel) <=> Fits(q, m, sel)
<1>1. CASE ~Composite(sel)
  BY <1>1 DEF Fits, Composite
<1>2. CASE n \notin Moved(p, q)
  <2>1. SamePlace(Delegate[p][m], Delegate[q][m])
    BY <1>2 DEF Moved, Line
  <2> QED
    BY <2>1 DEF SamePlace, Fits
<1> QED
  BY <1>1, <1>2

(* An offer means its node in the scene of its answer, and whatever the    *)
(* application does then.                                                  *)
LEMMA AnswerMeans ==
    ASSUME NEW s \in Scenes, AllNumbered(s), NEW o, OfferType(o), o.node \in s.live, IsTrue(s, o)
    PROVE  Means(s, {}, o)
<1>1. \A m \in Line(o.node) : m \in s.live
  BY DEF Scenes, Line
<1>2. o.selector.instance = Nothing => \A m \in Above[o.node] : ~Fits(o.order, m, o.selector)
  <2>1. \A m \in Above[o.node] : ~Fits(s.order, m, o.selector) \/ o.selector.instance # Nothing
    BY NoneAboveFits DEF IsTrue, NamesAlone, OfferType, Parsed
  <2> QED
    BY <2>1 DEF IsTrue
<1> QED
  BY <1>1, <1>2 DEF Means, AllNumbered, IsTrue

LEMMA ChangeMeans ==
    ASSUME scene \in Scenes, Changed, NEW o, OfferType(o), Means(scene, reduced, o)
    PROVE  Means(scene', reduced', o)
<1>1. scene'.number = scene.number /\ reduced \subseteq reduced'
  BY DEF Changed
<1>2. ASSUME o.node \in scene'.live, Object[o.node].sourceLocation \notin reduced'
      PROVE  Instance(scene', o.node, o.selector)
  <2>1. scene.number[o.node] # 0
    BY DEF Means, Line
  <2>2. /\ o.node \in scene.live
        /\ Instance(scene, o.node, o.selector) => Instance(scene', o.node, o.selector)
    BY <1>2, <2>1, InstancesStay
  <2> QED
    BY <1>1, <1>2, <2>2 DEF Means
<1> QED
  BY <1>1, <1>2 DEF Means

LEMMA NextMeaningInv ==
    ASSUME Unmistakable
    PROVE  TypeInv /\ MeaningInv /\ [Next]_vars => MeaningInv'
<1> SUFFICES ASSUME TypeInv, MeaningInv, [Next]_vars PROVE MeaningInv'
  OBVIOUS
<1>1. CASE Application
  <2>1. Changed /\ current' = FALSE /\ offered' = offered
    BY <1>1, ApplicationChanges DEF TypeInv
  <2>2. \A o \in offered : Means(scene', reduced', o)
    BY <2>1, ChangeMeans DEF TypeInv, MeaningInv
  <2> QED
    BY <2>1, <2>2 DEF MeaningInv
<1>2. CASE Answered
  <2>1. scene' \in Scenes /\ AllNumbered(scene')
    BY <1>2, NumberedFacts DEF Answered, TypeInv
  <2>2. \A o \in offered' : NamesAlone(scene', o) /\ Means(scene', {}, o)
    BY <1>2, <2>1, AnswerMeans DEF Answered, IsTrue
  <2>3. reduced' = {}
    BY <1>2 DEF Answered
  <2> QED
    BY <2>2, <2>3 DEF MeaningInv
<1>3. CASE Evaluate
  BY <1>3, EvaluateTyped DEF MeaningInv
<1>4. CASE (\E c \in Conditions : StartWait(c)) \/ TimePasses \/ LoopEnds \/ NextCall
  BY <1>4, WaitStepTyped DEF MeaningInv
<1>5. CASE UNCHANGED vars
  BY <1>5 DEF vars, MeaningInv
<1> QED
  BY <1>1, <1>2, <1>3, <1>4, <1>5, StepKinds, AnswersAreTrue DEF TypeInv

-----------------------------------------------------------------------------
(* In every state what the agent and the application know of the scene is  *)
(* in order, an item lives only in a living one, and every selector that   *)
(* was offered can be parsed.                                              *)
THEOREM TypeCorrect == Spec => []TypeOK
<1>1. Init => TypeInv
  BY StartsTyped
<1>2. TypeInv => TypeOK
  BY DEF TypeInv, TypeOK, WaitType, OfferType, Parsed
<1> QED
  BY <1>1, <1>2, NextTypeInv, PTL DEF Spec

LEMMA VerdictTold ==
    ASSUME TypeInv, VerdictInv
    PROVE  WaitVerdictIsCurrent
<1> SUFFICES ASSUME wait.at = "answered" PROVE WaitVerdictIsCurrent
  BY DEF WaitVerdictIsCurrent
<1> DEFINE c       == wait.until
           all     == CollectMatches(scene, c.selector, OnProperty(c))
           nodes   == WaitTargets(scene, c)
           target  == CHOOSE n \in nodes : TRUE
           meeting == {n \in Valued : Comparable(scene.value[n], c.op)
                                      /\ Compare(scene.value[n], c.op, c.value)}
           verdict == EvaluateWaitCondition(scene, c)
<1>1. scene \in Scenes /\ c \in Conditions /\ wait.verdict = verdict
  BY DEF TypeInv, WaitType, VerdictInv
<1>2. /\ nodes \subseteq all /\ (all # {} => nodes # {}) /\ (\A n : all = {n} => nodes = {n})
      /\ IsFiniteSet(nodes)
  BY <1>1, TargetsOfSome
<1>3. CASE ~OnProperty(c)
  <2>1. verdict.satisfied = ((nodes # {}) = (c.state = "found"))
    BY <1>3 DEF EvaluateWaitCondition
  <2>2. all = CollectMatches(scene, c.selector, FALSE)
    BY <1>3 DEF OnProperty
  <2>3. (nodes # {}) <=> (CollectMatches(scene, c.selector, FALSE) # {})
    BY <1>2, <2>2
  <2> QED
    BY <1>1, <1>3, <2>1, <2>3 DEF WaitVerdictIsCurrent
<1>4. CASE OnProperty(c)
  <2>1. all = CollectMatches(scene, c.selector, TRUE)
    BY <1>4 DEF OnProperty
  <2>2. nodes # {} => target \in nodes
    OBVIOUS
  <2>3. ASSUME verdict.satisfied PROVE all \cap meeting # {}
    <3>1. /\ nodes # {} /\ target \in Valued /\ Comparable(scene.value[target], c.op)
          /\ Compare(scene.value[target], c.op, c.value)
      BY <1>4, <2>3 DEF EvaluateWaitCondition
    <3> QED
      BY <1>2, <2>2, <3>1
  <2>4. ASSUME Cardinality(all) = 1, all \subseteq meeting PROVE verdict.satisfied
    <3>1. all \in SUBSET Nodes
      BY <1>1, MatchesAreNodes DEF Scenes
    <3>2. PICK n : all = {n}
      <4> HIDE DEF all
      <4> QED
        BY <2>4, <3>1, FiniteNodes, FS_Singleton
    <3>3. nodes = {n} /\ Cardinality(nodes) = 1
      BY <1>2, <3>2, FS_Singleton
    <3>4. target = n
      BY <3>3
    <3>5. /\ nodes # {} /\ ~(Cardinality(nodes) > 1) /\ target \in Valued
          /\ Comparable(scene.value[target], c.op)
          /\ Compare(scene.value[target], c.op, c.value)
      BY <2>4, <3>2, <3>3, <3>4
    <3> QED
      BY <1>4, <3>5 DEF EvaluateWaitCondition
  <2> QED
    BY <1>1, <1>4, <2>1, <2>3, <2>4 DEF WaitVerdictIsCurrent
<1> QED
  BY <1>3, <1>4

(* What UI.waitFor answers is true of the scene at that moment, whatever   *)
(* the condition, the number of matches it looks at and the changes while  *)
(* it ran the event loop.                                                  *)
THEOREM WaitIsTold == Spec => []WaitVerdictIsCurrent
<1>1. Init => TypeInv /\ VerdictInv
  BY StartsTyped
<1> QED
  BY <1>1, NextTypeInv, NextVerdictInv, VerdictTold, PTL DEF Spec

LEMMA MeaningKept ==
    ASSUME TypeInv, MeaningInv
    PROVE  SelectorsKeepTheirMeaning
<1> SUFFICES ASSUME NEW o \in offered
             PROVE  LET found == Query(scene, o.selector, o.hidden, Cardinality(Nodes))
                        renumbered == /\ o.selector.instance # Nothing
                                      /\ Object[o.node].sourceLocation \in reduced
                        moved == /\ Composite(o.selector)
                                 /\ o.node \in Moved(o.order, scene.order)
                    IN  /\ current => found = {o.node}
                        /\ /\ o.node \in scene.live /\ (o.hidden \/ Visible(scene, o.node))
                           /\ ~renumbered /\ ~moved
                           => /\ o.node \in CollectMatches(scene, o.selector, o.hidden)
                              /\ Cardinality(found) = 1 => found = {o.node}
  BY DEF SelectorsKeepTheirMeaning
<1> DEFINE sel   == o.selector
           n     == o.node
           all   == CollectMatches(scene, sel, o.hidden)
           found == Query(scene, sel, o.hidden, Cardinality(Nodes))
<1>1. /\ scene \in Scenes /\ n \in Nodes /\ Parsed(sel)
      /\ Means(scene, reduced, o) /\ (current => all = {n})
  BY DEF TypeInv, OfferType, MeaningInv, NamesAlone
<1>2. Cardinality(Nodes) \in Nat \ {0}
  BY <1>1, NodesAssumption, FS_CardinalityType, FS_EmptySet
<1>3. found \subseteq all /\ \A m : all = {m} => found = {m}
  BY <1>1, <1>2, QueryOfSome
<1>4. sel.kind \in Kinds /\ sel.kind # "type"
  BY <1>1 DEF Parsed, Kinds
<1>5. ASSUME n \in scene.live, o.hidden \/ Visible(scene, n),
             sel.instance = Nothing \/ Object[n].sourceLocation \notin reduced,
             ~Composite(sel) \/ n \notin Moved(o.order, scene.order)
      PROVE  /\ n \in all
             /\ Cardinality(found) = 1 => found = {n}
  <2>1. sel.instance # Nothing =>
           /\ n \in Items /\ sel.kind = "sourceLocation" /\ sel.value = Object[n].sourceLocation
           /\ Repeats(scene, n) /\ sel.instance = SourceOrdinal(scene, n)
    BY <1>1, <1>5 DEF Means, Instance, Parsed
  <2>2. \A m \in Line(n) : Fits(o.order, m, sel) <=> Fits(scene.order, m, sel)
    <3>1. o.order \in Orders /\ scene.order \in Orders
      BY <1>1 DEF TypeInv, OfferType, Scenes
    <3> QED
      BY <1>1, <1>5, <3>1, FitsStays
  <2>3. n \in all
    <3>1. Fits(scene.order, n, sel)
      BY <1>1, <2>2 DEF Means, Line
    <3>2. NodeMatchesSelector(scene, n, sel)
      BY <1>4, <2>1, <3>1, MatchesFit DEF SourceInstance
    <3> QED
      BY <1>5, <3>2 DEF CollectMatches
  <2>4. ASSUME NEW m \in Above[n] \cap all PROVE FALSE
    <3>1. /\ m \in scene.live /\ m \in Nodes /\ m # n
          /\ NodeMatchesSelector(scene, m, sel)
      BY <1>1, <2>4, AboveFacts DEF CollectMatches
    <3>2. Fits(scene.order, m, sel) /\ (sel.instance # Nothing => SourceInstance(scene, m) = sel.instance)
      BY <1>4, <3>1, MatchesFit
    <3>3. sel.instance # Nothing
      BY <1>1, <2>2, <2>4, <3>2 DEF Means, Line
    <3>4. Object[m].sourceLocation = Object[n].sourceLocation
      BY <2>1, <3>2, <3>3 DEF Fits
    <3>5. m \in Items /\ SourceOrdinal(scene, m) = SourceOrdinal(scene, n)
      BY <2>1, <3>2, <3>3 DEF SourceInstance, Repeats
    <3>6. scene.number[m] # 0 /\ scene.number[n] # 0
      BY <1>1, <2>4 DEF Means, Line
    <3> QED
      BY <1>1, <1>5, <2>1, <3>1, <3>3, <3>4, <3>5, <3>6, OrdinalsDiffer
  <2>5. ASSUME Cardinality(found) = 1 PROVE found = {n}
    <3>1. all \in SUBSET Nodes
      BY <1>1, MatchesAreNodes DEF Scenes
    <3>2. found \in SUBSET Nodes
      BY <1>3, <3>1
    <3>3. PICK x : found = {x}
      <4> HIDE DEF found
      <4> QED
        BY <2>5, <3>2, FiniteNodes, FS_Singleton
    <3>4. x = n \/ x \in Above[n] \cap all
      BY <1>1, <1>4, <2>3, <3>3, QueryOfName
    <3> QED
      BY <2>4, <3>3, <3>4
  <2> QED
    BY <2>3, <2>5
<1> HIDE DEF found, all
<1>6. current => found = {n}
  BY <1>1, <1>3
<1> QED
  BY <1>5, <1>6 DEF found, all

(* A selector that was offered as naming a node alone does, and as long as *)
(* its node lives it never means another one, however the application      *)
(* restacks, hides, shows and creates items and changes the order of its   *)
(* models: one with an index or a cell, wherever the node has kept its     *)
(* place or come back to it. Provided that the author put no delegate with *)
(* a place of its own in another, no window and item on one source line,   *)
(* and an id on both or neither of two items with one objectName in the    *)
(* same place of two models. What happens otherwise, the count of          *)
(* selectors does not see.                                                 *)
THEOREM SelectorsMean ==
    ASSUME Unmistakable
    PROVE  Spec => []SelectorsKeepTheirMeaning
<1>1. Init => TypeInv /\ MeaningInv
  BY StartsTyped
<1>2. TypeInv /\ MeaningInv /\ [Next]_vars => MeaningInv'
  BY NextMeaningInv
<1> QED
  BY <1>1, <1>2, NextTypeInv, MeaningKept, PTL DEF Spec
=============================================================================
