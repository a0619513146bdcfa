----------------------------- MODULE Selectors -----------------------------
(***************************************************************************)
(* Selectors of the UI tree: which ones a node is offered with the claim   *)
(* that they name it alone, and what a query finds for one.                *)
(*                                                                         *)
(* What the author wrote of an object is constant; a scene is what changes *)
(* while the application runs: the objects that live, those that are       *)
(* shown, the place of each among its siblings and, of a delegate, in its  *)
(* model, its value, and its node id (0 until the agent has seen it). The  *)
(* values of selectors are atoms.                                          *)
(***************************************************************************)
EXTENDS Integers, FiniteSets

CONSTANTS Items, Windows, Nothing,
          Parent,    \* of an item its parent item or, for a root, its window
          Object,    \* what the author wrote of each node
          Orders     \* where the models may have their delegates

Nodes == Items \cup Windows

ASSUME NodesAssumption ==
    IsFiniteSet(Nodes) /\ Nothing \notin Nodes \cup Nat /\ Items \cap Windows = {}

(* There are no circles of parents.                                        *)
ASSUME ParentAssumption ==
    /\ Parent \in [Nodes -> Nodes \cup {Nothing}]
    /\ \A w \in Windows : Parent[w] = Nothing
    /\ \A i \in Items : Parent[i] # Nothing
    /\ \A S \in SUBSET Nodes : S # {} => \E n \in S : Parent[n] \notin S

(* delegate says that its source location is one of a delegate.            *)
ASSUME ObjectAssumption == \A n \in Nodes :
    /\ {"id", "objectName", "sourceLocation", "text", "type", "style", "delegate"} = DOMAIN Object[n]
    /\ {Object[n].style, Object[n].delegate} \subseteq BOOLEAN

(* index and cell are what each object itself can tell of its place in a   *)
(* model; they are read anew for every answer.                             *)
ASSUME OrdersAssumption == \A o \in Orders :
    DOMAIN o = {"index", "cell"} /\ DOMAIN o.index = Nodes /\ DOMAIN o.cell = Nodes

Above ==
    LET up[n \in Nodes] == IF Parent[n] = Nothing THEN {} ELSE {Parent[n]} \cup up[Parent[n]]
    IN  [n \in Nodes |-> up[n]]

Visible(s, n) == {n} \cup Above[n] \subseteq s.shown

-----------------------------------------------------------------------------
(* Selectors: one kind and value, and what narrows it.                     *)

Plain(k, v) == [kind |-> k, value |-> v, index |-> Nothing, cell |-> Nothing, instance |-> Nothing]
Within(sel, context) == [sel EXCEPT !.index = context.index, !.cell = context.cell]

Composite(sel) == sel.index # Nothing \/ sel.cell # Nothing

(* parseSelector: an index or a cell, not both.                            *)
WellFormed(sel) == sel.value # Nothing /\ (sel.index = Nothing \/ sel.cell = Nothing)

(* The id an item has, or else its objectName: none, or one selector.      *)
StableId == [n \in Nodes |->
    IF Object[n].id # Nothing THEN {Plain("id", Object[n].id)}
    ELSE {Plain("objectName", Object[n].objectName)} \ {Plain("objectName", Nothing)}]

SourceOf == [n \in Nodes |->
    {Plain("sourceLocation", Object[n].sourceLocation)} \ {Plain("sourceLocation", Nothing)}]

-----------------------------------------------------------------------------
(* The place in a model: of an object itself; as the count of selectors    *)
(* sees it, from the nearest object that has one; and as nodes are         *)
(* annotated, from the farthest.                                           *)

NoContext == [is |-> FALSE, index |-> Nothing, cell |-> Nothing]

(* Mutant: an index that can be read in a table's cell is kept.            *)
OwnContextOfBoth(o, n) ==
    [is    |-> o.cell[n] # Nothing \/ o.index[n] # Nothing,
     cell  |-> o.cell[n],
     index |-> o.index[n]]

OwnContext(o, n) ==
    [is    |-> o.cell[n] # Nothing \/ o.index[n] # Nothing,
     cell  |-> o.cell[n],
     index |-> IF o.cell[n] = Nothing THEN o.index[n] ELSE Nothing]

Context == [o \in Orders |->
    LET near[n \in Nodes] ==
            IF Parent[n] = Nothing THEN NoContext
            ELSE IF OwnContext(o, n).is THEN OwnContext(o, n) ELSE near[Parent[n]]
    IN  [n \in Nodes |-> near[n]]]

(* A delegate of which no place can be read is numbered by its position;   *)
(* no selector uses that number.                                           *)
DelegateMetadata(o, n) == [OwnContext(o, n) EXCEPT !.is = @ \/ Object[n].delegate]

Delegate == [o \in Orders |->
    LET far[n \in Nodes] ==
            IF Parent[n] \in Windows \cup {Nothing} THEN NoContext
            ELSE IF far[Parent[n]].is THEN far[Parent[n]] ELSE DelegateMetadata(o, n)
    IN  [n \in Nodes |-> far[n]]]

(* In a tree the node is annotated for each delegate that it is in.        *)
Annotations == [o \in Orders |-> [n \in Nodes |->
    LET all == {DelegateMetadata(o, a) : a \in {a \in {n} \cup Above[n] : Parent[a] \in Items}}
    IN  IF \E d \in all : d.is THEN {d \in all : d.is} ELSE {NoContext}]]

(* They agree unless one delegate is inside another, with a place of its   *)
(* own.                                                                    *)
SamePlace(d, e) == d.index = e.index /\ d.cell = e.cell

NotNested(o) == \A n \in Items :
    /\ Delegate[o][n].is \/ Context[o][n].is => SamePlace(Delegate[o][n], Context[o][n])
    /\ \A d \in Annotations[o][n] :
          d.index # Nothing \/ d.cell # Nothing => SamePlace(d, Delegate[o][n])

(* Of items with the same objectName in the same place of two models       *)
(* either all have an id as well, or none.                                 *)
NamedAlike(o) == \A m, n \in Items :
    /\ Object[m].objectName = Object[n].objectName /\ Object[n].objectName # Nothing
    /\ Delegate[o][n].is /\ SamePlace(Delegate[o][m], Delegate[o][n])
    => (Object[m].id = Nothing) = (Object[n].id = Nothing)

(* A window is written on a line of its own.                               *)
WindowLines == \A w \in Windows : SourceOf[w] # {} =>
    \A n \in Nodes \ {w} : SourceOf[w] # SourceOf[n]

(* What the author keeps to for the count of selectors to see all that a   *)
(* query finds.                                                            *)
Unmistakable == WindowLines /\ \A o \in Orders : NotNested(o) /\ NamedAlike(o)

-----------------------------------------------------------------------------
(* How often a selector's text occurs, over all windows and also among     *)
(* what is hidden (buildSelectorUniquenessIndex).                          *)

Counted(s)        == s.live
SourceGroup(s, l) == {i \in Counted(s) \cap Items : Object[i].sourceLocation = l}
Composites        == [o \in Orders |-> [i \in Items |->
    {Within(p, Context[o][i]) : p \in IF Context[o][i].is THEN StableId[i] \cup SourceOf[i] ELSE {}}]]

IsUnique(s, sel) == Cardinality({n \in Counted(s) : Object[n][sel.kind] = sel.value}) <= 1
DelegateCompositeIsUnique(s, sel) ==
    Cardinality({i \in Counted(s) \cap Items : sel \in Composites[s.order][i]}) <= 1

(* Instances of one source line are numbered in the order of their node    *)
(* ids; those that the agent has not seen yet come last.                   *)
NumberedBefore(s, m, n) == s.number[m] # 0 /\ (s.number[n] = 0 \/ s.number[m] < s.number[n])

(* Mutant: in the order of the tree walk, which restacking changes.        *)
SourceOrdinalInWalk(s, n) ==
    Cardinality({m \in SourceGroup(s, Object[n].sourceLocation) : s.place[m] < s.place[n]})

SourceOrdinal(s, n) ==
    Cardinality({m \in SourceGroup(s, Object[n].sourceLocation) : NumberedBefore(s, m, n)})

Repeats(s, n) == n \in Items /\ Cardinality(SourceGroup(s, Object[n].sourceLocation)) > 1
SourceInstance(s, n) == IF Repeats(s, n) THEN SourceOrdinal(s, n) ELSE Nothing

-----------------------------------------------------------------------------
(* The selectors of a node that are offered as naming it alone: stability  *)
(* high, or medium for source locations and composites. d is the delegate  *)
(* metadata the node is annotated with, located says whether its source is *)
(* asked for; it always is for a node that has no name.                    *)

Authored(located, n) == IF located \/ StableId[n] = {} THEN SourceOf[n] ELSE {}

(* In a delegate, names are not enough.                                    *)
Names(s, n, d) ==
    LET named == {Plain(k, Object[n][k]) : k \in {k \in {"id", "objectName"} : Object[n][k] # Nothing}}
    IN  {sel \in named : IsUnique(s, sel) /\ ~d.is}

SourceClaims(s, n, located) ==
    {IF Repeats(s, n) THEN [sel EXCEPT !.instance = SourceOrdinal(s, n)] ELSE sel :
        sel \in Authored(located, n)}

(* The id with the place in the model, or, where two views have the same,  *)
(* the source line with it.                                                *)
DelegateClaims(s, n, d, located) ==
    LET unique(sels) == {sel \in {Within(p, d) : p \in sels} : DelegateCompositeIsUnique(s, sel)}
    IN  IF d.index = Nothing /\ d.cell = Nothing THEN {}
        ELSE IF unique(StableId[n]) # {} THEN unique(StableId[n])
        ELSE unique(Authored(located, n))

Claims(s, n, d, located) ==
    {Plain("nodeId", n)} \cup Names(s, n, d) \cup SourceClaims(s, n, located)
        \cup DelegateClaims(s, n, d, located)

-----------------------------------------------------------------------------
(* Queries.                                                                *)

NodeMatchesSelector(s, n, sel) ==
    /\ CASE sel.kind = "nodeId" -> n = sel.value
         [] sel.kind = "type"   -> sel.value \in Object[n].type   \* its aliases are in it
         [] OTHER               -> Object[n][sel.kind] = sel.value
    /\ sel.index # Nothing => Delegate[s.order][n].index = sel.index
    /\ sel.cell # Nothing => Delegate[s.order][n].cell = sel.cell
    /\ sel.instance # Nothing => SourceInstance(s, n) = sel.instance

(* The windows themselves are never hidden.                                *)
CollectMatches(s, sel, hidden) ==
    {n \in s.live : (hidden \/ n \in Windows \/ Visible(s, n)) /\ NodeMatchesSelector(s, n, sel)}

(* The order of the tree walk; a window comes before its content.          *)
Before(s, m, n) ==
    \/ m \in Above[n]
    \/ \E a \in {m} \cup Above[m], b \in {n} \cup Above[n] :
        Parent[a] = Parent[b] /\ s.place[a] < s.place[b]

FirstOf(s, nodes, max) ==
    IF Cardinality(nodes) <= max THEN nodes
    ELSE {n \in nodes : Cardinality({m \in nodes : Before(s, m, n)}) < max}

(* A type selector means the control rather than what its style is made    *)
(* of, when that leaves one.                                               *)
WithoutStyle(sel, nodes) ==
    LET plain == {n \in nodes : ~Object[n].style}
    IN  IF sel.kind = "type" /\ Cardinality(plain) = 1 THEN plain ELSE nodes

(* A control and the labels in it are one match, the control.              *)
Outermost(nodes) ==
    LET tops == {o \in nodes : \A n \in nodes \ {o} : o \in Above[n]}
    IN  IF nodes \subseteq Items /\ tops # {} THEN tops ELSE nodes

Query(s, sel, hidden, max) ==
    Outermost(WithoutStyle(sel, FirstOf(s, CollectMatches(s, sel, hidden), max)))

(* With an ambiguous answer come selectors that tell its nodes apart: each *)
(* one of a single node of the answer, and verified by a query of its own. *)
Suggested(s, nodes, hidden) ==
    LET placed(n)  == Delegate[s.order][n]
        indexed(n) == {Within(p, placed(n)) :
                p \in IF placed(n).index # Nothing \/ placed(n).cell # Nothing THEN StableId[n] ELSE {}}
        all == UNION {{[selector |-> sel, node |-> n] : sel \in indexed(n)} : n \in nodes}
    IN  {a \in all :
            /\ \A b \in all : b.selector = a.selector => b = a
            /\ Cardinality(CollectMatches(s, a.selector, hidden)) = 1}
=============================================================================
