------------------------------- MODULE Scene -------------------------------
(***************************************************************************)
(* The item trees of Qt Quick windows, and what Qt does with a press. Items *)
(* and their parents are constants; what the application changes about     *)
(* them is a scene: which of them exist, their stacking, boxes, visibility, *)
(* enabled state and opacity. Geometry is one-dimensional: a box is a first *)
(* and a last point (none when the last one comes first), in the           *)
(* coordinates of the window, whose points are 0 .. Extent.                *)
(***************************************************************************)
EXTENDS Integers, FiniteSets

CONSTANTS Items,      \* the items, those of all windows
          Windows,    \* the windows
          Nothing,    \* no item and no window
          Parent,     \* the parent item of each item, Nothing for a root
          Content,    \* the root item of each window
          Birth,      \* the place of each item in its parent's childItems()
          Clips,      \* items with clip: true
          Surfaces,   \* items with accepted buttons or a pointer handler
          Controls,   \* Qt Quick controls, multi-point touch areas
          Overlays,   \* the overlay items of windows: their children are popups
          Modals,     \* the items of modal popups
          Extent      \* the last point of a window

ASSUME ParentAssumption  == Parent \in [Items -> Items \cup {Nothing}]
ASSUME ContentAssumption ==
    /\ Content \in [Windows -> Items]
    /\ \A w \in Windows : Parent[Content[w]] = Nothing
    /\ \A v, w \in Windows : v # w => Content[v] # Content[w]
(* There are no circles of parents, and siblings have different places.    *)
ASSUME TreeAssumption ==
    /\ IsFiniteSet(Items)
    /\ \A S \in SUBSET Items : S # {} => \E i \in S : Parent[i] \notin S
ASSUME BirthAssumption ==
    /\ Birth \in [Items -> Int]
    /\ \A i, j \in Items :
          i # j /\ Parent[i] = Parent[j] /\ Parent[i] # Nothing => Birth[i] # Birth[j]
ASSUME NothingAssumption == Nothing \notin Items \cup Windows
ASSUME KindsAssumption   == Items \cap Windows = {}

Ancestors ==
    LET up[i \in Items] == IF Parent[i] = Nothing THEN {} ELSE {Parent[i]} \cup up[Parent[i]]
    IN  [i \in Items |-> up[i]]

SubtreeOf  == [i \in Items |-> {j \in Items : j = i \/ i \in Ancestors[j]}]
Subtree(i) == SubtreeOf[i]

WindowOf == [i \in Items |->
    IF \E w \in Windows : i \in Subtree(Content[w])
    THEN CHOOSE w \in Windows : i \in Subtree(Content[w])
    ELSE Nothing]

Scenes == [live    : SUBSET Items,
           shown   : SUBSET Items,   \* visible is set, also if a parent is not
           enabled : SUBSET Items,
           opaque  : SUBSET Items,   \* opacity above 0.01
           z       : [Items -> Int],
           box     : [Items -> Int \X Int]]

(* isVisible() and isEnabled() take the ancestors into account, opacity()  *)
(* does not.                                                               *)
Visible(s, i)   == i \in s.live /\ Ancestors[i] \cup {i} \subseteq s.shown
IsEnabled(s, i) == Ancestors[i] \cup {i} \subseteq s.enabled

InBox(s, i, p) == s.box[i][1] <= p /\ p <= s.box[i][2]
Centre(s, i)   == (s.box[i][1] + s.box[i][2]) \div 2
InWindow(p)    == p \in 0 .. Extent

(* itemContainsScenePoint                                                  *)
ContainsPoint(s, i, p) == Visible(s, i) /\ InBox(s, i, p)

Encloses(s, i, j) == InBox(s, i, s.box[j][1]) /\ InBox(s, i, s.box[j][2])

(* The children of an item are painted by z and, where it is equal, in     *)
(* their order: a later one is above an earlier one.                       *)
PaintedBefore(s, i, j) ==
    s.z[i] < s.z[j] \/ (s.z[i] = s.z[j] /\ Birth[i] < Birth[j])

PaintOrderChildren(s, i) == {j \in s.live : Parent[j] = i}

(* The topmost of a set of siblings.                                       *)
Topmost(s, siblings) ==
    CHOOSE i \in siblings : \A j \in siblings \ {i} : PaintedBefore(s, j, i)

-----------------------------------------------------------------------------
(* What Qt does with a press, whatever the agent thinks of it.             *)

(* Item i is painted above item j: it is inside j, or in a branch above.   *)
Above(s, i, j) ==
    \/ j \in Ancestors[i]
    \/ \E a \in Ancestors[i] \cup {i}, b \in Ancestors[j] \cup {j} :
          a # b /\ Parent[a] = Parent[b] /\ Parent[a] # Nothing /\ PaintedBefore(s, b, a)

ClippedAway(s, i, p) == \E a \in Ancestors[i] \cap Clips : ~InBox(s, a, p)

TakesPress(s, i, p) ==
    /\ ContainsPoint(s, i, p) /\ IsEnabled(s, i) /\ ~ClippedAway(s, i, p)
    /\ i \in Surfaces \cup Controls

(* The item that is offered a press first, Nothing if there is none.       *)
Receiver(s, w, p) ==
    LET takers == {i \in s.live : WindowOf[i] = w /\ TakesPress(s, i, p)}
    IN  IF takers = {} THEN Nothing
        ELSE CHOOSE i \in takers : \A j \in takers \ {i} : Above(s, i, j)
=============================================================================
