------------------------------ MODULE UiQuery ------------------------------
(***************************************************************************)
(* UI.getTree, UI.describeNode, UI.query and UI.waitFor on a scene that    *)
(* the application goes on changing between calls and while a wait runs    *)
(* the event loop. The agent keeps the selectors of the last answer and    *)
(* uses them later.                                                        *)
(***************************************************************************)
EXTENDS Selectors

CONSTANTS InitialScenes, \* the scenes an application may start with
          Valued,        \* the items that have the property waited for
          Word,          \* a value of it that is no number
          Changing,      \* what the application changes, see Changes
          Asked,         \* the selectors of UI.query
          Conditions,    \* the selectors and predicates of UI.waitFor
          WaitMatches,   \* how many matches a wait looks at (20 in the code)
          MaxChanges     \* bound: how often the application changes

ASSUME BoundsAssumption == WaitMatches \in Nat \ {0} /\ MaxChanges \in Nat

VARIABLES scene,    \* see Selectors
          changes,  \* how often it has changed
          offered,  \* the selectors of the last answer, and whose they are
          current,  \* whether the scene is still that of the answer
          reduced,  \* the source lines of which an instance is gone since
          wait      \* UI.waitFor: where it is and what it knows

vars == <<scene, changes, offered, current, reduced, wait>>

Operators == {"=", "!=", ">"}
Values == {0, 1, Word}

(* Ids are unique, and an item lives only in a living one.                 *)
Scenes == {s \in [live : SUBSET Nodes, shown : SUBSET Nodes, place : [Nodes -> Nat],
                  order : Orders, number : [Nodes -> Nat], value : [Valued -> Values]] :
    /\ \A n \in s.live : Above[n] \subseteq s.live
    /\ \A m, n \in Nodes : s.number[m] = s.number[n] => m = n \/ s.number[n] = 0}

ASSUME ScenesAssumption == InitialScenes \subseteq Scenes

(* Values are compared with others, an order is one of numbers.            *)
ASSUME ConditionsAssumption == \A c \in Conditions :
    /\ c.op \in Operators \cup {Nothing}
    /\ c.op = ">" => c.value \in Values \ {Word}

ASSUME ChangingAssumption ==
    {Changing.live, Changing.shown, Changing.place, Valued} \subseteq SUBSET Items

NoWait == [at |-> "idle", until |-> Nothing, late |-> FALSE,
           verdict |-> [satisfied |-> FALSE, reason |-> ""]]

Init ==
    /\ scene \in InitialScenes
    /\ changes = 0
    /\ offered = {}
    /\ current = FALSE
    /\ reduced = {}
    /\ wait = NoWait

-----------------------------------------------------------------------------
(* The application, between calls and in the event loop of a wait.         *)

Becomes(s) ==
    /\ wait.at \in {"idle", "looping"}
    /\ changes < MaxChanges
    /\ s # scene
    /\ scene' = s
    /\ changes' = changes + 1
    /\ current' = FALSE
    /\ UNCHANGED <<offered, wait>>

(* One that is gone does not come back: a new object has no id yet.        *)
Create(i) ==
    /\ i \notin scene.live /\ scene.number[i] = 0 /\ Above[i] \subseteq scene.live
    /\ Becomes([scene EXCEPT !.live = @ \cup {i}])
    /\ UNCHANGED reduced

(* An item goes with what is in it.                                        *)
Destroy(i) ==
    LET gone == {n \in scene.live : n = i \/ i \in Above[n]}
    IN  /\ Becomes([scene EXCEPT !.live = @ \ gone])
        /\ reduced' = reduced \cup {Object[n].sourceLocation : n \in gone}

ShowOrHide(i) ==
    /\ Becomes([scene EXCEPT !.shown = IF i \in @ THEN @ \ {i} ELSE @ \cup {i}])
    /\ UNCHANGED reduced

(* stackBefore and stackAfter change the order of childItems().            *)
Restack(i, j) ==
    /\ Parent[i] = Parent[j]
    /\ Becomes([scene EXCEPT !.place = [@ EXCEPT ![i] = scene.place[j], ![j] = scene.place[i]]])
    /\ UNCHANGED reduced

(* Rows of a model are inserted, removed or moved: its delegates live on,  *)
(* in other places of it. The delegate of a new row is created later.      *)
Reorder(o) ==
    /\ Becomes([scene EXCEPT !.order = o])
    /\ UNCHANGED reduced

SetValue(i, v) ==
    /\ Becomes([scene EXCEPT !.value[i] = v])
    /\ UNCHANGED reduced

Application ==
    \/ \E i \in Changing.live : Create(i) \/ Destroy(i)
    \/ \E i \in Changing.shown : ShowOrHide(i)
    \/ \E i, j \in Changing.place : Restack(i, j)
    \/ \E o \in Orders : Reorder(o)
    \/ \E i \in Valued, v \in Values : SetValue(i, v)

-----------------------------------------------------------------------------
(* Answers. Each walks the tree first, which gives node ids, in any order, *)
(* to the objects the agent has not seen yet.                              *)

Unnumbered(s) == {n \in s.live : s.number[n] = 0}
Largest(s)    == CHOOSE k \in {s.number[n] : n \in Nodes} : \A n \in Nodes : s.number[n] <= k

Numbered(s) ==
    LET new == Unnumbered(s)
        ids == (Largest(s) + 1) .. (Largest(s) + Cardinality(new))
    IN  {[s EXCEPT !.number = [n \in Nodes |-> IF n \in new THEN f[n] ELSE s.number[n]]] :
            f \in {f \in [new -> ids] : \A m, n \in new : f[m] = f[n] => m = n}}

(* An offer also says among which nodes it names one, all or the visible,  *)
(* and where the models had their delegates.                               *)
Offer(s, sel, n, hidden) == [selector |-> sel, node |-> n, hidden |-> hidden, order |-> s.order]
Offers(s, n, d, located) == {Offer(s, sel, n, TRUE) : sel \in Claims(s, n, d, located)}

Answer(s, offers) ==
    /\ wait.at = "idle"
    /\ scene' = s
    /\ offered' = offers
    /\ current' = TRUE
    /\ reduced' = {}
    /\ UNCHANGED <<changes, wait>>

GetTree(hidden, located) == \E s \in Numbered(scene) :
    Answer(s, UNION {UNION {Offers(s, n, d, located) : d \in Annotations[s.order][n]} :
                        n \in {n \in s.live : hidden \/ n \in Windows \/ Visible(s, n)}})

(* describeNode does not look for the delegate a node is in.               *)
DescribeNode(n) == \E s \in Numbered(scene) :
    /\ n \in s.live
    /\ Answer(s, Offers(s, n, NoContext, TRUE))

AskQuery(sel, hidden) == \E s \in Numbered(scene) :
    LET nodes == Query(s, sel, hidden, Cardinality(Nodes))
        more  == IF Cardinality(nodes) > 1 THEN Suggested(s, nodes, hidden) ELSE {}
    IN  Answer(s, (UNION {Offers(s, n, Delegate[s.order][n], TRUE) : n \in nodes})
                    \cup {Offer(s, a.selector, a.node, hidden) : a \in more})

-----------------------------------------------------------------------------
(* UI.waitFor: a predicate on a property has an operator, a state has none.*)

OnProperty(c) == c.op # Nothing

(* compareJsonValues: order is for numbers only.                           *)
Comparable(v, op)      == op = ">" => v # Word
Compare(v, op, w) ==
    CASE op = "="  -> v = w
      [] op = "!=" -> v # w
      [] op = ">"  -> v > w

(* A predicate on a property also looks among the hidden, but one visible  *)
(* node is enough to tell which one is meant.                              *)
WaitTargets(s, c) ==
    LET nodes   == Query(s, c.selector, OnProperty(c), WaitMatches)
        visible == {n \in nodes : n \in Items /\ Visible(s, n)}
    IN  IF OnProperty(c) /\ Cardinality(visible) = 1 THEN visible ELSE nodes

EvaluateWaitCondition(s, c) ==
    LET nodes   == WaitTargets(s, c)
        target  == CHOOSE n \in nodes : TRUE
        because(ok, why) == [satisfied |-> ok, reason |-> IF ok THEN "predicate_satisfied" ELSE why]
    IN  IF ~OnProperty(c) THEN because((nodes # {}) = (c.state = "found"), "state_not_satisfied")
        ELSE IF nodes = {} THEN because(FALSE, "target_not_found")
        ELSE IF Cardinality(nodes) > 1 THEN because(FALSE, "target_ambiguous")
        ELSE IF target \notin Valued THEN because(FALSE, "property_not_found")
        ELSE IF ~Comparable(s.value[target], c.op) THEN because(FALSE, "unsupported_comparison")
        ELSE because(Compare(s.value[target], c.op, c.value), "property_not_satisfied")

StartWait(c) ==
    /\ wait.at = "idle"
    /\ wait' = [NoWait EXCEPT !.at = "evaluate", !.until = c]
    /\ offered' = {}
    /\ current' = FALSE
    /\ reduced' = {}
    /\ UNCHANGED <<scene, changes>>

Evaluate == \E s \in Numbered(scene) :
    LET verdict == EvaluateWaitCondition(s, wait.until)
    IN  /\ wait.at \in {"evaluate", "again"}
        /\ scene' = s
        /\ wait' = [wait EXCEPT !.verdict = verdict,
                       !.at = IF verdict.satisfied \/ wait.at = "again" THEN "answered"
                              ELSE IF wait.late THEN "again" ELSE "looping"]
        /\ UNCHANGED <<changes, offered, current, reduced>>

(* The loop ends with a frame, a notification of the property or the       *)
(* deadline. Time passes at any moment of it, and before it; the last      *)
(* evaluation comes after the deadline.                                    *)
TimePasses ==
    /\ wait.at \in {"evaluate", "looping"} /\ ~wait.late
    /\ wait' = [wait EXCEPT !.late = TRUE]
    /\ UNCHANGED <<scene, changes, offered, current, reduced>>

(* Mutant: no evaluation after the deadline.                               *)
LoopEndsForGood ==
    /\ wait.at = "looping"
    /\ wait' = [wait EXCEPT !.at = IF wait.late THEN "answered" ELSE "evaluate"]
    /\ UNCHANGED <<scene, changes, offered, current, reduced>>

LoopEnds ==
    /\ wait.at = "looping"
    /\ wait' = [wait EXCEPT !.at = IF wait.late THEN "again" ELSE "evaluate"]
    /\ UNCHANGED <<scene, changes, offered, current, reduced>>

(* After the answer the client makes its next call.                        *)
NextCall ==
    /\ wait.at = "answered"
    /\ wait' = NoWait
    /\ UNCHANGED <<scene, changes, offered, current, reduced>>

Next ==
    \/ Application
    \/ \E hidden, located \in BOOLEAN : GetTree(hidden, located)
    \/ \E n \in Nodes : DescribeNode(n)
    \/ \E sel \in Asked, hidden \in BOOLEAN : AskQuery(sel, hidden)
    \/ \E c \in Conditions : StartWait(c)
    \/ Evaluate \/ TimePasses \/ LoopEnds \/ NextCall

Spec == Init /\ [][Next]_vars

-----------------------------------------------------------------------------
(* The nodes that have not the same place in their models in both orders,  *)
(* they or an item above them.                                             *)
Moved(p, q) == {n \in Nodes :
    \E m \in {n} \cup Above[n] : ~SamePlace(Delegate[p][m], Delegate[q][m])}

(* Ids stay unique, an item lives only in a living one, and every selector *)
(* that is offered can be parsed.                                          *)
TypeOK ==
    /\ scene \in Scenes
    /\ changes \in 0..MaxChanges
    /\ current \in BOOLEAN
    /\ \A o \in offered : /\ WellFormed(o.selector)
                           /\ o.node \in Nodes /\ o.hidden \in BOOLEAN /\ o.order \in Orders
    /\ wait.at \in {"idle", "evaluate", "looping", "again", "answered"}
    /\ wait.at # "idle" => wait.until \in Conditions
    /\ {wait.late, wait.verdict.satisfied} \subseteq BOOLEAN

(* A selector that was offered as naming a node alone resolves to it in    *)
(* that scene. In a later one it may find nothing or more than one node,   *)
(* but as long as its node lives never another one instead: not when items *)
(* are restacked, hidden or created, nor when other delegates are moved in *)
(* their models. Two kinds of selectors are named by what may change: an   *)
(* instance number, when an instance of its line is destroyed, and one     *)
(* with an index or a cell, which is offered with the reason that it       *)
(* "changes when model order changes". It names a place: when its node, or *)
(* an item above it, is elsewhere, it names what has come in its place,    *)
(* and it names the node again when that has come back.                    *)
SelectorsKeepTheirMeaning ==
    \A o \in offered :
        LET found == Query(scene, o.selector, o.hidden, Cardinality(Nodes))
            renumbered == /\ o.selector.instance # Nothing
                          /\ Object[o.node].sourceLocation \in reduced
            moved == /\ Composite(o.selector)
                     /\ o.node \in Moved(o.order, scene.order)
        IN  /\ current => found = {o.node}
            /\ /\ o.node \in scene.live /\ (o.hidden \/ Visible(scene, o.node))
               /\ ~renumbered /\ ~moved
               =>   /\ o.node \in CollectMatches(scene, o.selector, o.hidden)
                    /\ Cardinality(found) = 1 => found = {o.node}

(* What UI.waitFor answers is true of the scene at the moment it answers,  *)
(* however the scene changed while it ran the event loop, and also when    *)
(* the time is up.                                                         *)
WaitVerdictIsCurrent ==
    wait.at = "answered" =>
        LET c       == wait.until
            visible == CollectMatches(scene, c.selector, FALSE)
            all     == CollectMatches(scene, c.selector, TRUE)
            meeting == {n \in Valued : Comparable(scene.value[n], c.op)
                                       /\ Compare(scene.value[n], c.op, c.value)}
        IN  IF OnProperty(c)
            THEN /\ wait.verdict.satisfied => all \cap meeting # {}
                 /\ Cardinality(all) = 1 /\ all \subseteq meeting => wait.verdict.satisfied
            ELSE wait.verdict.satisfied = ((visible # {}) = (c.state = "found"))
=============================================================================
