------------------------------- MODULE Input -------------------------------
(***************************************************************************)
(* Synthetic input. A call looks its target up, checks that it can be      *)
(* acted on, and then carries out a list of steps: activate the window,    *)
(* send events, hold, wait for a frame. Application code runs inside most  *)
(* of them: in the handlers of an event, which is delivered synchronously, *)
(* and in the nested event loops of the others. Whatever it changes or     *)
(* destroys there, the call goes on with what it has looked up before.     *)
(***************************************************************************)
EXTENDS Actionability, Sequences, SequencesExt, FiniteSetsExt

CONSTANTS Plain,        \* nodes that are no items
          ContentOf,    \* the content item of a control or flickable, or Nothing
          Editable,     \* items that hold text
          ReadOnly,     \* those that do not let it be changed
          Flickables,
          Targets,      \* the nodes a client names
          Aims,         \* the points it aims at
          InitialScenes,
          Changing,     \* what the application changes, by kind of change
          MaxChanges,   \* how often it changes something
          MaxByHand,    \* how many pointers a client puts down by hand
          MaxUnits      \* the longest text typed

ASSUME PlainAssumption  == Plain \cap (Items \cup Windows \cup {Nothing}) = {}
ASSUME ScenesAssumption == InitialScenes \subseteq Scenes
(* What is inside an item that is gone is gone as well.                    *)
ASSUME LiveAssumption   == \A s \in InitialScenes : \A i \in s.live : Ancestors[i] \subseteq s.live
(* A flickable has a content item; text is edited in items.                *)
ASSUME ContentOfAssumption ==
    /\ ContentOf \in [Items -> Items \cup {Nothing}] /\ Editable \subseteq Items
    /\ Flickables \subseteq {f \in Items : ContentOf[f] # Nothing}
ASSUME BoundsAssumption == {MaxChanges, MaxByHand, MaxUnits} \subseteq Nat
ASSUME TargetAssumption == Targets \subseteq Items \cup Plain

VARIABLES
    scene,    \* the item trees, as the application has them
    windows,  \* the windows that exist
    active,   \* the active window
    focus,    \* the active focus item of each window
    down,     \* the pointers that are down in a window: "mouse", "touch"
    byHand,   \* those of them that a client put down event by event
    call,     \* the call that is carried out, then what it answers
    pc,       \* "idle", "running", "pumping" (application code runs before
              \* the next step), "answered", "crashed"
    changes   \* how many changes the application has made

sceneVars == <<scene, windows, active, focus, changes>>
vars == <<sceneVars, down, byHand, call, pc>>

NoCall == [method |-> "none", target |-> Nothing, window |-> Nothing, at |-> Nothing,
           todo |-> <<>>, key |-> Nothing, units |-> 0, replace |-> FALSE,
           popups |-> <<>>, open |-> 0, sent |-> 0, ready |-> FALSE,
           delivered |-> FALSE, live |-> FALSE, actionable |-> FALSE]

Init ==
    /\ scene \in InitialScenes
    /\ windows = Windows
    /\ active = Nothing
    /\ focus = [w \in Windows |-> Nothing]
    /\ down = {}
    /\ byHand = {}
    /\ call = NoCall
    /\ pc = "idle"
    /\ changes = 0

-----------------------------------------------------------------------------
(* How a call begins, and what it refuses.                                 *)

(* A refused call has sent nothing and changed nothing.                    *)
Refuse ==
    /\ pc' = "answered"
    /\ UNCHANGED <<sceneVars, down, byHand, call>>

Begin(c) ==
    /\ pc' = "running"
    /\ call' = [c EXCEPT !.ready = active = c.window]
    /\ UNCHANGED <<sceneVars, down, byHand>>

(* resolveNodeRef: the node a client names may be gone, or be no item.     *)
Resolves(n) == n \in scene.live

(* The checks come before anything is sent, and at every point of a touch. *)
CanBeActedOn(n, points) ==
    /\ Resolves(n)
    /\ WindowOf[n] # Nothing
    /\ \A p \in points : Reasons(scene, n, p) = {}

Pointer(method, n, p, todo) ==
    [NoCall EXCEPT !.method = method, !.target = n, !.window = WindowOf[n], !.at = p,
                   !.todo = todo, !.delivered = TRUE]

(* All pointer input is sent in the same way, once its points are known to *)
(* be fit; n \notin Items when the node is no item.                        *)
PointerInput(method, n, points, p, todo) ==
    /\ pc = "idle"
    /\ IF n \in Items /\ CanBeActedOn(n, points)
       THEN Begin(Pointer(method, n, p, todo))
       ELSE Refuse

(* Without a point, input goes to the centre.                              *)
Middle(n) == IF n \in Items THEN Centre(scene, n) ELSE 0

Points(n) == Aims \cup {Middle(n)}

ClickNode(n) == \E p \in Points(n) :
    PointerInput("clickNode", n, {p}, p, <<"activate", "press", "release", "settle">>)

(* The button goes down at once; the window is only activated, in          *)
(* runInputAndSettle, when it is to go up.                                 *)
LongPressNode(n) == \E p \in Points(n) :
    PointerInput("longPressNode", n, {p}, p,
                 <<"press", "hold", "activate", "release", "settle">>)

(* The whole path has to lie in the window, but only its first point has   *)
(* to be free: after the press the pointer is grabbed.                     *)
DragNode(n) == \E p \in Points(n), q \in Aims :
    IF InWindow(q)
    THEN PointerInput("dragNode", n, {p}, p,
                      <<"activate", "press", "move", "move", "release", "settle">>)
    ELSE pc = "idle" /\ Refuse

DispatchMouseEvent(n) == \E p \in Points(n), event \in {"press", "move", "release"} :
    /\ event = "press" => Cardinality(byHand) < MaxByHand
    /\ PointerInput("dispatchMouseEvent", n, {p}, p, <<"activate", event, "settle">>)

(* A touchCancel may come without points, and is then not checked at all.  *)
DispatchTouchEvent(n) ==
    \/ \E p \in Points(n), event \in {"touchBegin", "touchUpdate", "touchEnd"} :
          /\ event = "touchBegin" => Cardinality(byHand) < MaxByHand
          /\ PointerInput("dispatchTouchEvent", n, {p}, p, <<"activate", event, "settle">>)
    \/ /\ pc = "idle"
       /\ IF n \in Items /\ Resolves(n) /\ WindowOf[n] # Nothing
          THEN Begin(Pointer("dispatchTouchEvent", n, Nothing, <<"activate", "touchCancel", "settle">>))
          ELSE Refuse

Wheel(n) ==
    PointerInput("wheel", n, {Middle(n)}, Middle(n), <<"activate", "move", "wheel", "settle">>)

(* Scrolling needs no checks: it is what one does when they fail.          *)
ScrollIntoView(n) ==
    /\ pc = "idle"
    /\ IF n \in Items /\ Resolves(n) /\ WindowOf[n] # Nothing
       THEN Begin(Pointer("scrollIntoView", n, Nothing, <<"activate", "scroll", "settle">>))
       ELSE Refuse

-----------------------------------------------------------------------------
(* Keyboard input, to a node or to whatever has the focus.                 *)

(* keyboardFocusItemFor                                                    *)
KeyItem(i) == IF ContentOf[i] \in Editable THEN ContentOf[i] ELSE i

(* The window that has the focus, or the only one there is.                *)
TargetQuickWindow ==
    IF active \in windows THEN active
    ELSE IF Cardinality(windows) = 1 THEN CHOOSE w \in windows : TRUE ELSE Nothing

Focusing == <<"activate", "focus", "focused">>

FocusNode(n) ==
    /\ pc = "idle"
    /\ IF n \in Items /\ CanBeActedOn(n, {Middle(n)})
       THEN Begin(Pointer("focusNode", n, Nothing, Focusing))
       ELSE Refuse

(* typeText and dispatchKeyEvent: a node is focused first; a window may be *)
(* named as well, and must be the node's.                                  *)
KeyInput(c, n, requested) ==
    /\ pc = "idle"
    /\ LET w == IF n # Nothing THEN IF n \in Items THEN WindowOf[n] ELSE Nothing
                ELSE IF requested # Nothing THEN requested ELSE TargetQuickWindow
           focused == IF n = Nothing THEN <<>> ELSE Focusing
           fits == /\ n # Nothing => n \in Items /\ CanBeActedOn(n, {Middle(n)})
                   /\ requested \in {Nothing, w} /\ requested \in windows \cup {Nothing}
                   /\ w \in windows
       IN  IF fits
           THEN Begin([c EXCEPT !.target = n, !.window = w,
                                !.todo = focused \o <<"activate", "aim", "settle">>])
           ELSE Refuse

TypeText(n) == \E units \in 0 .. MaxUnits, replace \in BOOLEAN, w \in Windows \cup {Nothing} :
    IF units = 0 /\ ~replace
    THEN pc = "idle" /\ Refuse
    ELSE KeyInput([NoCall EXCEPT !.method = "typeText", !.units = units, !.replace = replace,
                                 !.delivered = ~replace], n, w)

(* A keyClick has two events, a keyPress or a keyRelease one.              *)
DispatchKeyEvent(n) == \E events \in 1 .. 2, w \in Windows \cup {Nothing} :
    KeyInput([NoCall EXCEPT !.method = "dispatchKeyEvent", !.units = events,
                            !.delivered = TRUE], n, w)

(* visiblePopupsInScene, in the order of the windows and of childItems().  *)
VisiblePopups ==
    SetToSortSeq({q \in scene.live : Parent[q] \in Overlays /\ Visible(scene, q)},
                 LAMBDA q, r : Birth[q] < Birth[r])

DismissPopup == \E all \in BOOLEAN :
    /\ pc = "idle"
    /\ LET before  == VisiblePopups
           targets == IF all THEN Reverse(before) ELSE <<Last(before)>>
       IN  IF before = <<>>
           THEN Refuse
           ELSE Begin([NoCall EXCEPT !.method = "dismissPopup", !.popups = targets,
                                     !.open = Len(before),
                                     !.todo = <<"close", "wait">>])

-----------------------------------------------------------------------------
(* How a call goes on, step by step.                                       *)

PointerEvents == {"press", "move", "release", "wheel",
                  "touchBegin", "touchUpdate", "touchEnd", "touchCancel"}
KeyEvents     == {"key", "commit", "selectAll"}

InCall    == pc \in {"running", "pumping"}
At(steps) == InCall /\ call.todo # <<>> /\ Head(call.todo) \in steps

Advance(c) == [c EXCEPT !.todo = Tail(@)]

(* Mutants: events that follow a press are sent without looking, or only   *)
(* while the target exists.                                                *)
WatchesOnlyFirst(c) ==
    CASE Head(c.todo) \in (PointerEvents \ {"release"}) \cup {"activate", "aim", "settle"} -> {c.window}
      [] Head(c.todo) \in KeyEvents -> {c.key}
      [] OTHER -> {}

WatchesTarget(c) ==
    CASE Head(c.todo) \in PointerEvents -> {c.window, c.target}
      [] Head(c.todo) \in {"activate", "aim", "settle"} -> {c.window}
      [] Head(c.todo) \in KeyEvents -> {c.key}
      [] OTHER -> {}

(* Before most steps the window is looked at, through a pointer that is    *)
(* cleared when it is destroyed; and before keys are sent, their receiver. *)
Watches(c) ==
    CASE Head(c.todo) \in PointerEvents \cup {"activate", "aim", "settle"} -> {c.window}
      [] Head(c.todo) \in KeyEvents -> {c.key}
      [] OTHER -> {}

Exist(objects) == objects \subseteq scene.live \cup windows

(* The objects a step uses. What it does not watch it has by a plain       *)
(* pointer, and if application code has destroyed it, what happens is      *)
(* undefined: a crash, or the step has no effect.                          *)
Uses(c) ==
    LET keyItem == IF c.target = Nothing THEN {} ELSE {KeyItem(c.target)}
    IN  IF c.todo = <<>>
        THEN CASE c.method = "scrollIntoView" -> {c.target}
               [] c.method = "typeText" -> {IF c.target # Nothing THEN c.target ELSE c.window}
               [] c.method = "dispatchKeyEvent" -> {c.window}
               [] OTHER -> {}
        ELSE CASE Head(c.todo) \in PointerEvents \cup {"activate"} -> {c.window}
               [] Head(c.todo) \in KeyEvents -> {c.key}
               [] Head(c.todo) = "aim" -> {c.window} \cup keyItem
               [] Head(c.todo) \in {"focus", "focused"} -> keyItem
               [] Head(c.todo) = "scroll" -> {c.target}
               [] Head(c.todo) = "close" -> {Head(c.popups)}
               [] OTHER -> {}

Intact(c) == Exist(Watches(c) \cup Uses(c))

(* prepareWindowForInput: only a window that is not active is activated,   *)
(* and then events are processed.                                          *)
Activate ==
    /\ At({"activate"}) /\ Intact(call)
    /\ call' = Advance(call)
    /\ IF active = call.window
       THEN pc' = "running" /\ UNCHANGED active
       ELSE active' \in {active, call.window} /\ pc' = "pumping"
    /\ UNCHANGED <<scene, windows, focus, changes, down, byHand>>

Pressed(pointers, w, event) ==
    CASE event = "press"                       -> pointers \cup {<<w, "mouse">>}
      [] event = "release"                     -> pointers \ {<<w, "mouse">>}
      [] event = "touchBegin"                  -> pointers \cup {<<w, "touch">>}
      [] event \in {"touchEnd", "touchCancel"} -> pointers \ {<<w, "touch">>}
      [] OTHER                                 -> pointers

(* The event is delivered and its handlers run before the next one is sent. *)
SendPointerEvent ==
    /\ At(PointerEvents) /\ Intact(call)
    /\ down' = Pressed(down, call.window, Head(call.todo))
    /\ byHand' = IF call.method \in {"dispatchMouseEvent", "dispatchTouchEvent"}
                 THEN Pressed(byHand, call.window, Head(call.todo))
                 ELSE byHand \cap down'
    /\ call' = [Advance(call) EXCEPT !.sent = @ + 1]
    /\ pc' = "pumping"
    /\ UNCHANGED sceneVars

(* The loops of hold, settle and popup closing: until their timer fires or, *)
(* in the second, a frame is swapped.                                      *)
Loop ==
    /\ At({"hold", "settle", "wait"})
    /\ Exist(Watches(call))
    /\ call' = Advance(call)
    /\ pc' = "pumping"
    /\ UNCHANGED <<sceneVars, down, byHand>>

(* If it is gone, nothing more is sent, and without a window there is      *)
(* nothing to wait for.                                                    *)
StopSending ==
    /\ InCall /\ call.todo # <<>> /\ ~Exist(Watches(call))
    /\ call' = [call EXCEPT !.todo = IF call.window \in windows THEN <<"settle">> ELSE <<>>]
    /\ pc' = "running"
    /\ UNCHANGED <<sceneVars, down, byHand>>

(* Each flickable around an item, the nearest first, is moved so that the  *)
(* item comes to its middle, as far as its content reaches.                *)
Length(box, i) == box[i][2] - box[i][1] + 1

Shifted(box, i, by) ==
    [j \in Items |-> IF j \in Subtree(i) THEN <<box[j][1] + by, box[j][2] + by>> ELSE box[j]]

Bound(low, x, high) == IF x < low THEN low ELSE IF x > high THEN high ELSE x

ScrolledTo(item, box, f) ==
    LET content == ContentOf[f]
        inside  == box[item][1] - box[content][1]
        slack   == Length(box, content) - Length(box, f)
        to      == Bound(0, inside - (Length(box, f) - Length(box, item)) \div 2, slack)
    IN  IF slack > 0
        THEN Shifted(box, content, box[f][1] - to - box[content][1])
        ELSE box

(* From the item up: what has been moved when an ancestor has been passed. *)
ScrolledBoxes(item) ==
    LET line     == Ancestors[item] \cup {item}
        Below(i) == CHOOSE c \in line : Parent[c] = i
        moved[i \in line] ==
            IF i = item THEN scene.box
            ELSE IF i \in Flickables THEN ScrolledTo(item, moved[Below(i)], i)
            ELSE moved[Below(i)]
    IN  moved[CHOOSE i \in line : Parent[i] = Nothing]

Scroll ==
    /\ At({"scroll"}) /\ Intact(call)
    /\ scene' = [scene EXCEPT !.box = ScrolledBoxes(call.target)]
    /\ call' = Advance(call)
    /\ pc' = "pumping"
    /\ UNCHANGED <<windows, active, focus, changes, down, byHand>>

(* One popup after the other is closed.                                    *)
NextPopup(c) == [c EXCEPT !.popups = Tail(@), !.todo = IF Len(c.popups) = 1 THEN Tail(@) ELSE @]

(* close() is asked of it; it may stay visible through its exit transition, *)
(* or for good.                                                            *)
ClosePopup ==
    /\ At({"close"}) /\ Intact(call)
    /\ \E shown \in {scene.shown, scene.shown \ {Head(call.popups)}} :
          scene' = [scene EXCEPT !.shown = shown]
    /\ call' = NextPopup(call)
    /\ pc' = "pumping"
    /\ UNCHANGED <<windows, active, focus, changes, down, byHand>>

-----------------------------------------------------------------------------
(* Keys.                                                                   *)

(* The item is focused, and its focus handlers run.                        *)
Focus ==
    /\ At({"focus"}) /\ Intact(call)
    /\ focus' = [focus EXCEPT ![call.window] = KeyItem(call.target)]
    /\ call' = Advance(call)
    /\ pc' = "pumping"
    /\ UNCHANGED <<scene, windows, active, changes, down, byHand>>

Rejected(c) == [c EXCEPT !.todo = <<>>, !.delivered = FALSE]

(* The item has kept the focus, in the window or at least in its scope. To *)
(* type, nothing else may have the focus of the window.                    *)
Focused ==
    /\ At({"focused"}) /\ Intact(call)
    /\ LET has  == focus[call.window] = KeyItem(call.target)
           type == /\ call.target \notin ReadOnly
                   /\ focus[call.window] \in Subtree(call.target) \cup {Nothing}
       IN  \/ ~has /\ call' = Rejected(call)
           \/ call' = IF call.method = "typeText" /\ ~type THEN Rejected(call) ELSE Advance(call)
    /\ pc' = "running"
    /\ UNCHANGED <<sceneVars, down, byHand>>

(* What is sent to the receiver of the keys: for text, first select all or *)
(* move to the end; then text is committed to what can be edited, and      *)
(* typed key by key to everything else.                                    *)
KeysFor(c, key) ==
    LET Times(n, event) == [k \in 1 .. n |-> event]
        setup == IF c.replace THEN <<"selectAll">>
                 ELSE IF c.target # Nothing /\ key \in Editable THEN Times(2, "key") ELSE <<>>
        text  == IF c.replace /\ c.units = 0 THEN Times(2, "key")
                 ELSE IF key \in Editable THEN Times(c.units, "commit")
                 ELSE Times(2 * c.units, "key")
    IN  IF c.method = "typeText" THEN setup \o text ELSE Times(c.units, "key")

(* The focus may have moved since: what is inside the target is taken, the *)
(* rest is not. Without a target the focus decides, or else the window.    *)
Receives(c, focused) ==
    LET within == IF c.method = "typeText" THEN c.target ELSE KeyItem(c.target)
    IN  IF c.target # Nothing
        THEN IF focused # Nothing /\ focused \in Subtree(within) THEN focused ELSE KeyItem(c.target)
        ELSE IF focused # Nothing THEN focused ELSE c.window

AimKeys ==
    /\ At({"aim"}) /\ Intact(call)
    /\ LET key == Receives(call, focus[call.window])
       IN  call' = [call EXCEPT !.key = key, !.todo = KeysFor(call, key) \o Tail(@)]
    /\ pc' = "running"
    /\ UNCHANGED <<sceneVars, down, byHand>>

(* It is the focus item, if there is one, in which all is selected. If it  *)
(* cannot, nothing is typed.                                               *)
SelectAll ==
    /\ At({"selectAll"}) /\ Intact(call)
    /\ LET f == focus[call.window]
           selection == IF f # Nothing THEN f ELSE call.key
       IN  IF selection \in Editable
           THEN call' = [Advance(call) EXCEPT !.delivered = TRUE] /\ pc' = "pumping"
           ELSE call' = [call EXCEPT !.todo = <<"settle">>] /\ pc' = "running"
    /\ UNCHANGED <<sceneVars, down, byHand>>

SendKey ==
    /\ At({"key", "commit"}) /\ Intact(call)
    /\ call' = [Advance(call) EXCEPT !.sent = @ + 1]
    /\ pc' = "pumping"
    /\ UNCHANGED <<sceneVars, down, byHand>>

-----------------------------------------------------------------------------
(* The end of a call.                                                      *)

(* The last point of the input: that of a drag is the end of its path,     *)
(* which is chosen here since nothing before depends on it.                *)
LastPoints(c) == IF c.method = "dragNode" THEN {q \in Aims : InWindow(q)} ELSE {c.at}

(* postDispatchTargetState: the target is looked up again, and checked at  *)
(* that point, or at its centre if it has moved away from it or there was  *)
(* none.                                                                   *)
PostDispatch(c, last) ==
    LET p == IF last # Nothing /\ InBox(scene, c.target, last) THEN last ELSE Middle(c.target)
    IN  [NoCall EXCEPT !.delivered  = IF c.method = "dismissPopup" THEN Len(VisiblePopups) < c.open
                                      ELSE c.delivered,
                       !.live       = c.target \in scene.live,
                       !.actionable = /\ c.target \in scene.live
                                      /\ Reasons(scene, c.target, p) = {}]

Answer ==
    /\ InCall /\ call.todo = <<>>
    /\ \E last \in LastPoints(call) : call' = PostDispatch(call, last)
    /\ pc' = "answered"
    /\ UNCHANGED <<sceneVars, down, byHand>>

Return ==
    /\ pc = "answered" /\ pc' = "idle"
    /\ call' = NoCall
    /\ UNCHANGED <<sceneVars, down, byHand>>

UseOfDestroyed ==
    /\ InCall /\ ~Exist(Uses(call))
    /\ call.todo # <<>> => Exist(Watches(call))
    /\ \/ pc' = "crashed" /\ UNCHANGED call
       \/ /\ At({"focus", "focused"})
          /\ call' = Rejected(call) /\ pc' = "running"
       \/ /\ At({"scroll", "aim", "close"})
          /\ call' = IF At({"close"}) THEN NextPopup(call) ELSE Advance(call)
          /\ pc' = "running"
    /\ UNCHANGED <<sceneVars, down, byHand>>

-----------------------------------------------------------------------------
(* The application, between calls and inside them.                         *)

Toggle(set, i) == IF i \in set THEN set \ {i} ELSE set \cup {i}

ChangesItem ==
    /\ \E i \in scene.live :
          \/ i \in Changing.shown   /\ scene' = [scene EXCEPT !.shown = Toggle(@, i)]
          \/ i \in Changing.enabled /\ scene' = [scene EXCEPT !.enabled = Toggle(@, i)]
          \/ i \in Changing.opaque  /\ scene' = [scene EXCEPT !.opaque = Toggle(@, i)]
          \/ i \in Changing.z       /\ scene' = [scene EXCEPT !.z[i] = 1 - @]
          \/ i \in Changing.box     /\ scene' = [scene EXCEPT !.box = Shifted(@, i, 1)]
    /\ UNCHANGED <<windows, active, focus>>

(* Mutant: the focus stays with an item that is gone.                      *)
DestroysButFocus(items) ==
    scene' = [scene EXCEPT !.live = @ \ items] /\ UNCHANGED focus

Destroys(items) ==
    /\ scene' = [scene EXCEPT !.live = @ \ items]
    /\ focus' = [w \in Windows |-> IF focus[w] \in items THEN Nothing ELSE focus[w]]

DestroysItem == \E i \in Changing.live \cap scene.live :
    /\ Destroys(Subtree(i))
    /\ UNCHANGED <<windows, active, down, byHand>>

DestroysWindow == \E w \in Changing.windows \cap windows :
    /\ Destroys(Subtree(Content[w]))
    /\ windows' = windows \ {w}
    /\ active' = IF active = w THEN Nothing ELSE active
    /\ down' = {d \in down : d[1] # w}
    /\ byHand' = {d \in byHand : d[1] # w}

MovesFocus ==
    \/ /\ \E i \in Changing.focus \cap scene.live : focus' = [focus EXCEPT ![WindowOf[i]] = i]
       /\ UNCHANGED active
    \/ active' \in windows /\ UNCHANGED focus

Application ==
    /\ pc \in {"idle", "pumping"}
    /\ changes < MaxChanges
    /\ changes' = changes + 1
    /\ \/ ChangesItem /\ UNCHANGED <<down, byHand>>
       \/ DestroysItem
       \/ DestroysWindow
       \/ MovesFocus /\ UNCHANGED <<scene, windows, down, byHand>>
    /\ UNCHANGED <<call, pc>>

-----------------------------------------------------------------------------
Request ==
    \/ \E n \in Targets :
          \/ ClickNode(n) \/ LongPressNode(n) \/ DragNode(n) \/ Wheel(n)
          \/ DispatchMouseEvent(n) \/ DispatchTouchEvent(n)
          \/ ScrollIntoView(n) \/ FocusNode(n)
    \/ \E n \in Targets \cup {Nothing} : TypeText(n) \/ DispatchKeyEvent(n)
    \/ DismissPopup

CarryOut ==
    \/ Activate \/ SendPointerEvent \/ Loop \/ StopSending
    \/ Scroll \/ ClosePopup
    \/ Focus \/ Focused \/ AimKeys \/ SelectAll \/ SendKey
    \/ UseOfDestroyed \/ Answer \/ Return

Next == Request \/ CarryOut \/ Application

Spec == Init /\ [][Next]_vars

-----------------------------------------------------------------------------
(* The focus, the pointers that are down and the active window are of      *)
(* objects that exist: Qt drops what a destroyed one had.                  *)
TypeOK ==
    /\ scene \in Scenes
    /\ windows \subseteq Windows
    /\ active \in windows \cup {Nothing}
    /\ focus \in [Windows -> scene.live \cup {Nothing}]
    /\ byHand \subseteq down /\ down \subseteq windows \X {"mouse", "touch"}
    /\ pc \in {"idle", "running", "pumping", "answered", "crashed"}
    /\ call.target \in Items \cup {Nothing} /\ call.window \in Windows \cup {Nothing}
    /\ call.key \in Items \cup Windows \cup {Nothing}
    /\ changes \in 0 .. MaxChanges

(* "Actionability is checked before dispatch": the first event of a        *)
(* gesture never goes to another item that covers the target, as long as   *)
(* the window was active, so that nothing ran between check and event. The *)
(* target's own click area may take it. (Not so for an item in a modal     *)
(* popup, for which no blocker is looked for, nor if what covers the       *)
(* target has opacity 0, which a check does not count and Qt does.)        *)
CoveringItemIsNotPressed ==
    /\ At({"press", "touchBegin"}) /\ call.sent = 0
    /\ call.ready \/ call.method = "longPressNode"
    /\ ~InModalPopup(scene, call.target)
    => LET r == Receiver(scene, call.window, call.at)
       IN  r # Nothing /\ r \in scene.opaque /\ Above(scene, r, call.target) =>
               r \in Subtree(call.target) \/ OwnClickArea(scene, r, call.target)

(* Whatever the application destroys on the way, between two calls no      *)
(* pointer is down in a window but one the client itself has put down:     *)
(* every gesture that began also ended.                                    *)
NothingStaysPressed == pc = "idle" => down = byHand

(* A gesture of the pointer only uses the window it watches: no object the *)
(* application destroys meanwhile makes it crash. Only scrolling, keys and *)
(* the closing of popups hold on to what they found.                       *)
GesturesSurviveDestruction ==
    pc = "crashed" => call.method \in {"scrollIntoView", "focusNode", "typeText",
                                       "dispatchKeyEvent", "dismissPopup"}
=============================================================================
