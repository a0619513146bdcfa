---------------------------- MODULE InputProofs ----------------------------
(***************************************************************************)
(* Proofs about Input, for every scene, every set of targets and every     *)
(* change the application may make: the types, between two calls no        *)
(* pointer is down that the client has not put down itself, a gesture      *)
(* never touches a destroyed object, and its first event goes to no item   *)
(* that covers the target, because the walk of the check finds every item  *)
(* that could take it before its target.                                   *)
(***************************************************************************)
EXTENDS Input, FiniteSetTheorems, TLAPS

(* The fields of a call and of a scene.                                    *)
CallFields == DOMAIN NoCall

SceneFields == {"live", "shown", "enabled", "opaque", "z", "box"}

Gestures == {"clickNode", "longPressNode", "dragNode"}
ByHand   == {"dispatchMouseEvent", "dispatchTouchEvent"}
Methods  == Gestures \cup ByHand \cup {"wheel", "scrollIntoView", "focusNode", "typeText",
                                       "dispatchKeyEvent", "dismissPopup"}

(* The steps a call of a method may consist of.                            *)
StepsOf(method) ==
    CASE method \in Gestures -> {"activate", "press", "hold", "move", "release", "settle"}
      [] method \in ByHand   -> (PointerEvents \ {"wheel"}) \cup {"activate", "settle"}
      [] method = "wheel"    -> {"activate", "move", "wheel", "settle"}
      [] method = "scrollIntoView" -> {"activate", "scroll", "settle"}
      [] method = "dismissPopup"   -> {"close", "wait", "settle"}
      [] method \in {"focusNode", "typeText", "dispatchKeyEvent"} ->
            KeyEvents \cup {"activate", "focus", "focused", "aim", "settle"}

(* A call that is carried out: what it has still to do are steps of its    *)
(* method, in a window of the application.                                 *)
CallInv ==
    InCall =>
        /\ call.method \in Methods
        /\ call.window \in Windows \cup {Nothing}
        /\ call.todo \in Seq(StepsOf(call.method))
        /\ call.method \in Gestures \cup ByHand \cup {"wheel"} => call.window \in Windows

(* A gesture that presses releases later.                                  *)
Released(todo) ==
    \A i \in 1..Len(todo) : todo[i] = "press" =>
        \E j \in (i + 1)..Len(todo) : todo[j] = "release"

(* A release is still to come.                                             *)
Releases(todo) == \E i \in 1..Len(todo) : todo[i] = "release"

GestureInv == InCall /\ call.method \in Gestures => Released(call.todo)

(* What is down is down in a window that exists. What the client has not   *)
(* put down itself is the button of the gesture that is carried out, which *)
(* has still to release it.                                                *)
DownInv ==
    /\ byHand \subseteq down /\ down \subseteq windows \X {"mouse", "touch"}
    /\ down # byHand /\ pc # "crashed" =>
          /\ InCall /\ call.method \in Gestures
          /\ down \ byHand \subseteq {<<call.window, "mouse">>}
          /\ Releases(call.todo)

Shapes ==
    /\ DOMAIN call = CallFields /\ call.units \in Nat
    /\ DOMAIN scene = SceneFields
    /\ scene.live \subseteq Items
    /\ windows \subseteq Windows
    /\ pc \in {"idle", "running", "pumping", "answered", "crashed"}

IInv ==
    /\ Shapes
    /\ CallInv
    /\ GestureInv
    /\ DownInv
    /\ GesturesSurviveDestruction

-----------------------------------------------------------------------------
(* The fields of records that are changed in some of their fields.         *)

(* The fields of a new call.                                               *)
LEMMA NoCallFields ==
    CallFields = {"method", "target", "window", "at", "todo", "key", "units", "replace",
                  "popups", "open", "sent", "ready", "delivered", "live", "actionable"}
BY DEF CallFields, NoCall

(* A step is taken off what a call has to do.                              *)
LEMMA AdvanceFields ==
    ASSUME NEW c, DOMAIN c = CallFields
    PROVE  /\ DOMAIN Advance(c) = CallFields
           /\ Advance(c).todo = Tail(c.todo)
           /\ Advance(c).method = c.method /\ Advance(c).window = c.window
           /\ Advance(c).units = c.units
           /\ \A sent : /\ DOMAIN [Advance(c) EXCEPT !.sent = sent] = CallFields
                        /\ [Advance(c) EXCEPT !.sent = sent].todo = Tail(c.todo)
                        /\ [Advance(c) EXCEPT !.sent = sent].method = c.method
                        /\ [Advance(c) EXCEPT !.sent = sent].window = c.window
                        /\ [Advance(c) EXCEPT !.sent = sent].units = c.units
BY NoCallFields DEF Advance

(* What a call has to do is replaced.                                      *)
LEMMA TodoFields ==
    ASSUME NEW c, DOMAIN c = CallFields, NEW todo
    PROVE  LET d == [c EXCEPT !.todo = todo] IN
           /\ DOMAIN d = CallFields
           /\ d.todo = todo /\ d.method = c.method /\ d.window = c.window /\ d.units = c.units
BY NoCallFields

(* The first of the steps, and the others.                                 *)
LEMMA Stepping ==
    ASSUME NEW S, NEW s \in Seq(S), s # <<>>
    PROVE  /\ Head(s) \in S /\ Head(s) = s[1] /\ Tail(s) \in Seq(S)
           /\ Len(s) \in Nat \ {0} /\ Len(Tail(s)) = Len(s) - 1
           /\ \A i \in 1..Len(Tail(s)) : Tail(s)[i] = s[i + 1]
           /\ \A i \in 2..Len(s) : i - 1 \in 1..Len(Tail(s)) /\ Tail(s)[i - 1] = s[i]
OBVIOUS

-----------------------------------------------------------------------------
(* How a call begins.                                                      *)

(* The invariant holds before the first call.                              *)
LEMMA InitIInv == Init => IInv
<1> SUFFICES ASSUME Init PROVE IInv
  OBVIOUS
<1>1. scene \in Scenes
  BY ScenesAssumption DEF Init
<1>2. Shapes
  BY <1>1 DEF Init, NoCall, Shapes, CallFields, SceneFields, Scenes
<1> QED
  BY <1>2
     DEF Init, IInv, CallInv, GestureInv, DownInv, InCall, GesturesSurviveDestruction

(* Between two calls no button of a gesture is down.                       *)
LEMMA IdleIsReleased == IInv /\ pc \in {"idle", "answered"} => down = byHand
BY DEF IInv, DownInv, InCall

(* A call that is refused leaves everything as it was.                     *)
LEMMA RefuseIInv == IInv /\ pc = "idle" /\ Refuse => IInv'
<1> SUFFICES ASSUME IInv, pc = "idle", Refuse PROVE IInv'
  OBVIOUS
<1> QED
  BY IdleIsReleased
     DEF Refuse, sceneVars, IInv, Shapes, CallInv, GestureInv, DownInv, InCall,
         GesturesSurviveDestruction

(* A call that begins has the steps of its method before it.               *)
LEMMA BeginIInv ==
    ASSUME IInv, pc = "idle", NEW c, Begin(c), DOMAIN c = CallFields,
           c.units \in Nat, c.method \in Methods, c.todo \in Seq(StepsOf(c.method)),
           c.window \in Windows \cup {Nothing},
           c.method \in Gestures \cup ByHand \cup {"wheel"} => c.window \in Windows,
           c.method \in Gestures => Released(c.todo)
    PROVE  IInv'
<1>1. /\ DOMAIN call' = CallFields /\ call'.todo = c.todo /\ call'.method = c.method
      /\ call'.window = c.window /\ call'.units = c.units
  BY NoCallFields DEF Begin
<1>2. pc' = "running" /\ UNCHANGED <<scene, windows, down, byHand>> /\ down = byHand
  BY IdleIsReleased DEF Begin, sceneVars
<1>3. Shapes'
  BY <1>1, <1>2 DEF IInv, Shapes
<1>4. CallInv' /\ GestureInv'
  BY <1>1, <1>2 DEF CallInv, GestureInv, InCall
<1>5. DownInv' /\ GesturesSurviveDestruction'
  BY <1>2 DEF IInv, DownInv, GesturesSurviveDestruction
<1> QED
  BY <1>3, <1>4, <1>5 DEF IInv

(* The window of an item is one of the application's.                      *)
LEMMA WindowOfItem == \A i \in Items : WindowOf[i] \in Windows \cup {Nothing}
BY DEF WindowOf

(* Pointer input to a node.                                                *)
LEMMA PointerFields ==
    ASSUME NEW method, NEW n, NEW p, NEW todo
    PROVE  LET c == Pointer(method, n, p, todo) IN
           /\ DOMAIN c = CallFields /\ c.method = method /\ c.todo = todo
           /\ c.window = WindowOf[n] /\ c.units \in Nat
BY DEF Pointer, NoCall, CallFields

(* Pointer input is refused, or begins with the steps of its method.       *)
LEMMA PointerInputIInv ==
    ASSUME IInv, NEW method \in Methods, NEW n, NEW points, NEW p,
           NEW todo \in Seq(StepsOf(method)), PointerInput(method, n, points, p, todo),
           method \in Gestures => Released(todo)
    PROVE  IInv'
<1>1. CASE n \in Items /\ CanBeActedOn(n, points)
  <2> DEFINE c == Pointer(method, n, p, todo)
  <2>1. /\ DOMAIN c = CallFields /\ c.method = method /\ c.todo = todo
        /\ c.window = WindowOf[n] /\ c.units \in Nat
    BY PointerFields
  <2>2. WindowOf[n] \in Windows
    BY <1>1, WindowOfItem DEF CanBeActedOn
  <2>3. pc = "idle" /\ Begin(c)
    BY <1>1 DEF PointerInput
  <2> HIDE DEF c
  <2> QED
    BY <2>1, <2>2, <2>3, BeginIInv
<1>2. CASE ~(n \in Items /\ CanBeActedOn(n, points))
  BY <1>2, RefuseIInv DEF PointerInput
<1> QED
  BY <1>1, <1>2

(* The gestures, each with its steps: a press is followed by a release.    *)
LEMMA GestureCallsIInv ==
    ASSUME IInv, NEW n \in Targets, ClickNode(n) \/ LongPressNode(n) \/ DragNode(n)
    PROVE  IInv'
<1> DEFINE click == <<"activate", "press", "release", "settle">>
           long  == <<"press", "hold", "activate", "release", "settle">>
           drag  == <<"activate", "press", "move", "move", "release", "settle">>
           steps == {"activate", "press", "hold", "move", "release", "settle"}
<1>1. \A method \in Gestures : method \in Methods /\ StepsOf(method) = steps
  BY DEF Gestures, ByHand, Methods, StepsOf
<1>2. click \in Seq(steps) /\ long \in Seq(steps) /\ drag \in Seq(steps)
  OBVIOUS
<1>3. Released(click) /\ Released(long) /\ Released(drag)
  BY DEF Released
<1> HIDE DEF click, long, drag, steps
<1>4. CASE ClickNode(n)
  <2>1. PICK p \in Points(n) : PointerInput("clickNode", n, {p}, p, click)
    BY <1>4 DEF ClickNode, click
  <2>2. "clickNode" \in Gestures
    BY DEF Gestures
  <2> QED
    BY <1>1, <1>2, <1>3, <2>1, <2>2, PointerInputIInv
<1>5. CASE LongPressNode(n)
  <2>1. PICK p \in Points(n) : PointerInput("longPressNode", n, {p}, p, long)
    BY <1>5 DEF LongPressNode, long
  <2>2. "longPressNode" \in Gestures
    BY DEF Gestures
  <2> QED
    BY <1>1, <1>2, <1>3, <2>1, <2>2, PointerInputIInv
<1>6. CASE DragNode(n)
  <2>1. \/ pc = "idle" /\ Refuse
        \/ \E p \in Points(n) : PointerInput("dragNode", n, {p}, p, drag)
    BY <1>6 DEF DragNode, drag
  <2>2. "dragNode" \in Gestures
    BY DEF Gestures
  <2> QED
    BY <1>1, <1>2, <1>3, <2>1, <2>2, PointerInputIInv, RefuseIInv
<1> QED
  BY <1>4, <1>5, <1>6

(* The events a client sends one by one, and the wheel.                    *)
LEMMA ByHandCallsIInv ==
    ASSUME IInv, NEW n \in Targets, DispatchMouseEvent(n) \/ DispatchTouchEvent(n) \/ Wheel(n)
    PROVE  IInv'
<1>1. \A method \in ByHand : /\ method \in Methods \ Gestures
                             /\ StepsOf(method) = (PointerEvents \ {"wheel"}) \cup {"activate", "settle"}
  BY DEF ByHand, Methods, StepsOf, Gestures
<1>2. ASSUME NEW event \in PointerEvents \ {"wheel"}
      PROVE  <<"activate", event, "settle">> \in Seq((PointerEvents \ {"wheel"}) \cup {"activate", "settle"})
  OBVIOUS
<1>3. {"press", "move", "release", "touchBegin", "touchUpdate", "touchEnd", "touchCancel"}
         \subseteq PointerEvents \ {"wheel"}
  BY DEF PointerEvents
<1>4. "dispatchMouseEvent" \in ByHand /\ "dispatchTouchEvent" \in ByHand
  BY DEF ByHand
<1>5. CASE DispatchMouseEvent(n)
  <2>1. PICK p \in Points(n), event \in {"press", "move", "release"} :
           PointerInput("dispatchMouseEvent", n, {p}, p, <<"activate", event, "settle">>)
    BY <1>5 DEF DispatchMouseEvent
  <2> QED
    BY <1>1, <1>2, <1>3, <1>4, <2>1, PointerInputIInv
<1>6. CASE Wheel(n)
  <2>1. /\ "wheel" \in Methods \ Gestures
        /\ <<"activate", "move", "wheel", "settle">> \in Seq(StepsOf("wheel"))
    BY DEF Methods, Gestures, StepsOf, ByHand
  <2> QED
    BY <1>6, <2>1, PointerInputIInv DEF Wheel
<1>7. CASE DispatchTouchEvent(n)
  <2>1. CASE \E p \in Points(n), event \in {"touchBegin", "touchUpdate", "touchEnd"} :
                PointerInput("dispatchTouchEvent", n, {p}, p, <<"activate", event, "settle">>)
    BY <1>1, <1>2, <1>3, <1>4, <2>1, PointerInputIInv
  <2>2. CASE pc = "idle" /\ Refuse
    BY <2>2, RefuseIInv
  <2>3. CASE /\ pc = "idle" /\ n \in Items /\ WindowOf[n] # Nothing
             /\ Begin(Pointer("dispatchTouchEvent", n, Nothing, <<"activate", "touchCancel", "settle">>))
    <3> DEFINE todo == <<"activate", "touchCancel", "settle">>
               c == Pointer("dispatchTouchEvent", n, Nothing, todo)
    <3>1. todo \in Seq(StepsOf("dispatchTouchEvent"))
      BY <1>1, <1>2, <1>3, <1>4
    <3> HIDE DEF todo
    <3>2. /\ DOMAIN c = CallFields /\ c.method = "dispatchTouchEvent" /\ c.todo = todo
          /\ c.window = WindowOf[n] /\ c.units \in Nat
      BY PointerFields
    <3>3. pc = "idle" /\ Begin(c) /\ WindowOf[n] \in Windows
      BY <2>3, WindowOfItem DEF todo
    <3> HIDE DEF c
    <3> QED
      BY <1>1, <1>4, <3>1, <3>2, <3>3, BeginIInv
  <2> QED
    BY <1>7, <2>1, <2>2, <2>3 DEF DispatchTouchEvent
<1> QED
  BY <1>5, <1>6, <1>7

(* Scrolling an item into view.                                            *)
LEMMA ScrollCallIInv == ASSUME IInv, NEW n \in Targets, ScrollIntoView(n) PROVE IInv'
<1>1. CASE Refuse /\ pc = "idle"
  BY <1>1, RefuseIInv
<1>2. CASE /\ pc = "idle" /\ n \in Items /\ WindowOf[n] # Nothing
           /\ Begin(Pointer("scrollIntoView", n, Nothing, <<"activate", "scroll", "settle">>))
  <2> DEFINE todo == <<"activate", "scroll", "settle">>
             c == Pointer("scrollIntoView", n, Nothing, todo)
  <2>1. todo \in Seq(StepsOf("scrollIntoView")) /\ "scrollIntoView" \in Methods \ Gestures
    BY DEF StepsOf, Gestures, ByHand, Methods
  <2> HIDE DEF todo
  <2>2. /\ DOMAIN c = CallFields /\ c.method = "scrollIntoView" /\ c.todo = todo
        /\ c.window = WindowOf[n] /\ c.units \in Nat
    BY PointerFields
  <2>3. Begin(c) /\ WindowOf[n] \in Windows
    BY <1>2, WindowOfItem DEF todo
  <2> HIDE DEF c
  <2> QED
    BY <1>2, <2>1, <2>2, <2>3, BeginIInv
<1> QED
  BY <1>1, <1>2 DEF ScrollIntoView

(* The steps of keyboard input.                                            *)
KeySteps == KeyEvents \cup {"activate", "focus", "focused", "aim", "settle"}

(* They are those of its three methods.                                    *)
LEMMA KeyStepsOf ==
    ASSUME NEW method \in {"focusNode", "typeText", "dispatchKeyEvent"}
    PROVE  method \in Methods \ (Gestures \cup ByHand \cup {"wheel"}) /\ StepsOf(method) = KeySteps
BY DEF Methods, Gestures, ByHand, StepsOf, KeySteps

(* Focusing an item.                                                       *)
LEMMA FocusCallIInv == ASSUME IInv, NEW n \in Targets, FocusNode(n) PROVE IInv'
<1>1. CASE Refuse /\ pc = "idle"
  BY <1>1, RefuseIInv
<1>2. CASE pc = "idle" /\ n \in Items /\ Begin(Pointer("focusNode", n, Nothing, Focusing))
  <2> DEFINE c == Pointer("focusNode", n, Nothing, Focusing)
  <2>1. Focusing \in Seq(StepsOf("focusNode"))
    BY KeyStepsOf DEF Focusing, KeySteps
  <2>2. /\ DOMAIN c = CallFields /\ c.method = "focusNode" /\ c.todo = Focusing
        /\ c.window = WindowOf[n] /\ c.units \in Nat
    BY PointerFields
  <2>3. Begin(c) /\ WindowOf[n] \in Windows \cup {Nothing}
    BY <1>2, WindowOfItem
  <2> HIDE DEF c
  <2> QED
    BY <1>2, <2>1, <2>2, <2>3, KeyStepsOf, BeginIInv
<1> QED
  BY <1>1, <1>2 DEF FocusNode

(* Keys for an item are preceded by focusing it.                           *)
LEMMA KeyInputIInv ==
    ASSUME IInv, NEW c, NEW n, NEW requested, KeyInput(c, n, requested),
           DOMAIN c = CallFields, c.units \in Nat, c.method \in {"typeText", "dispatchKeyEvent"}
    PROVE  IInv'
<1>1. CASE Refuse /\ pc = "idle"
  BY <1>1, RefuseIInv
<1>2. CASE pc = "idle" /\ ~Refuse
  <2>1. PICK w \in windows, focused \in {<<>>, Focusing} :
           Begin([c EXCEPT !.target = n, !.window = w,
                           !.todo = focused \o <<"activate", "aim", "settle">>])
    BY <1>2 DEF KeyInput
  <2> DEFINE todo == focused \o <<"activate", "aim", "settle">>
             d == [c EXCEPT !.target = n, !.window = w, !.todo = todo]
  <2>2. todo \in Seq(KeySteps)
    <3>1. <<>> \in Seq(KeySteps) /\ Focusing \in Seq(KeySteps)
          /\ <<"activate", "aim", "settle">> \in Seq(KeySteps)
      BY DEF Focusing, KeySteps
    <3>2. focused \in Seq(KeySteps)
      BY <3>1
    <3> QED
      BY <3>1, <3>2
  <2> HIDE DEF todo
  <2>3. /\ DOMAIN d = CallFields /\ d.method = c.method /\ d.todo = todo /\ d.window = w
        /\ d.units = c.units
    BY NoCallFields
  <2>4. Begin(d)
    BY <2>1 DEF todo
  <2>5. w \in Windows
    BY DEF IInv, Shapes
  <2> HIDE DEF d
  <2> QED
    BY <1>2, <2>2, <2>3, <2>4, <2>5, KeyStepsOf, BeginIInv
<1> QED
  BY <1>1, <1>2 DEF KeyInput

(* The calls that send keys.                                               *)
LEMMA KeyCallsIInv ==
    ASSUME IInv, NEW n \in Targets \cup {Nothing}, TypeText(n) \/ DispatchKeyEvent(n)
    PROVE  IInv'
<1>1. CASE TypeText(n)
  <2>1. PICK units \in 0..MaxUnits, replace \in BOOLEAN, w \in Windows \cup {Nothing} :
           IF units = 0 /\ ~replace
           THEN pc = "idle" /\ Refuse
           ELSE KeyInput([NoCall EXCEPT !.method = "typeText", !.units = units, !.replace = replace,
                                        !.delivered = ~replace], n, w)
    BY Zenon, <1>1 DEF TypeText
  <2> DEFINE c == [NoCall EXCEPT !.method = "typeText", !.units = units, !.replace = replace,
                                 !.delivered = ~replace]
  <2>2. DOMAIN c = CallFields /\ c.method = "typeText" /\ c.units \in Nat
    BY BoundsAssumption DEF NoCall, CallFields
  <2>3. (pc = "idle" /\ Refuse) \/ KeyInput(c, n, w)
    BY <2>1
  <2> HIDE DEF c
  <2> QED
    BY <2>2, <2>3, RefuseIInv, KeyInputIInv
<1>2. CASE DispatchKeyEvent(n)
  <2>1. PICK events \in 1..2, w \in Windows \cup {Nothing} :
           KeyInput([NoCall EXCEPT !.method = "dispatchKeyEvent", !.units = events,
                                   !.delivered = TRUE], n, w)
    BY <1>2 DEF DispatchKeyEvent
  <2> DEFINE c == [NoCall EXCEPT !.method = "dispatchKeyEvent", !.units = events,
                                 !.delivered = TRUE]
  <2>2. DOMAIN c = CallFields /\ c.method = "dispatchKeyEvent" /\ c.units \in Nat
    BY DEF NoCall, CallFields
  <2>3. KeyInput(c, n, w)
    BY <2>1
  <2> HIDE DEF c
  <2> QED
    BY <2>2, <2>3, KeyInputIInv
<1> QED
  BY <1>1, <1>2

(* The closing of popups.                                                  *)
LEMMA DismissIInv == IInv /\ DismissPopup => IInv'
<1> SUFFICES ASSUME IInv, DismissPopup PROVE IInv'
  OBVIOUS
<1>1. CASE Refuse /\ pc = "idle"
  BY <1>1, RefuseIInv
<1>2. CASE pc = "idle" /\ ~Refuse
  <2>1. PICK targets :
           Begin([NoCall EXCEPT !.method = "dismissPopup", !.popups = targets,
                                !.open = Len(VisiblePopups), !.todo = <<"close", "wait">>])
    BY <1>2 DEF DismissPopup
  <2> DEFINE c == [NoCall EXCEPT !.method = "dismissPopup", !.popups = targets,
                                 !.open = Len(VisiblePopups), !.todo = <<"close", "wait">>]
             steps == {"close", "wait", "settle"}
  <2>2. "dismissPopup" \in Methods \ (Gestures \cup ByHand \cup {"wheel"})
        /\ StepsOf("dismissPopup") = steps
    BY DEF Methods, Gestures, ByHand, StepsOf
  <2>3. <<"close", "wait">> \in Seq(steps)
    OBVIOUS
  <2>4. /\ DOMAIN c = CallFields /\ c.method = "dismissPopup" /\ c.todo = <<"close", "wait">>
        /\ c.window = Nothing /\ c.units \in Nat
    BY DEF NoCall, CallFields
  <2>5. Begin(c)
    BY <2>1
  <2> HIDE DEF c, steps
  <2> QED
    BY <1>2, <2>2, <2>3, <2>4, <2>5, BeginIInv
<1> QED
  BY <1>1, <1>2 DEF DismissPopup

-----------------------------------------------------------------------------
(* How a call goes on.                                                     *)

(* What has been pressed is released by the steps that are left, and a     *)
(* release that is to come is still to come after any other step.          *)
LEMMA ReleasedTail ==
    ASSUME NEW S, NEW todo \in Seq(S), todo # <<>>
    PROVE  /\ Released(todo) => Released(Tail(todo))
           /\ Released(todo) /\ Head(todo) = "press" => Releases(Tail(todo))
           /\ Releases(todo) /\ Head(todo) # "release" => Releases(Tail(todo))
<1> DEFINE rest == Tail(todo)
<1>1. /\ Head(todo) = todo[1] /\ Len(todo) \in Nat \ {0} /\ Len(rest) = Len(todo) - 1
      /\ \A i \in 1..Len(rest) : rest[i] = todo[i + 1]
      /\ \A i \in 2..Len(todo) : i - 1 \in 1..Len(rest) /\ rest[i - 1] = todo[i]
  BY Stepping
<1> HIDE DEF rest
<1>2. ASSUME Released(todo) PROVE Released(rest)
  <2> SUFFICES ASSUME NEW i \in 1..Len(rest), rest[i] = "press"
               PROVE  \E j \in (i + 1)..Len(rest) : rest[j] = "release"
    BY DEF Released
  <2>1. i + 1 \in 1..Len(todo) /\ todo[i + 1] = "press"
    BY <1>1
  <2>2. PICK j \in (i + 1 + 1)..Len(todo) : todo[j] = "release"
    BY <1>2, <2>1 DEF Released
  <2>3. j \in 2..Len(todo) /\ j - 1 \in (i + 1)..Len(rest)
    BY <1>1, <2>1
  <2> QED
    BY <1>1, <2>2, <2>3
<1>3. ASSUME Released(todo), Head(todo) = "press" PROVE Releases(rest)
  <2>1. 1 \in 1..Len(todo) /\ todo[1] = "press"
    BY <1>1, <1>3
  <2>2. PICK j \in (1 + 1)..Len(todo) : todo[j] = "release"
    BY <1>3, <2>1 DEF Released
  <2> QED
    BY <1>1, <2>2 DEF Releases
<1>4. ASSUME Releases(todo), Head(todo) # "release" PROVE Releases(rest)
  <2>1. PICK j \in 1..Len(todo) : todo[j] = "release"
    BY <1>4 DEF Releases
  <2>2. j \in 2..Len(todo)
    BY <1>1, <1>4, <2>1
  <2> QED
    BY <1>1, <2>1, <2>2 DEF Releases
<1> QED
  BY <1>2, <1>3, <1>4 DEF rest

(* A step that puts no pointer down and takes none up.                     *)
LEMMA StepIInv ==
    ASSUME IInv, InCall, pc' \in {"running", "pumping"},
           DOMAIN scene' = SceneFields, scene'.live = scene.live,
           UNCHANGED <<windows, down, byHand>>,
           DOMAIN call' = CallFields, call'.units = call.units,
           call'.method = call.method, call'.window = call.window,
           call'.todo \in Seq(StepsOf(call.method)),
           call.method \in Gestures =>
              Released(call'.todo) /\ (down # byHand => Releases(call'.todo))
    PROVE  IInv'
<1>1. Shapes'
  BY DEF IInv, Shapes
<1>2. CallInv' /\ GestureInv'
  BY DEF IInv, CallInv, GestureInv, InCall
<1>3. DownInv'
  BY DEF IInv, DownInv, InCall
<1>4. GesturesSurviveDestruction'
  BY DEF GesturesSurviveDestruction
<1> QED
  BY <1>1, <1>2, <1>3, <1>4 DEF IInv

(* A step other than a release, after which the call goes on with the next. *)
LEMMA AdvanceIInv ==
    ASSUME IInv, InCall, call.todo # <<>>, Head(call.todo) # "release",
           pc' \in {"running", "pumping"},
           DOMAIN scene' = SceneFields, scene'.live = scene.live,
           UNCHANGED <<windows, down, byHand>>,
           DOMAIN call' = CallFields, call'.units = call.units,
           call'.method = call.method, call'.window = call.window,
           call'.todo = Tail(call.todo)
    PROVE  IInv'
<1>1. call.todo \in Seq(StepsOf(call.method))
  BY DEF IInv, CallInv
<1>2. call'.todo \in Seq(StepsOf(call.method))
  BY <1>1, Stepping
<1>3. call.method \in Gestures =>
         Released(call'.todo) /\ (down # byHand => Releases(call'.todo))
  BY <1>1, ReleasedTail DEF IInv, GestureInv, DownInv, InCall
<1> QED
  BY <1>2, <1>3, StepIInv

(* What a call may still have to do before it answers.                     *)
LEMMA LastSteps ==
    ASSUME NEW method \in Methods
    PROVE  <<>> \in Seq(StepsOf(method)) /\ <<"settle">> \in Seq(StepsOf(method))
<1>1. "settle" \in StepsOf(method)
  BY DEF Methods, Gestures, ByHand, StepsOf
<1> QED
  BY <1>1

(* The shapes of the call and the scene, in a call.                        *)
LEMMA InCallShapes ==
    IInv /\ InCall => /\ DOMAIN call = CallFields /\ DOMAIN scene = SceneFields
                      /\ call.method \in Methods
                      /\ call.todo \in Seq(StepsOf(call.method))
BY DEF IInv, Shapes, CallInv

(* Activating the window.                                                  *)
LEMMA ActivateIInv == IInv /\ Activate => IInv'
<1> SUFFICES ASSUME IInv, Activate PROVE IInv'
  OBVIOUS
<1> QED
  BY InCallShapes, AdvanceFields, AdvanceIInv DEF Activate, At

(* The loops.                                                              *)
LEMMA LoopIInv == IInv /\ Loop => IInv'
<1> SUFFICES ASSUME IInv, Loop PROVE IInv'
  OBVIOUS
<1> QED
  BY InCallShapes, AdvanceFields, AdvanceIInv DEF Loop, At, sceneVars

(* Pointers that are put down by an event, and those it takes up.          *)
LEMMA PressedPointers ==
    ASSUME NEW pointers, NEW w, NEW event
    PROVE  /\ event = "press" => Pressed(pointers, w, event) = pointers \cup {<<w, "mouse">>}
           /\ event = "release" => Pressed(pointers, w, event) = pointers \ {<<w, "mouse">>}
           /\ event \in {"hold", "move", "wheel"} => Pressed(pointers, w, event) = pointers
           /\ Pressed(pointers, w, event)
                 \subseteq pointers \cup ({w} \X {"mouse", "touch"})
BY DEF Pressed

(* A pointer event. A gesture that presses has its release before it until *)
(* it is sent; an event of the client's own is counted as such.            *)
LEMMA SendPointerEventIInv == IInv /\ SendPointerEvent => IInv'
<1> SUFFICES ASSUME IInv, SendPointerEvent PROVE IInv'
  OBVIOUS
<1> DEFINE event == Head(call.todo)
           w == call.window
<1>1. /\ InCall /\ call.todo # <<>> /\ event \in PointerEvents /\ Intact(call)
      /\ down' = Pressed(down, w, event)
      /\ byHand' = IF call.method \in ByHand THEN Pressed(byHand, w, event) ELSE byHand \cap down'
      /\ UNCHANGED <<scene, windows>> /\ pc' = "pumping"
  BY DEF SendPointerEvent, At, sceneVars, ByHand
<1>2. /\ DOMAIN call = CallFields /\ call.method \in Methods
      /\ call.todo \in Seq(StepsOf(call.method)) /\ DOMAIN scene = SceneFields
  BY <1>1, InCallShapes
<1>3. /\ DOMAIN call' = CallFields /\ call'.units = call.units
      /\ call'.method = call.method /\ call'.window = w /\ call'.todo = Tail(call.todo)
  BY <1>2, AdvanceFields DEF SendPointerEvent
<1>4. event \in StepsOf(call.method) /\ call'.todo \in Seq(StepsOf(call.method))
  BY <1>1, <1>2, <1>3, Stepping
<1>5. call.method \in Gestures \cup ByHand \cup {"wheel"}
  BY <1>1, <1>2, <1>4 DEF StepsOf, Methods, PointerEvents, KeyEvents
<1>6. w \in windows
  <2>1. w \in Windows
    BY <1>1, <1>5 DEF IInv, CallInv
  <2>2. Watches(call) = {w}
    BY <1>1 DEF Watches, PointerEvents, KeyEvents
  <2>3. w \in scene.live \cup windows
    BY <1>1, <2>2 DEF Intact, Exist
  <2> QED
    BY <2>1, <2>3, KindsAssumption DEF IInv, Shapes
<1>7. /\ byHand \subseteq down /\ down \subseteq windows \X {"mouse", "touch"}
      /\ call.method \in Gestures => Released(call.todo)
      /\ call.method \notin Gestures => down = byHand
      /\ down \ byHand \subseteq {<<w, "mouse">>}
      /\ down # byHand => Releases(call.todo)
  <2>1. /\ byHand \subseteq down /\ down \subseteq windows \X {"mouse", "touch"}
        /\ down # byHand => /\ call.method \in Gestures
                            /\ down \ byHand \subseteq {<<w, "mouse">>}
                            /\ Releases(call.todo)
    BY <1>1 DEF IInv, DownInv, InCall
  <2>2. call.method \in Gestures => Released(call.todo)
    BY <1>1 DEF IInv, GestureInv
  <2>3. down = byHand => down \ byHand = {}
    OBVIOUS
  <2> QED
    BY <2>1, <2>2, <2>3
<1>8. call.method \in Gestures => Released(call'.todo)
  BY <1>1, <1>2, <1>3, <1>7, ReleasedTail
<1>9. down' \subseteq windows \X {"mouse", "touch"}
  BY <1>1, <1>6, <1>7, PressedPointers
<1>10. /\ byHand' \subseteq down'
       /\ down' # byHand' => /\ call.method \in Gestures
                             /\ down' \ byHand' \subseteq {<<w, "mouse">>}
                             /\ Releases(call'.todo)
  <2>1. CASE call.method \in Gestures
    <3>1. event \in {"press", "release", "move"} /\ call.method \notin ByHand
      BY <1>1, <1>4, <2>1 DEF StepsOf, Gestures, ByHand, PointerEvents
    <3>2. CASE event = "press"
      <4>1. Releases(call'.todo)
        BY <1>1, <1>2, <1>3, <1>7, <2>1, <3>2, ReleasedTail
      <4> QED
        BY <1>1, <1>7, <2>1, <3>1, <3>2, <4>1, PressedPointers
    <3>3. CASE event = "release"
      BY <1>1, <1>7, <2>1, <3>1, <3>3, PressedPointers
    <3>4. CASE event = "move"
      <4>1. down # byHand => Releases(call'.todo)
        BY <1>1, <1>2, <1>3, <1>7, <3>4, ReleasedTail
      <4> QED
        BY <1>1, <1>7, <2>1, <3>1, <3>4, <4>1, PressedPointers
    <3> QED
      BY <3>1, <3>2, <3>3, <3>4
  <2>2. CASE call.method \in ByHand
    BY <1>1, <1>7, <2>2 DEF Gestures, ByHand
  <2>3. CASE call.method = "wheel"
    <3>1. event \in {"move", "wheel"} /\ call.method \notin ByHand
      BY <1>1, <1>4, <2>3 DEF StepsOf, Gestures, ByHand, PointerEvents
    <3> QED
      BY <1>1, <1>7, <2>3, <3>1, PressedPointers DEF Gestures
  <2> QED
    BY <1>5, <2>1, <2>2, <2>3
<1> HIDE DEF event, w
<1>11. Shapes' /\ GesturesSurviveDestruction'
  BY <1>1, <1>2, <1>3 DEF IInv, Shapes, GesturesSurviveDestruction
<1>12. CallInv' /\ GestureInv'
  BY <1>1, <1>2, <1>3, <1>4, <1>8 DEF IInv, CallInv, GestureInv, InCall, w
<1>13. DownInv'
  BY <1>1, <1>3, <1>9, <1>10 DEF DownInv, InCall
<1> QED
  BY <1>11, <1>12, <1>13 DEF IInv

(* Nothing more is sent once the window of a gesture is gone, and with it  *)
(* the pointers that were down in it.                                      *)
LEMMA StopSendingIInv == IInv /\ StopSending => IInv'
<1> SUFFICES ASSUME IInv, StopSending PROVE IInv'
  OBVIOUS
<1>1. /\ InCall /\ call.todo # <<>> /\ ~Exist(Watches(call)) /\ pc' = "running"
      /\ UNCHANGED <<scene, windows, down, byHand>>
  BY DEF StopSending, sceneVars
<1>2. /\ DOMAIN call = CallFields /\ call.method \in Methods /\ DOMAIN scene = SceneFields
      /\ call.todo \in Seq(StepsOf(call.method))
  BY <1>1, InCallShapes
<1>3. PICK todo \in {<<>>, <<"settle">>} : call' = [call EXCEPT !.todo = todo]
  BY DEF StopSending
<1>4. /\ DOMAIN call' = CallFields /\ call'.units = call.units
      /\ call'.method = call.method /\ call'.window = call.window /\ call'.todo = todo
  BY <1>2, <1>3, TodoFields
<1>5. todo \in Seq(StepsOf(call.method))
  BY <1>2, LastSteps
<1>6. Released(todo)
  BY DEF Released
<1>7. call.method \in Gestures => down = byHand
  <2> SUFFICES ASSUME call.method \in Gestures PROVE down = byHand
    OBVIOUS
  <2>1. Head(call.todo) \in StepsOf(call.method)
    BY <1>1, <1>2, Stepping
  <2>2. Watches(call) \subseteq {call.window}
    <3>1. Head(call.todo) \notin KeyEvents
      BY <2>1 DEF Gestures, ByHand, StepsOf, KeyEvents
    <3> QED
      BY <3>1 DEF Watches
  <2>3. call.window \notin windows
    BY <1>1, <2>2 DEF Exist
  <2>4. /\ byHand \subseteq down /\ down \subseteq windows \X {"mouse", "touch"}
        /\ down \ byHand \subseteq {<<call.window, "mouse">>}
    BY <1>1 DEF IInv, DownInv, InCall
  <2>5. SUFFICES ASSUME NEW d \in down, d \notin byHand PROVE FALSE
    BY <2>4
  <2>6. d = <<call.window, "mouse">> /\ d \in windows \X {"mouse", "touch"}
    BY <2>4, <2>5
  <2> QED
    BY <2>3, <2>6
<1> QED
  BY <1>1, <1>2, <1>4, <1>5, <1>6, <1>7, StepIInv

(* Scrolling moves items, and destroys none.                               *)
LEMMA ScrollIInv == IInv /\ Scroll => IInv'
<1> SUFFICES ASSUME IInv, Scroll PROVE IInv'
  OBVIOUS
<1>1. PICK box : scene' = [scene EXCEPT !.box = box]
  BY DEF Scroll
<1>2. InCall /\ DOMAIN scene = SceneFields
  BY InCallShapes DEF Scroll, At
<1>3. DOMAIN scene' = SceneFields /\ scene'.live = scene.live
  BY <1>1, <1>2 DEF SceneFields
<1> QED
  BY <1>2, <1>3, InCallShapes, AdvanceFields, AdvanceIInv DEF Scroll, At

(* A popup is taken off the list; the last one ends the closing.           *)
LEMMA NextPopupIInv ==
    ASSUME IInv, At({"close"}), call' = NextPopup(call),
           pc' \in {"running", "pumping"},
           DOMAIN scene' = SceneFields, scene'.live = scene.live,
           UNCHANGED <<windows, down, byHand>>
    PROVE  IInv'
<1>1. /\ InCall /\ call.todo # <<>> /\ Head(call.todo) = "close"
      /\ DOMAIN call = CallFields /\ call.method \in Methods
      /\ call.todo \in Seq(StepsOf(call.method))
  BY InCallShapes DEF At
<1>2. PICK todo \in {call.todo, Tail(call.todo)} :
         call' = [call EXCEPT !.popups = Tail(@), !.todo = todo]
  BY DEF NextPopup
<1>3. /\ DOMAIN call' = CallFields /\ call'.units = call.units
      /\ call'.method = call.method /\ call'.window = call.window /\ call'.todo = todo
  BY <1>1, <1>2, NoCallFields
<1>4. todo \in Seq(StepsOf(call.method))
  BY <1>1, Stepping
<1>5. "close" \in StepsOf(call.method)
  BY <1>1, Stepping
<1>6. call.method \notin Gestures
  BY <1>5 DEF Gestures, ByHand, StepsOf
<1> QED
  BY <1>1, <1>3, <1>4, <1>6, StepIInv

(* A popup is asked to close.                                              *)
LEMMA ClosePopupIInv == IInv /\ ClosePopup => IInv'
<1> SUFFICES ASSUME IInv, ClosePopup PROVE IInv'
  OBVIOUS
<1>1. PICK shown : scene' = [scene EXCEPT !.shown = shown]
  BY DEF ClosePopup
<1>2. DOMAIN scene = SceneFields
  BY InCallShapes DEF ClosePopup, At
<1>3. DOMAIN scene' = SceneFields /\ scene'.live = scene.live
  BY <1>1, <1>2 DEF SceneFields
<1> QED
  BY <1>3, NextPopupIInv DEF ClosePopup

(* The steps of keyboard calls are not those of gestures.                  *)
LEMMA KeyStepMethods ==
    ASSUME NEW method \in Methods,
           NEW step \in StepsOf(method), step \in KeyEvents \cup {"focus", "focused", "aim"}
    PROVE  method \in {"focusNode", "typeText", "dispatchKeyEvent"}
BY DEF Methods, Gestures, ByHand, StepsOf, KeyEvents, PointerEvents

(* A step of a keyboard call leaves all pointers as they are.              *)
LEMMA KeyStepIInv ==
    ASSUME IInv, At(KeyEvents \cup {"focus", "focused", "aim"}),
           pc' \in {"running", "pumping"}, UNCHANGED <<scene, windows, down, byHand>>,
           DOMAIN call' = CallFields, call'.units = call.units,
           call'.method = call.method, call'.window = call.window,
           call'.todo \in Seq(KeySteps)
    PROVE  IInv'
<1>1. /\ InCall /\ call.todo # <<>>
      /\ Head(call.todo) \in KeyEvents \cup {"focus", "focused", "aim"}
  BY DEF At
<1>2. /\ call.method \in Methods /\ call.todo \in Seq(StepsOf(call.method))
      /\ DOMAIN scene = SceneFields
  BY <1>1, InCallShapes
<1>3. call.method \in {"focusNode", "typeText", "dispatchKeyEvent"}
  BY <1>1, <1>2, Stepping, KeyStepMethods
<1> QED
  BY <1>1, <1>2, <1>3, KeyStepsOf, StepIInv

(* What is left of a keyboard call after its first step.                   *)
LEMMA KeyRest ==
    ASSUME IInv, At(KeyEvents \cup {"focus", "focused", "aim"})
    PROVE  /\ DOMAIN call = CallFields /\ call.units \in Nat
           /\ Tail(call.todo) \in Seq(KeySteps)
           /\ call.method \in {"focusNode", "typeText", "dispatchKeyEvent"}
<1>1. /\ InCall /\ call.todo # <<>>
      /\ Head(call.todo) \in KeyEvents \cup {"focus", "focused", "aim"}
  BY DEF At
<1>2. /\ call.method \in Methods /\ call.todo \in Seq(StepsOf(call.method))
      /\ DOMAIN call = CallFields
  BY <1>1, InCallShapes
<1>3. call.method \in {"focusNode", "typeText", "dispatchKeyEvent"}
  BY <1>1, <1>2, Stepping, KeyStepMethods
<1> QED
  BY <1>1, <1>2, <1>3, Stepping, KeyStepsOf DEF IInv, Shapes

(* The item is focused.                                                    *)
LEMMA FocusIInv == IInv /\ Focus => IInv'
<1> SUFFICES ASSUME IInv, Focus PROVE IInv'
  OBVIOUS
<1>1. At(KeyEvents \cup {"focus", "focused", "aim"})
  BY DEF Focus, At
<1> QED
  BY <1>1, KeyRest, AdvanceFields, KeyStepIInv DEF Focus

(* A call whose target does not take the keys is given up.                 *)
LEMMA RejectedFields ==
    ASSUME NEW c, DOMAIN c = CallFields
    PROVE  /\ DOMAIN Rejected(c) = CallFields /\ Rejected(c).units = c.units
           /\ Rejected(c).method = c.method /\ Rejected(c).window = c.window
           /\ Rejected(c).todo \in Seq(KeySteps)
<1>1. <<>> \in Seq(KeySteps)
  OBVIOUS
<1> QED
  BY <1>1, NoCallFields DEF Rejected

(* It is looked whether the item has the focus.                            *)
LEMMA FocusedIInv == IInv /\ Focused => IInv'
<1> SUFFICES ASSUME IInv, Focused PROVE IInv'
  OBVIOUS
<1>1. At(KeyEvents \cup {"focus", "focused", "aim"})
  BY DEF Focused, At
<1>2. call' \in {Rejected(call), Advance(call)}
  BY DEF Focused
<1>3. /\ DOMAIN call' = CallFields /\ call'.units = call.units
      /\ call'.method = call.method /\ call'.window = call.window
      /\ call'.todo \in Seq(KeySteps)
  <2>1. CASE call' = Rejected(call)
    BY <1>1, <2>1, KeyRest, RejectedFields
  <2>2. CASE call' = Advance(call)
    BY <1>1, <2>2, KeyRest, AdvanceFields
  <2> QED
    BY <1>2, <2>1, <2>2
<1> QED
  BY <1>1, <1>3, KeyStepIInv DEF Focused, sceneVars

(* The keys a call sends are key events.                                   *)
LEMMA KeysAreEvents ==
    ASSUME NEW c, c.units \in Nat, NEW key
    PROVE  KeysFor(c, key) \in Seq(KeyEvents)
<1> DEFINE Times(n, event) == [k \in 1..n |-> event]
<1>1. \A n \in Nat : \A event \in {"key", "commit"} : Times(n, event) \in Seq(KeyEvents)
  BY DEF KeyEvents
<1>2. <<>> \in Seq(KeyEvents) /\ <<"selectAll">> \in Seq(KeyEvents)
  BY DEF KeyEvents
<1>3. \A s, t \in Seq(KeyEvents) : s \o t \in Seq(KeyEvents)
  OBVIOUS
<1>4. 2 \in Nat /\ 2 * c.units \in Nat
  OBVIOUS
<1> HIDE DEF Times
<1>5. KeysFor(c, key) =
        LET setup == IF c.replace THEN <<"selectAll">>
                     ELSE IF c.target # Nothing /\ key \in Editable THEN Times(2, "key") ELSE <<>>
            text  == IF c.replace /\ c.units = 0 THEN Times(2, "key")
                     ELSE IF key \in Editable THEN Times(c.units, "commit")
                     ELSE Times(2 * c.units, "key")
        IN  IF c.method = "typeText" THEN setup \o text ELSE Times(c.units, "key")
  BY DEF KeysFor, Times
<1> QED
  BY <1>1, <1>2, <1>3, <1>4, <1>5, ZenonT(60)

(* So they are steps of keyboard calls.                                    *)
LEMMA KeysAreSteps ==
    ASSUME NEW c, c.units \in Nat, NEW key
    PROVE  KeysFor(c, key) \in Seq(KeySteps)
<1>1. KeyEvents \subseteq KeySteps
  BY DEF KeySteps
<1>2. \A s \in Seq(KeyEvents) : s \in Seq(KeySteps)
  BY <1>1
<1> QED
  BY <1>2, KeysAreEvents

(* The receiver of the keys is determined.                                 *)
LEMMA AimKeysIInv == IInv /\ AimKeys => IInv'
<1> SUFFICES ASSUME IInv, AimKeys PROVE IInv'
  OBVIOUS
<1>1. At(KeyEvents \cup {"focus", "focused", "aim"})
  BY DEF AimKeys, At
<1>2. PICK key : call' = [call EXCEPT !.key = key, !.todo = KeysFor(call, key) \o Tail(@)]
  BY DEF AimKeys
<1>3. KeysFor(call, key) \o Tail(call.todo) \in Seq(KeySteps)
  BY <1>1, KeyRest, KeysAreSteps
<1>4. /\ DOMAIN call' = CallFields /\ call'.units = call.units
      /\ call'.method = call.method /\ call'.window = call.window
      /\ call'.todo = KeysFor(call, key) \o Tail(call.todo)
  BY <1>1, <1>2, KeyRest, NoCallFields
<1> QED
  BY <1>1, <1>3, <1>4, KeyStepIInv DEF AimKeys, sceneVars

(* All text is selected, or nothing is typed.                              *)
LEMMA SelectAllIInv == IInv /\ SelectAll => IInv'
<1> SUFFICES ASSUME IInv, SelectAll PROVE IInv'
  OBVIOUS
<1>1. At(KeyEvents \cup {"focus", "focused", "aim"}) /\ DOMAIN call = CallFields
  BY KeyRest DEF SelectAll, At, KeyEvents
<1>2. CASE call' = [Advance(call) EXCEPT !.delivered = TRUE]
  <2>1. /\ DOMAIN call' = CallFields /\ call'.units = call.units
        /\ call'.method = call.method /\ call'.window = call.window
        /\ call'.todo = Tail(call.todo)
    BY <1>1, <1>2, NoCallFields DEF Advance
  <2> QED
    BY <1>1, <2>1, KeyRest, KeyStepIInv DEF SelectAll, sceneVars
<1>3. CASE call' = [call EXCEPT !.todo = <<"settle">>]
  <2>1. <<"settle">> \in Seq(KeySteps)
    BY DEF KeySteps
  <2> QED
    BY <1>1, <1>3, <2>1, TodoFields, KeyStepIInv DEF SelectAll, sceneVars
<1> QED
  BY <1>2, <1>3 DEF SelectAll

(* A key event is sent.                                                    *)
LEMMA SendKeyIInv == IInv /\ SendKey => IInv'
<1> SUFFICES ASSUME IInv, SendKey PROVE IInv'
  OBVIOUS
<1>1. At(KeyEvents \cup {"focus", "focused", "aim"})
  BY DEF SendKey, At, KeyEvents
<1> QED
  BY <1>1, KeyRest, AdvanceFields, KeyStepIInv DEF SendKey, sceneVars

-----------------------------------------------------------------------------
(* The end of a call.                                                      *)

(* Answering and returning, and a call that has not begun: no gesture is   *)
(* under way, so that nothing of one may be down.                          *)
LEMMA NoCallIInv ==
    ASSUME IInv, pc' \in {"idle", "answered"}, UNCHANGED <<scene, windows, down, byHand>>,
           DOMAIN call' = CallFields, call'.units \in Nat, down = byHand
    PROVE  IInv'
<1>1. Shapes'
  BY DEF IInv, Shapes
<1>2. CallInv' /\ GestureInv' /\ GesturesSurviveDestruction'
  BY DEF CallInv, GestureInv, GesturesSurviveDestruction, InCall
<1>3. DownInv'
  BY DEF IInv, DownInv
<1> QED
  BY <1>1, <1>2, <1>3 DEF IInv

(* The answer of a gesture comes when it has released what it pressed.     *)
LEMMA AnswerIInv == IInv /\ Answer => IInv'
<1> SUFFICES ASSUME IInv, Answer PROVE IInv'
  OBVIOUS
<1>1. InCall /\ call.todo = <<>> /\ pc' = "answered" /\ UNCHANGED <<scene, windows, down, byHand>>
  BY DEF Answer, sceneVars
<1>2. ~Releases(call.todo)
  BY <1>1 DEF Releases
<1>3. down = byHand
  BY <1>1, <1>2 DEF IInv, DownInv, InCall
<1>4. DOMAIN call' = CallFields /\ call'.units \in Nat
  <2>1. PICK last \in LastPoints(call) : call' = PostDispatch(call, last)
    BY DEF Answer
  <2> QED
    BY <2>1, NoCallFields DEF PostDispatch, NoCall
<1> QED
  BY <1>1, <1>3, <1>4, NoCallIInv

(* The client has its answer.                                              *)
LEMMA ReturnIInv == IInv /\ Return => IInv'
<1> SUFFICES ASSUME IInv, Return PROVE IInv'
  OBVIOUS
<1>1. DOMAIN call' = CallFields /\ call'.units \in Nat
  BY DEF Return, NoCall, CallFields
<1> QED
  BY <1>1, IdleIsReleased, NoCallIInv DEF Return, sceneVars

(* A gesture uses no object but the window, which it watches.              *)
LEMMA GesturesUseTheirWindow ==
    ASSUME IInv, InCall, call.method \in Gestures \cup ByHand \cup {"wheel"}
    PROVE  /\ call.todo = <<>> => Uses(call) = {}
           /\ call.todo # <<>> => Uses(call) \subseteq Watches(call)
<1>1. /\ call.todo \in Seq(StepsOf(call.method))
      /\ call.method \notin {"scrollIntoView", "typeText", "dispatchKeyEvent"}
  BY InCallShapes DEF Gestures, ByHand
<1>2. ASSUME call.todo # <<>> PROVE Uses(call) \subseteq Watches(call)
  <2>1. Head(call.todo) \in StepsOf(call.method)
    BY <1>1, <1>2, Stepping
  <2>2. Head(call.todo) \in PointerEvents \cup {"activate", "hold", "settle"}
    BY <2>1 DEF StepsOf, Gestures, ByHand, PointerEvents
  <2>3. CASE Head(call.todo) \in {"hold", "settle"}
    BY <1>2, <2>3 DEF Uses, PointerEvents, KeyEvents
  <2>4. CASE Head(call.todo) \in PointerEvents \cup {"activate"}
    BY <1>2, <2>4 DEF Uses, Watches, PointerEvents, KeyEvents
  <2> QED
    BY <2>2, <2>3, <2>4
<1>3. ASSUME call.todo = <<>> PROVE Uses(call) = {}
  BY <1>1, <1>3 DEF Uses
<1> QED
  BY <1>2, <1>3

(* What a call holds without watching it may be gone when it is used: not  *)
(* in a gesture.                                                           *)
LEMMA UseOfDestroyedIInv == IInv /\ UseOfDestroyed => IInv'
<1> SUFFICES ASSUME IInv, UseOfDestroyed PROVE IInv'
  OBVIOUS
<1>1. /\ InCall /\ ~Exist(Uses(call))
      /\ call.todo # <<>> => Exist(Watches(call))
      /\ UNCHANGED <<scene, windows, down, byHand>>
  BY DEF UseOfDestroyed, sceneVars
<1>2. call.method \in Methods \ (Gestures \cup ByHand \cup {"wheel"})
  BY <1>1, InCallShapes, GesturesUseTheirWindow DEF Exist
<1>3. down = byHand
  BY <1>1, <1>2 DEF IInv, DownInv, InCall
<1>4. CASE pc' = "crashed" /\ UNCHANGED call
  <2>1. Shapes'
    BY <1>1, <1>4 DEF IInv, Shapes
  <2>2. CallInv' /\ GestureInv'
    BY <1>4 DEF CallInv, GestureInv, InCall
  <2>3. DownInv'
    BY <1>1, <1>3 DEF IInv, DownInv
  <2>4. GesturesSurviveDestruction'
    BY <1>2, <1>4 DEF GesturesSurviveDestruction, Methods
  <2> QED
    BY <2>1, <2>2, <2>3, <2>4 DEF IInv
<1>5. CASE At({"focus", "focused"}) /\ call' = Rejected(call) /\ pc' = "running"
  <2>1. At(KeyEvents \cup {"focus", "focused", "aim"})
    BY <1>5 DEF At
  <2> QED
    BY <1>1, <1>5, <2>1, KeyRest, RejectedFields, KeyStepIInv
<1>6. CASE At({"close"}) /\ call' = NextPopup(call) /\ pc' = "running"
  BY <1>1, <1>6, InCallShapes, NextPopupIInv
<1>7. CASE At({"scroll", "aim"}) /\ call' = Advance(call) /\ pc' = "running"
  BY <1>1, <1>7, InCallShapes, AdvanceFields, AdvanceIInv DEF At
<1>8. At({"scroll", "aim", "close"}) => At({"close"}) \/ At({"scroll", "aim"})
  BY DEF At
<1> QED
  BY <1>4, <1>5, <1>6, <1>7, <1>8 DEF UseOfDestroyed

-----------------------------------------------------------------------------
(* The application.                                                        *)

(* What the application changes leaves the call as it is: items may be     *)
(* gone, and with a window the pointers that were down in it.              *)
LEMMA ApplicationIInv == IInv /\ Application => IInv'
<1> SUFFICES ASSUME IInv, Application PROVE IInv'
  OBVIOUS
<1>1. DOMAIN scene = SceneFields /\ scene.live \subseteq Items /\ UNCHANGED <<call, pc>>
  BY DEF IInv, Shapes, Application
<1>2. CallInv' /\ GestureInv' /\ GesturesSurviveDestruction'
  BY <1>1 DEF IInv, CallInv, GestureInv, GesturesSurviveDestruction, InCall
<1>3. \A items : LET s == [scene EXCEPT !.live = @ \ items]
                 IN  DOMAIN s = SceneFields /\ s.live \subseteq Items
  BY <1>1 DEF SceneFields
<1>4. /\ DOMAIN scene' = SceneFields /\ scene'.live \subseteq Items
      /\ windows' \subseteq windows
      /\ \/ UNCHANGED <<windows, down, byHand>>
         \/ \E w : /\ windows' = windows \ {w}
                   /\ down' = {d \in down : d[1] # w} /\ byHand' = {d \in byHand : d[1] # w}
  <2>1. CASE ChangesItem /\ UNCHANGED <<down, byHand>>
    <3>1. DOMAIN scene' = SceneFields /\ scene'.live = scene.live
      BY <1>1, <2>1 DEF ChangesItem, SceneFields
    <3> QED
      BY <1>1, <2>1, <3>1 DEF ChangesItem
  <2>2. CASE DestroysItem
    BY <1>3, <2>2 DEF DestroysItem, Destroys
  <2>3. CASE DestroysWindow
    BY <1>3, <2>3 DEF DestroysWindow, Destroys
  <2>4. CASE UNCHANGED <<scene, windows, down, byHand>>
    BY <1>1, <2>4
  <2> QED
    BY <2>1, <2>2, <2>3, <2>4 DEF Application
<1>5. Shapes'
  BY <1>1, <1>4 DEF IInv, Shapes
<1>6. DownInv'
  <2>1. CASE UNCHANGED <<windows, down, byHand>>
    BY <1>1, <2>1 DEF IInv, DownInv, InCall
  <2>2. ASSUME NEW w, windows' = windows \ {w},
               down' = {d \in down : d[1] # w}, byHand' = {d \in byHand : d[1] # w}
        PROVE  DownInv'
    <3>1. /\ byHand \subseteq down /\ down \subseteq windows \X {"mouse", "touch"}
          /\ down # byHand /\ pc # "crashed" =>
                /\ InCall /\ call.method \in Gestures
                /\ down \ byHand \subseteq {<<call.window, "mouse">>}
                /\ Releases(call.todo)
      BY DEF IInv, DownInv
    <3>2. byHand' \subseteq down' /\ down' \ byHand' \subseteq down \ byHand
      BY <2>2, <3>1
    <3>3. down' \subseteq windows' \X {"mouse", "touch"}
      BY <2>2, <3>1
    <3>4. down' # byHand' => down # byHand
      BY <2>2
    <3> QED
      BY <1>1, <3>1, <3>2, <3>3, <3>4 DEF DownInv, InCall
  <2> QED
    BY <1>4, <2>1, <2>2
<1> QED
  BY <1>2, <1>5, <1>6 DEF IInv

-----------------------------------------------------------------------------
(* Every step keeps the invariant.                                         *)
LEMMA NextIInv == IInv /\ [Next]_vars => IInv'
<1> SUFFICES ASSUME IInv, [Next]_vars PROVE IInv'
  OBVIOUS
<1>1. CASE Request
  BY <1>1, GestureCallsIInv, ByHandCallsIInv, ScrollCallIInv, FocusCallIInv,
     KeyCallsIInv, DismissIInv DEF Request
<1>2. CASE CarryOut
  BY <1>2, ActivateIInv, SendPointerEventIInv, LoopIInv, StopSendingIInv, ScrollIInv,
     ClosePopupIInv, FocusIInv, FocusedIInv, AimKeysIInv, SelectAllIInv, SendKeyIInv,
     UseOfDestroyedIInv, AnswerIInv, ReturnIInv DEF CarryOut
<1>3. CASE Application
  BY <1>3, ApplicationIInv
<1>4. CASE UNCHANGED vars
  BY <1>4 DEF vars, sceneVars, IInv, Shapes, CallInv, GestureInv, DownInv, InCall,
              GesturesSurviveDestruction
<1> QED
  BY <1>1, <1>2, <1>3, <1>4 DEF Next

(* The invariant holds in every reachable state.                           *)
THEOREM Invariance == Spec => []IInv
<1>1. Init => IInv
  BY InitIInv
<1>2. IInv /\ [Next]_vars => IInv'
  BY NextIInv
<1> QED
  BY <1>1, <1>2, PTL DEF Spec

(* Whatever windows and items the application destroys while a click, a    *)
(* long press or a drag is carried out, no button is down when it is over  *)
(* that the client has not put down itself with an event of its own.       *)
THEOREM GesturesRelease == Spec => []NothingStaysPressed
<1>1. IInv => NothingStaysPressed
  BY IdleIsReleased DEF NothingStaysPressed
<1> QED
  BY <1>1, Invariance, PTL

(* No object the application destroys meanwhile makes a gesture, an event  *)
(* of the client's own or a turn of the wheel crash.                       *)
THEOREM GesturesSurvive == Spec => []GesturesSurviveDestruction
<1>1. IInv => GesturesSurviveDestruction
  BY DEF IInv
<1> QED
  BY <1>1, Invariance, PTL

-----------------------------------------------------------------------------
(* The item trees.                                                         *)

(* An item and its ancestors.                                              *)
Lineage(i) == Ancestors[i] \cup {i}

(* The recursive definition of the ancestors has a solution: the smallest  *)
(* sets that contain the parent and with every item its parent. So what is *)
(* defined satisfies it.                                                   *)
LEMMA AncestorsEquation ==
    \A i \in Items :
        Ancestors[i] = IF Parent[i] = Nothing THEN {} ELSE {Parent[i]} \cup Ancestors[Parent[i]]
<1> DEFINE Up(f) == [i \in Items |-> IF Parent[i] = Nothing THEN {}
                                     ELSE {Parent[i]} \cup f[Parent[i]]]
           Closed(S) == \A j \in S : Parent[j] # Nothing => Parent[j] \in S
           Holds(S, i) == Closed(S) /\ (Parent[i] # Nothing => Parent[i] \in S)
           least == [i \in Items |-> {j \in Items : \A S \in SUBSET Items : Holds(S, i) => j \in S}]
<1>1. ASSUME NEW i \in Items
      PROVE  least[i] = IF Parent[i] = Nothing THEN {} ELSE {Parent[i]} \cup least[Parent[i]]
  <2>1. CASE Parent[i] = Nothing
    <3>1. Holds({}, i)
      BY <2>1
    <3> QED
      BY <2>1, <3>1
  <2>2. CASE Parent[i] # Nothing
    <3> DEFINE p == Parent[i]
    <3>1. p \in Items
      BY <2>2, ParentAssumption
    <3>2. p \in least[i]
      BY <2>2, <3>1
    <3>3. least[p] \subseteq least[i]
      <4>1. ASSUME NEW S \in SUBSET Items, Holds(S, i) PROVE Holds(S, p)
        BY <2>2, <3>1, <4>1
      <4> QED
        BY <3>1, <4>1
    <3>4. ASSUME NEW j \in least[i] PROVE j \in {p} \cup least[p]
      <4> DEFINE T == {p} \cup least[p]
      <4>1. T \in SUBSET Items
        BY <3>1
      <4>2. ASSUME NEW k \in T, Parent[k] # Nothing PROVE Parent[k] \in T
        <5>1. k \in Items /\ Parent[k] \in Items
          BY <4>1, <4>2, ParentAssumption
        <5>2. ASSUME NEW S \in SUBSET Items, Holds(S, p) PROVE Parent[k] \in S
          <6>1. CASE k = p
            BY <4>2, <5>2, <6>1
          <6>2. CASE k \in least[p]
            BY <3>1, <4>2, <5>2, <6>2
          <6> QED
            BY <6>1, <6>2
        <5> QED
          BY <3>1, <5>1, <5>2
      <4>3. Holds(T, i)
        BY <4>2
      <4> QED
        BY <4>1, <4>3
    <3>5. least[i] = {p} \cup least[p]
      <4> HIDE DEF least, p
      <4> QED
        BY <3>2, <3>3, <3>4
    <3> HIDE DEF least
    <3> QED
      BY <2>2, <3>5
  <2> QED
    BY <2>1, <2>2
<1>2. least = Up(least)
  BY <1>1
<1> HIDE DEF least
<1> DEFINE up == CHOOSE f : f = Up(f)
<1>3. up = Up(up)
  BY <1>2
<1>4. Ancestors = [i \in Items |-> up[i]]
  BY DEF Ancestors
<1> HIDE DEF up
<1> QED
  BY <1>3, <1>4, ParentAssumption

(* What holds of an item as soon as it holds of its parent holds of all.   *)
LEMMA FromParents ==
    ASSUME NEW S, \A i \in Items : (Parent[i] = Nothing \/ Parent[i] \in S) => i \in S
    PROVE  Items \subseteq S
<1> DEFINE T == Items \ S
<1>1. SUFFICES ASSUME T # {} PROVE FALSE
  OBVIOUS
<1>2. PICK i \in T : Parent[i] \notin T
  BY <1>1, TreeAssumption
<1> QED
  BY <1>2, ParentAssumption

(* The ancestors of an item are items, with their ancestors; none is its   *)
(* own.                                                                    *)
LEMMA AncestorFacts ==
    ASSUME NEW i \in Items
    PROVE  /\ Ancestors[i] \subseteq Items
           /\ \A j \in Ancestors[i] : Ancestors[j] \subseteq Ancestors[i]
           /\ i \notin Ancestors[i]
<1>1. Items \subseteq {k \in Items : Ancestors[k] \subseteq Items}
  <2> DEFINE S == {k \in Items : Ancestors[k] \subseteq Items}
  <2>1. ASSUME NEW k \in Items, Parent[k] = Nothing \/ Parent[k] \in S PROVE k \in S
    BY <2>1, AncestorsEquation
  <2> QED
    BY <2>1, FromParents
<1> DEFINE S == {k \in Items : \A j \in Ancestors[k] : Ancestors[j] \subseteq Ancestors[k]}
<1>2. ASSUME NEW k \in Items, Parent[k] = Nothing \/ Parent[k] \in S PROVE k \in S
  BY <1>2, AncestorsEquation
<1>3. Items \subseteq S
  BY <1>2, FromParents
<1> DEFINE T == {k \in Items : k \in Ancestors[k]}
<1>4. ASSUME NEW k \in T, Parent[k] \notin T PROVE FALSE
  <2>1. Parent[k] # Nothing /\ Parent[k] \in Items
    BY <1>4, AncestorsEquation, ParentAssumption
  <2>2. Ancestors[k] = {Parent[k]} \cup Ancestors[Parent[k]]
    BY <1>4, <2>1, AncestorsEquation
  <2>3. k \in Ancestors[Parent[k]] \/ k = Parent[k]
    BY <2>2
  <2> QED
    BY <1>3, <1>4, <2>1, <2>2, <2>3
<1>5. T = {}
  BY <1>4, TreeAssumption
<1> QED
  BY <1>1, <1>3, <1>5

(* Two of the line of an item are in line with each other.                 *)
LEMMA LineIsChain ==
    ASSUME NEW k \in Items, NEW i \in Lineage(k), NEW j \in Lineage(k)
    PROVE  i = j \/ i \in Ancestors[j] \/ j \in Ancestors[i]
<1> DEFINE S == {m \in Items : \A a, b \in Lineage(m) :
                                  a = b \/ a \in Ancestors[b] \/ b \in Ancestors[a]}
<1>1. ASSUME NEW m \in Items, Parent[m] = Nothing \/ Parent[m] \in S PROVE m \in S
  <2>1. CASE Parent[m] = Nothing
    BY <2>1, AncestorsEquation DEF Lineage
  <2>2. CASE Parent[m] \in S
    <3>1. Ancestors[m] = Lineage(Parent[m])
      <4>1. Parent[m] # Nothing
        BY <2>2, NothingAssumption
      <4> QED
        BY <4>1, AncestorsEquation DEF Lineage
    <3>2. \A a, b \in Ancestors[m] : a = b \/ a \in Ancestors[b] \/ b \in Ancestors[a]
      BY <2>2, <3>1
    <3> QED
      BY <3>2 DEF Lineage
  <2> QED
    BY <1>1, <2>1, <2>2
<1>2. Items \subseteq S
  BY <1>1, FromParents
<1> QED
  BY <1>2

(* An ancestor is the parent of one of the line.                           *)
LEMMA ChildTowards ==
    ASSUME NEW k \in Items, NEW j \in Ancestors[k]
    PROVE  \E a \in Lineage(k) : Parent[a] = j
<1> DEFINE S == {m \in Items : \A b \in Ancestors[m] : \E a \in Lineage(m) : Parent[a] = b}
<1>1. ASSUME NEW m \in Items, Parent[m] = Nothing \/ Parent[m] \in S PROVE m \in S
  <2>1. CASE Parent[m] = Nothing
    BY <2>1, AncestorsEquation DEF Lineage
  <2>2. CASE Parent[m] \in S
    <3>1. Ancestors[m] = Lineage(Parent[m])
      BY <2>2, NothingAssumption, AncestorsEquation DEF Lineage
    <3>2. ASSUME NEW b \in Ancestors[m] PROVE \E a \in Lineage(m) : Parent[a] = b
      <4>1. CASE b = Parent[m]
        BY <4>1 DEF Lineage
      <4>2. CASE b \in Ancestors[Parent[m]]
        <5>1. PICK a \in Lineage(Parent[m]) : Parent[a] = b
          BY <2>2, <4>2
        <5> QED
          BY <3>1, <5>1 DEF Lineage
      <4> QED
        BY <3>1, <3>2, <4>1, <4>2 DEF Lineage
    <3> QED
      BY <3>2
  <2> QED
    BY <1>1, <2>1, <2>2
<1>2. Items \subseteq S
  BY <1>1, FromParents
<1> QED
  BY <1>2

(* The line of an item is that of its parent and itself.                   *)
LEMMA LineFacts ==
    ASSUME NEW i \in Items
    PROVE  /\ i \in Lineage(i) /\ Lineage(i) \subseteq Items
           /\ Parent[i] # Nothing => Parent[i] \in Items /\ Ancestors[i] = Lineage(Parent[i])
           /\ \A j \in Lineage(i) : Lineage(j) \subseteq Lineage(i) /\ Ancestors[j] \subseteq Ancestors[i]
BY AncestorsEquation, AncestorFacts, ParentAssumption DEF Lineage

(* Of two siblings, neither is above the other, nor are both in a line.    *)
LEMMA SiblingsApart ==
    ASSUME NEW a \in Items, NEW b \in Items, a # b, Parent[a] = Parent[b], Parent[a] # Nothing
    PROVE  /\ a \notin Ancestors[b]
           /\ Ancestors[a] = Ancestors[b]
           /\ \A k \in Items : ~(a \in Lineage(k) /\ b \in Lineage(k))
<1>1. Ancestors[a] = Ancestors[b]
  BY AncestorsEquation
<1>2. a \notin Ancestors[b] /\ b \notin Ancestors[a]
  BY <1>1, AncestorFacts
<1> QED
  BY <1>1, <1>2, LineIsChain

(* A finite set that an order without circles is given on has an element   *)
(* that is below no other.                                                 *)
LEMMA Maximal ==
    ASSUME NEW S, IsFiniteSet(S), S # {}, NEW R,
           \A x \in S : <<x, x>> \notin R,
           \A x, y, z \in S : <<x, y>> \in R /\ <<y, z>> \in R => <<x, z>> \in R
    PROVE  \E x \in S : \A y \in S : <<x, y>> \notin R
<1> DEFINE Over(x) == {y \in S : <<x, y>> \in R}
           T == {Over(x) : x \in S}
<1>1. IsWellFoundedOn(StrictSubsetOrdering(S), SUBSET S)
  BY FS_StrictSubsetOrderingWellFounded, FS_FiniteSubsetsOfFinite
<1>2. T \subseteq SUBSET S /\ T # {}
  <2>1. PICK x \in S : TRUE
    OBVIOUS
  <2>2. Over(x) \in T
    BY <2>1
  <2>3. \A y \in S : Over(y) \in SUBSET S
    OBVIOUS
  <2> HIDE DEF Over
  <2>4. T \subseteq SUBSET S
    BY <2>3
  <2> QED
    BY <2>2, <2>4
<1> HIDE DEF T
<1>3. PICK m \in T : \A n \in T : ~(<<n, m>> \in StrictSubsetOrdering(S))
  BY <1>1, <1>2, WFMin
<1>4. PICK x \in S : m = Over(x)
  BY DEF T
<1>5. ASSUME NEW y \in S, <<x, y>> \in R PROVE FALSE
  <2>1. Over(y) \in T /\ Over(y) \subseteq Over(x) /\ y \in Over(x) /\ y \notin Over(y)
    BY <1>5 DEF T
  <2>2. <<Over(y), Over(x)>> \in StrictSubsetOrdering(S)
    BY <2>1 DEF StrictSubsetOrdering
  <2> QED
    BY <1>3, <1>4, <2>1, <2>2
<1> QED
  BY <1>5

-----------------------------------------------------------------------------
(* The order in which siblings are painted is one.                         *)
LEMMA PaintOrder ==
    ASSUME NEW s, s.z \in [Items -> Int]
    PROVE  /\ \A a, b, c \in Items :
                 PaintedBefore(s, a, b) /\ PaintedBefore(s, b, c) => PaintedBefore(s, a, c)
           /\ \A a, b \in Items : ~(PaintedBefore(s, a, b) /\ PaintedBefore(s, b, a))
           /\ \A a, b \in Items :
                 a # b /\ Parent[a] = Parent[b] /\ Parent[a] # Nothing =>
                     PaintedBefore(s, a, b) \/ PaintedBefore(s, b, a)
BY BirthAssumption DEF PaintedBefore

(* Of siblings, one is the topmost.                                        *)
LEMMA TopmostIsThere ==
    ASSUME NEW s, s.z \in [Items -> Int], NEW P \in Items,
           NEW siblings \in SUBSET Items, siblings # {}, \A c \in siblings : Parent[c] = P
    PROVE  /\ Topmost(s, siblings) \in siblings
           /\ \A j \in siblings \ {Topmost(s, siblings)} :
                 PaintedBefore(s, j, Topmost(s, siblings))
<1> DEFINE R == {e \in siblings \X siblings : PaintedBefore(s, e[1], e[2])}
<1>1. \A a, b \in siblings : <<a, b>> \in R <=> PaintedBefore(s, a, b)
  OBVIOUS
<1> HIDE DEF R
<1>2. IsFiniteSet(siblings)
  BY TreeAssumption, FS_Subset
<1>3. PICK i \in siblings : \A j \in siblings : <<i, j>> \notin R
  BY <1>1, <1>2, PaintOrder, Maximal
<1>4. \A j \in siblings \ {i} : PaintedBefore(s, j, i)
  BY <1>1, <1>3, PaintOrder, NothingAssumption
<1> QED
  BY <1>3, <1>4 DEF Topmost

(* What is painted above the lower, is above what the lower is above.      *)
LEMMA AboveTransitive ==
    ASSUME NEW s, s.z \in [Items -> Int], NEW i \in Items, NEW j \in Items, NEW k \in Items,
           Above(s, i, j), Above(s, j, k)
    PROVE  Above(s, i, k)
<1> DEFINE Branches(u, v, a, b) ==
              /\ a \in Lineage(u) /\ b \in Lineage(v)
              /\ a # b /\ Parent[a] = Parent[b] /\ Parent[a] # Nothing /\ PaintedBefore(s, b, a)
<1>1. \A u, v \in Items :
         Above(s, u, v) <=> (v \in Ancestors[u] \/ \E a, b : Branches(u, v, a, b))
  BY DEF Above, Lineage
<1>2. CASE j \in Ancestors[i] /\ k \in Ancestors[j]
  BY <1>1, <1>2, AncestorFacts
<1>3. ASSUME j \in Ancestors[i], NEW a, NEW b, Branches(j, k, a, b) PROVE Above(s, i, k)
  <2>1. a \in Lineage(i)
    BY <1>3, LineFacts DEF Lineage
  <2> QED
    BY <1>1, <1>3, <2>1
<1>4. ASSUME NEW a, NEW b, Branches(i, j, a, b), k \in Ancestors[j] PROVE Above(s, i, k)
  <2>1. a \in Items /\ b \in Items /\ k \in Lineage(j)
    BY <1>4, LineFacts DEF Lineage
  <2>2. CASE k \in Ancestors[b]
    <3>1. k \in Ancestors[a] /\ Ancestors[a] \subseteq Ancestors[i]
      BY <1>4, <2>1, <2>2, SiblingsApart, LineFacts
    <3> QED
      BY <1>1, <3>1
  <2>3. CASE k = b \/ b \in Ancestors[k]
    <3>1. Branches(i, k, a, b)
      BY <1>4, <2>3 DEF Lineage
    <3> QED
      BY <1>1, <3>1
  <2> QED
    BY <1>4, <2>1, <2>2, <2>3, LineIsChain
<1>5. ASSUME NEW a, NEW b, Branches(i, j, a, b), NEW c, NEW d, Branches(j, k, c, d)
      PROVE  Above(s, i, k)
  <2>1. a \in Items /\ b \in Items /\ c \in Items /\ d \in Items
    BY <1>5, LineFacts
  <2>2. CASE b = c
    <3>1. PaintedBefore(s, d, a) /\ a # d
      BY <1>5, <2>1, <2>2, PaintOrder
    <3>2. Branches(i, k, a, d)
      BY <1>5, <2>2, <3>1
    <3> QED
      BY <1>1, <3>2
  <2>3. CASE b \in Ancestors[c]
    <3>1. b \in Ancestors[d]
      BY <1>5, <2>1, <2>3, SiblingsApart
    <3>2. b \in Lineage(k)
      BY <1>5, <3>1, LineFacts DEF Lineage
    <3> QED
      BY <1>1, <1>5, <3>2
  <2>4. CASE c \in Ancestors[b]
    <3>1. c \in Ancestors[a]
      BY <1>5, <2>1, <2>4, SiblingsApart
    <3>2. c \in Lineage(i)
      BY <1>5, <3>1, LineFacts DEF Lineage
    <3> QED
      BY <1>1, <1>5, <3>2
  <2> QED
    BY <1>5, <2>2, <2>3, <2>4, LineIsChain
<1> HIDE DEF Branches
<1> QED
  BY <1>1, <1>2, <1>3, <1>4, <1>5

(* Nothing is above itself.                                                *)
LEMMA AboveIrreflexive ==
    ASSUME NEW s, NEW i \in Items
    PROVE  ~Above(s, i, i)
<1>1. SUFFICES ASSUME NEW a \in Lineage(i), NEW b \in Lineage(i),
                      a # b, Parent[a] = Parent[b], Parent[a] # Nothing
               PROVE  FALSE
  BY AncestorFacts DEF Above, Lineage
<1> QED
  BY <1>1, SiblingsApart, LineFacts

(* Of two items of a tree, one is above the other.                         *)
LEMMA AboveTotal ==
    ASSUME NEW s, s.z \in [Items -> Int], NEW root \in Items, Parent[root] = Nothing,
           NEW i \in Items, NEW j \in Items, i # j, root \in Lineage(i), root \in Lineage(j)
    PROVE  Above(s, i, j) \/ Above(s, j, i)
<1> SUFFICES ASSUME j \notin Ancestors[i], i \notin Ancestors[j]
             PROVE  Above(s, i, j) \/ Above(s, j, i)
  BY DEF Above
<1> DEFINE T == Lineage(i) \ Lineage(j)
<1>1. i \in T /\ T \subseteq Items
  BY LineFacts DEF Lineage
<1>2. PICK a \in T : Parent[a] \notin T
  BY <1>1, TreeAssumption
<1>3. Ancestors[root] = {}
  BY AncestorsEquation
<1>4. Parent[a] # Nothing
  <2>1. SUFFICES ASSUME Parent[a] = Nothing PROVE FALSE
    OBVIOUS
  <2>2. Ancestors[a] = {}
    BY <1>1, <2>1, AncestorsEquation
  <2> QED
    BY <1>1, <1>2, <1>3, <2>2, LineIsChain
<1> DEFINE P == Parent[a]
<1>5. P \in Lineage(i) /\ P \in Lineage(j) /\ P \in Ancestors[a] /\ a \in Items
  <2>1. P \in Ancestors[a] /\ a \in Items
    BY <1>1, <1>4, LineFacts
  <2>2. P \in Lineage(i)
    BY <2>1, LineFacts DEF Lineage
  <2> QED
    BY <1>2, <2>1, <2>2
<1>6. P # j
  BY <1>2, <1>5, LineFacts
<1>7. PICK b \in Lineage(j) : Parent[b] = P
  BY <1>5, <1>6, ChildTowards DEF Lineage
<1>8. a # b /\ b \in Items
  BY <1>2, <1>7, LineFacts
<1>9. PaintedBefore(s, a, b) \/ PaintedBefore(s, b, a)
  BY <1>4, <1>5, <1>7, <1>8, PaintOrder
<1> QED
  BY <1>2, <1>4, <1>7, <1>8, <1>9 DEF Above, Lineage

(* The items of a window are those of the tree of its content item.        *)
LEMMA ItemsOfWindow ==
    ASSUME NEW i \in Items, NEW w \in Windows
    PROVE  WindowOf[i] = w <=> Content[w] \in Lineage(i)
<1>1. \A v \in Windows : i \in Subtree(Content[v]) <=> Content[v] \in Lineage(i)
  BY ContentAssumption DEF Subtree, SubtreeOf, Lineage
<1>2. ASSUME NEW v \in Windows, Content[v] \in Lineage(i), Content[w] \in Lineage(i)
      PROVE  v = w
  <2>1. Ancestors[Content[v]] = {} /\ Ancestors[Content[w]] = {}
    BY ContentAssumption, AncestorsEquation
  <2> QED
    BY <1>2, <2>1, ContentAssumption, LineIsChain
<1>3. WindowOf[i] = IF \E v \in Windows : i \in Subtree(Content[v])
                    THEN CHOOSE v \in Windows : i \in Subtree(Content[v]) ELSE Nothing
  BY DEF WindowOf
<1>4. w # Nothing
  BY NothingAssumption
<1> QED
  BY <1>1, <1>2, <1>3, <1>4

(* What is pressed is above everything else that takes the press.          *)
LEMMA ReceiverIsTopmost ==
    ASSUME NEW s, s.z \in [Items -> Int], s.live \in SUBSET Items,
           NEW w \in Windows, NEW p, Receiver(s, w, p) # Nothing
    PROVE  LET r == Receiver(s, w, p) IN
           /\ r \in s.live /\ WindowOf[r] = w /\ TakesPress(s, r, p)
           /\ \A j \in s.live : WindowOf[j] = w /\ TakesPress(s, j, p) /\ j # r => Above(s, r, j)
<1> DEFINE takers == {i \in s.live : WindowOf[i] = w /\ TakesPress(s, i, p)}
           R == {e \in takers \X takers : Above(s, e[2], e[1])}
<1>1. takers \in SUBSET Items /\ IsFiniteSet(takers)
  <2>1. takers \in SUBSET Items
    OBVIOUS
  <2> QED
    BY <2>1, TreeAssumption, FS_Subset
<1>2. \A a, b \in takers : <<a, b>> \in R <=> Above(s, b, a)
  OBVIOUS
<1>3. \A i \in takers : Content[w] \in Lineage(i)
  BY <1>1, ItemsOfWindow
<1>4. takers # {}
  BY DEF Receiver
<1> HIDE DEF R
<1>5. PICK i \in takers : \A j \in takers : <<i, j>> \notin R
  <2>1. \A a \in takers : <<a, a>> \notin R
    BY <1>1, <1>2, AboveIrreflexive
  <2>2. \A a, b, c \in takers : <<a, b>> \in R /\ <<b, c>> \in R => <<a, c>> \in R
    BY <1>1, <1>2, AboveTransitive
  <2> HIDE DEF takers
  <2> QED
    BY <1>1, <1>4, <2>1, <2>2, Maximal
<1>6. \A j \in takers \ {i} : Above(s, i, j)
  BY <1>1, <1>2, <1>3, <1>5, AboveTotal, ContentAssumption
<1>7. Receiver(s, w, p) = CHOOSE k \in takers : \A j \in takers \ {k} : Above(s, k, j)
  BY <1>4 DEF Receiver
<1>8. /\ Receiver(s, w, p) \in takers
      /\ \A j \in takers \ {Receiver(s, w, p)} : Above(s, Receiver(s, w, p), j)
  <2> HIDE DEF takers
  <2> QED
    BY <1>5, <1>6, <1>7
<1> QED
  BY <1>8

-----------------------------------------------------------------------------
(* The walk for a blocker, at one item, when f is what it finds in others. *)

Clears(s, p, t, c) == ContainsPoint(s, c, p) /\ c \in Subtree(t)

Leads(t, c) == c \in Ancestors[t]

Blocks(s, p, c) == ContainsPoint(s, c, p) /\ PlausibleBlocker(s, c)

Inside(s, p, t, f, i) ==
    [c \in Reached(s, i, p) |-> IF Clears(s, p, t, c) THEN Nothing ELSE f[c]]

Deciding(s, p, t, f, i) ==
    {c \in Reached(s, i, p) : \/ Clears(s, p, t, c) \/ Leads(t, c)
                              \/ Inside(s, p, t, f, i)[c] # Nothing \/ Blocks(s, p, c)}

Found(s, p, t, f, i) ==
    LET inside == Inside(s, p, t, f, i)
        first  == Topmost(s, Deciding(s, p, t, f, i))
    IN  IF Deciding(s, p, t, f, i) = {} THEN Nothing
        ELSE IF Clears(s, p, t, first) \/ Leads(t, first) \/ inside[first] # Nothing
        THEN inside[first]
        ELSE IF OwnClickArea(s, first, t) THEN Nothing ELSE first

(* A function that says for every item what the walk finds in it.          *)
Walks(s, p, t, f) == f = [i \in Items |-> Found(s, p, t, f, i)]

(* What is found depends on what is found in the children that are reached. *)
LEMMA FoundFromChildren ==
    ASSUME NEW s, NEW p, NEW t, NEW f, NEW g, NEW i,
           \A c \in Reached(s, i, p) : f[c] = g[c]
    PROVE  Found(s, p, t, f, i) = Found(s, p, t, g, i)
<1>1. Inside(s, p, t, f, i) = Inside(s, p, t, g, i)
  BY DEF Inside
<1>2. Deciding(s, p, t, f, i) = Deciding(s, p, t, g, i)
  BY <1>1 DEF Deciding
<1> QED
  BY <1>1, <1>2 DEF Found

(* A set of numbers with the first and with every number the next.         *)
LEMMA SetInduction ==
    ASSUME NEW S, 0 \in S, \A n \in Nat : n \in S => n + 1 \in S
    PROVE  Nat \subseteq S
<1> DEFINE T == Nat \ S
<1> SUFFICES ASSUME T # {} PROVE FALSE
  OBVIOUS
<1>1. PICK n \in T : \A m \in T : ~(<<m, n>> \in OpToRel(<, Nat))
  BY NatLessThanWellFounded, WFMin
<1>2. n \in Nat /\ n \notin S /\ \A m \in T : ~(m < n)
  BY <1>1 DEF OpToRel
<1>3. n - 1 \in Nat /\ n - 1 \in S
  BY <1>2
<1> QED
  BY <1>2, <1>3

(* The number of the items in the tree of an item: fewer in a child's.     *)
Size(i) == Cardinality(Subtree(i))

LEMMA SizeOfChild ==
    ASSUME NEW i \in Items, NEW c \in Items, Parent[c] = i
    PROVE  Size(i) \in Nat /\ Size(c) \in Nat /\ Size(c) < Size(i)
<1>1. Subtree(c) \subseteq Items /\ Subtree(i) \subseteq Items
  BY DEF Subtree, SubtreeOf
<1>2. i \in Ancestors[c] /\ i \in Items /\ i # Nothing
  BY NothingAssumption, AncestorsEquation
<1>3. ASSUME NEW j \in Subtree(c) PROVE j \in Subtree(i) /\ j # i
  <2>1. j \in Items /\ (j = c \/ c \in Ancestors[j])
    BY <1>3 DEF Subtree, SubtreeOf
  <2>2. i \in Ancestors[j]
    BY <1>2, <2>1, AncestorFacts
  <2> QED
    BY <2>1, <2>2, AncestorFacts DEF Subtree, SubtreeOf
<1>4. i \in Subtree(i)
  BY DEF Subtree, SubtreeOf
<1>5. IsFiniteSet(Subtree(i)) /\ IsFiniteSet(Subtree(c))
  BY <1>1, TreeAssumption, FS_Subset
<1>6. Subtree(c) \subseteq Subtree(i) /\ Subtree(c) # Subtree(i)
  BY <1>3, <1>4
<1> QED
  BY <1>5, <1>6, FS_Subset, FS_CardinalityType DEF Size

(* The walk comes to an end: there is a function that says what it finds.  *)
LEMMA WalkExists ==
    ASSUME NEW s, s.live \in SUBSET Items, NEW p, NEW t
    PROVE  \E f : Walks(s, p, t, f)
<1> DEFINE Holds(f, i) == f[i] = Found(s, p, t, f, i)
           S == {n \in Nat : \E f : \A i \in Items : Size(i) < n => Holds(f, i)}
<1>1. \A i \in Items : Size(i) \in Nat
  <2>1. \A i \in Items : IsFiniteSet(Subtree(i))
    BY TreeAssumption, FS_Subset DEF Subtree, SubtreeOf
  <2> QED
    BY <2>1, FS_CardinalityType DEF Size
<1>2. 0 \in S
  BY <1>1
<1>3. ASSUME NEW n \in Nat, n \in S PROVE n + 1 \in S
  <2>1. PICK f : \A i \in Items : Size(i) < n => Holds(f, i)
    BY <1>3
  <2> DEFINE g == [i \in Items |-> Found(s, p, t, f, i)]
  <2>2. ASSUME NEW i \in Items, Size(i) < n + 1 PROVE Holds(g, i)
    <3>1. ASSUME NEW c \in Reached(s, i, p) PROVE f[c] = g[c]
      <4>1. c \in Items /\ Parent[c] = i
        BY <3>1 DEF Reached, PaintOrderChildren
      <4>2. Size(c) < n
        BY <1>1, <2>2, <4>1, SizeOfChild
      <4> QED
        BY <2>1, <4>1, <4>2
    <3>2. Found(s, p, t, f, i) = Found(s, p, t, g, i)
      BY <3>1, FoundFromChildren
    <3> QED
      BY <3>2
  <2> HIDE DEF g
  <2> QED
    BY <2>2
<1>4. Nat \subseteq S
  <2> HIDE DEF S
  <2> QED
    BY <1>2, <1>3, SetInduction
<1>5. \E n \in Nat : \A i \in Items : Size(i) < n
  <2>1. \A i \in Items : Size(i) <= Cardinality(Items)
    BY TreeAssumption, FS_Subset DEF Subtree, SubtreeOf, Size
  <2>2. Cardinality(Items) \in Nat
    BY TreeAssumption, FS_CardinalityType
  <2>3. Cardinality(Items) + 1 \in Nat /\ \A i \in Items : Size(i) < Cardinality(Items) + 1
    BY <1>1, <2>1, <2>2
  <2> QED
    BY <2>3
<1>6. PICK f : \A i \in Items : Holds(f, i)
  BY <1>1, <1>4, <1>5
<1> DEFINE g == [i \in Items |-> f[i]]
<1>7. ASSUME NEW i \in Items PROVE g[i] = Found(s, p, t, g, i)
  <2>1. \A c \in Reached(s, i, p) : f[c] = g[c]
    BY DEF Reached, PaintOrderChildren
  <2>2. Found(s, p, t, f, i) = Found(s, p, t, g, i)
    BY <2>1, FoundFromChildren
  <2> QED
    BY <1>6, <2>2
<1> QED
  BY <1>7 DEF Walks

(* So what the walk says is what such a function finds in the root.        *)
LEMMA WalkIsFound ==
    ASSUME NEW s, s.live \in SUBSET Items, NEW root, NEW p, NEW t
    PROVE  \E f : Walks(s, p, t, f) /\ TopmostInputBlockerAt(s, root, p, t) = f[root]
<1> DEFINE W(f) == f = [i \in Items |->
              LET reached  == Reached(s, i, p)
                  inside   == [c \in reached |-> IF Clears(s, p, t, c) THEN Nothing ELSE f[c]]
                  deciding == {c \in reached : \/ Clears(s, p, t, c) \/ Leads(t, c)
                                               \/ inside[c] # Nothing \/ Blocks(s, p, c)}
                  first    == Topmost(s, deciding)
              IN  CASE deciding = {} -> Nothing
                    [] deciding # {} /\ (Clears(s, p, t, first) \/ Leads(t, first) \/ inside[first] # Nothing)
                       -> inside[first]
                    [] OTHER -> IF OwnClickArea(s, first, t) THEN Nothing ELSE first]
<1>1. ASSUME NEW f PROVE Walks(s, p, t, f) <=> W(f)
  BY DEF Walks, Found, Inside, Deciding
<1>2. TopmostInputBlockerAt(s, root, p, t) = (CHOOSE f : W(f))[root]
  BY DEF TopmostInputBlockerAt, Clears, Leads, Blocks
<1> HIDE DEF W
<1>3. W(CHOOSE f : W(f))
  BY <1>1, WalkExists
<1> QED
  BY <1>1, <1>2, <1>3

(* The topmost child with something to say decides: a part of the target   *)
(* clears the point; what is found inside the child, or inside a container *)
(* of the target, is passed on; and else the child itself blocks.          *)
LEMMA FirstDecides ==
    ASSUME NEW s, s.z \in [Items -> Int], s.live \in SUBSET Items, NEW p, NEW t,
           NEW f, Walks(s, p, t, f), NEW i \in Items, NEW d \in Reached(s, i, p),
           Clears(s, p, t, d) \/ Leads(t, d) \/ Blocks(s, p, d) \/ f[d] # Nothing
    PROVE  \E first \in Reached(s, i, p) :
              /\ d # first => PaintedBefore(s, d, first)
              /\ \/ Clears(s, p, t, first)
                 \/ f[i] = f[first] /\ (Leads(t, first) \/ f[first] # Nothing)
                 \/ /\ f[first] = Nothing /\ Blocks(s, p, first)
                    /\ f[i] = IF OwnClickArea(s, first, t) THEN Nothing ELSE first
<1> DEFINE inside == Inside(s, p, t, f, i)
           deciding == Deciding(s, p, t, f, i)
           first == Topmost(s, deciding)
<1>1. d \in deciding
  BY DEF Deciding, Inside
<1>2. deciding \in SUBSET Items /\ \A c \in deciding : Parent[c] = i
  BY DEF Deciding, Reached, PaintOrderChildren
<1>3. first \in deciding /\ \A j \in deciding \ {first} : PaintedBefore(s, j, first)
  <2> HIDE DEF deciding
  <2> QED
    BY <1>1, <1>2, TopmostIsThere
<1>4. f[i] = IF Clears(s, p, t, first) \/ Leads(t, first) \/ inside[first] # Nothing
             THEN inside[first]
             ELSE IF OwnClickArea(s, first, t) THEN Nothing ELSE first
  BY <1>1 DEF Walks, Found
<1>5. /\ first \in Reached(s, i, p)
      /\ inside[first] = IF Clears(s, p, t, first) THEN Nothing ELSE f[first]
      /\ \/ Clears(s, p, t, first) \/ Leads(t, first)
         \/ inside[first] # Nothing \/ Blocks(s, p, first)
  BY <1>3 DEF Deciding, Inside
<1> HIDE DEF inside, deciding, first
<1> QED
  BY <1>1, <1>3, <1>4, <1>5

(* An item that would take the press at a point, among items that exist.   *)
Taker(s, p, r) ==
    /\ r \in Items /\ Lineage(r) \subseteq s.live /\ TakesPress(s, r, p)

(* The walk reaches it, and what contains it.                              *)
LEMMA WayToTaker ==
    ASSUME NEW s, NEW p, NEW r, Taker(s, p, r), NEW m \in Lineage(r)
    PROVE  /\ m \in Items
           /\ \A n : Parent[m] = n => m \in Reached(s, n, p)
<1>1. m \in Items /\ m \in s.live /\ Lineage(m) \subseteq Lineage(r) /\ r \in Items
  BY LineFacts DEF Taker
<1>2. Visible(s, m)
  BY <1>1 DEF Taker, TakesPress, ContainsPoint, Visible, Lineage
<1>3. m \in Clips => InBox(s, m, p)
  BY <1>1 DEF Taker, TakesPress, ContainsPoint, ClippedAway, Lineage
<1> QED
  BY <1>1, <1>2, <1>3 DEF Reached, PaintOrderChildren, ContainsPoint

(* Items in another branch than the target, and their children.            *)
Beside(c, t) == c \in Items /\ c \notin Ancestors[t] /\ t \notin Lineage(c)

LEMMA ChildrenBeside ==
    ASSUME NEW t \in Items, NEW c, Beside(c, t), NEW d \in Items, Parent[d] = c
    PROVE  Beside(d, t)
<1>1. c # Nothing /\ Ancestors[d] = Lineage(c) /\ c \in Ancestors[d]
  BY NothingAssumption, LineFacts DEF Beside
<1>2. d \notin Ancestors[t] /\ d # t
  BY <1>1, AncestorFacts DEF Beside
<1> QED
  BY <1>1, <1>2 DEF Beside, Lineage

(* In another branch than the target nothing clears the point, and an item *)
(* that would take the press is found, or one above it.                    *)
LEMMA CoverIsFound ==
    ASSUME NEW s, s.z \in [Items -> Int], s.live \in SUBSET Items, NEW p, NEW t \in Items,
           NEW f, Walks(s, p, t, f), NEW r, Taker(s, p, r), r \in s.opaque,
           NEW c \in Lineage(r), Beside(c, t)
    PROVE  c \in Ancestors[r] => f[c] # Nothing
<1> DEFINE T == {m \in Lineage(r) : Beside(m, t) /\ m \in Ancestors[r] /\ f[m] = Nothing}
           R == {e \in T \X T : e[1] \in Ancestors[e[2]]}
<1> SUFFICES ASSUME T # {} PROVE FALSE
  OBVIOUS
<1>1. T \in SUBSET Items /\ IsFiniteSet(T) /\ r \in Items
  <2>1. T \in SUBSET Items /\ r \in Items
    BY LineFacts DEF Taker
  <2> QED
    BY <2>1, TreeAssumption, FS_Subset
<1>2. \A x, y \in T : <<x, y>> \in R <=> x \in Ancestors[y]
  OBVIOUS
<1>3. PICK m \in T : \A n \in T : m \notin Ancestors[n]
  <2>1. \A x \in T : <<x, x>> \notin R
    BY <1>1, <1>2, AncestorFacts
  <2>2. \A x, y, z \in T : <<x, y>> \in R /\ <<y, z>> \in R => <<x, z>> \in R
    BY <1>1, <1>2, AncestorFacts
  <2>3. \E x \in T : \A y \in T : <<x, y>> \notin R
    <3> HIDE DEF T, R
    <3> QED
      BY <1>1, <2>1, <2>2, Maximal
  <2> QED
    BY <1>2, <2>3
<1>4. PICK a \in Lineage(r) : Parent[a] = m
  BY <1>1, <1>3, ChildTowards
<1>5. a \in Items /\ m \in Ancestors[a] /\ a \in Reached(s, m, p) /\ Beside(a, t)
  <2>1. a \in Items /\ a \in Reached(s, m, p)
    BY <1>4, WayToTaker
  <2>2. m \in Ancestors[a]
    BY <1>1, <1>3, <1>4, <2>1, NothingAssumption, LineFacts DEF Lineage
  <2> QED
    BY <1>1, <1>3, <1>4, <2>1, <2>2, ChildrenBeside
<1>6. Blocks(s, p, a) \/ f[a] # Nothing
  <2>1. CASE a = r
    BY <2>1 DEF Blocks, PlausibleBlocker, Taker, TakesPress, ContainsPoint
  <2>2. CASE a \in Ancestors[r]
    BY <1>3, <1>5, <2>2
  <2> QED
    BY <2>1, <2>2 DEF Lineage
<1>7. PICK first \in Reached(s, m, p) :
         \/ Clears(s, p, t, first)
         \/ f[m] = f[first] /\ (Leads(t, first) \/ f[first] # Nothing)
         \/ f[m] = IF OwnClickArea(s, first, t) THEN Nothing ELSE first
  BY <1>1, <1>3, <1>5, <1>6, FirstDecides
<1>8. first \in Items /\ Parent[first] = m /\ Beside(first, t)
  BY <1>1, <1>3, <1>7, ChildrenBeside DEF Reached, PaintOrderChildren
<1>9. ~Clears(s, p, t, first) /\ ~Leads(t, first) /\ ~OwnClickArea(s, first, t)
  BY <1>3, <1>8 DEF Clears, Leads, OwnClickArea, Subtree, SubtreeOf, Beside, Lineage
<1> QED
  BY <1>3, <1>7, <1>8, <1>9, NothingAssumption

(* The check of a point keeps what it promises: if the walk finds no       *)
(* blocker of a target, then what is pressed at the point is below the     *)
(* target, a part of it, or its own click area; or it is not opaque.       *)
LEMMA FreePointIsNotCovered ==
    ASSUME NEW s, s.z \in [Items -> Int], s.live \in SUBSET Items,
           \A i \in s.live : Ancestors[i] \subseteq s.live,
           NEW w \in Windows, NEW t \in Items, WindowOf[t] = w, NEW p,
           TopmostInputBlockerAt(s, Content[w], p, t) = Nothing,
           NEW r, r = Receiver(s, w, p), r # Nothing, r \in s.opaque, Above(s, r, t)
    PROVE  r \in Subtree(t) \/ OwnClickArea(s, r, t)
<1> DEFINE root == Content[w]
<1>1. PICK f : Walks(s, p, t, f) /\ f[root] = Nothing
  BY WalkIsFound
<1>2. /\ r \in s.live /\ WindowOf[r] = w /\ TakesPress(s, r, p)
      /\ \A j \in s.live : WindowOf[j] = w /\ TakesPress(s, j, p) /\ j # r => Above(s, r, j)
  BY ReceiverIsTopmost
<1>3. r \in Items /\ Taker(s, p, r)
  BY <1>2 DEF Taker, Lineage
<1>4. SUFFICES ASSUME NEW a \in Lineage(r), NEW b \in Lineage(t),
                      a # b, Parent[a] = Parent[b], Parent[a] # Nothing, PaintedBefore(s, b, a)
               PROVE  OwnClickArea(s, r, t)
  BY <1>3 DEF Above, Lineage, Subtree, SubtreeOf
<1> DEFINE P == Parent[a]
<1>5. /\ a \in Items /\ b \in Items /\ P \in Items
      /\ Ancestors[a] = Lineage(P) /\ Ancestors[b] = Lineage(P)
      /\ Lineage(P) \subseteq Ancestors[t] /\ Lineage(P) \subseteq Ancestors[r]
  BY <1>3, <1>4, LineFacts
<1>6. /\ root \in Items /\ Ancestors[root] = {} /\ root \in Lineage(r) /\ root \in Lineage(t)
  BY <1>2, <1>3, ContentAssumption, ItemsOfWindow, AncestorsEquation
<1>7. root \in Lineage(P)
  <2>1. P \in Lineage(t)
    BY <1>5, LineFacts DEF Lineage
  <2> QED
    BY <1>6, <2>1, LineIsChain DEF Lineage
<1> DEFINE N == {n \in Lineage(P) : f[n] = Nothing}
<1>8. PICK n \in N : \A k \in N : n \notin Ancestors[k]
  <2> DEFINE R == {e \in N \X N : e[1] \in Ancestors[e[2]]}
  <2>1. root \in N /\ N \in SUBSET Items
    BY <1>1, <1>5, <1>7, LineFacts
  <2>2. IsFiniteSet(N)
    BY <2>1, TreeAssumption, FS_Subset
  <2>3. \A x, y \in N : <<x, y>> \in R <=> x \in Ancestors[y]
    OBVIOUS
  <2>4. \A x \in N : <<x, x>> \notin R
    BY <2>1, <2>3, AncestorFacts
  <2>5. \A x, y, z \in N : <<x, y>> \in R /\ <<y, z>> \in R => <<x, z>> \in R
    BY <2>1, <2>3, AncestorFacts
  <2>6. \E x \in N : \A y \in N : <<x, y>> \notin R
    <3> HIDE DEF N, R
    <3> QED
      BY <2>1, <2>2, <2>4, <2>5, Maximal
  <2> QED
    BY <2>3, <2>6
<1>9. n \in Items /\ n \in Lineage(P) /\ n \in Ancestors[t] /\ n \in Ancestors[r] /\ f[n] = Nothing
  BY <1>5, <1>8, LineFacts
<1>10. PICK m \in Lineage(r) :
          Parent[m] = n /\ ((m = a /\ n = P) \/ (m \in Lineage(P) /\ m \in Ancestors[t]))
  <2>1. CASE n = P
    BY <2>1
  <2>2. CASE n \in Ancestors[P]
    <3>1. PICK m \in Lineage(P) : Parent[m] = n
      BY <1>5, <2>2, ChildTowards
    <3> QED
      BY <1>5, <3>1 DEF Lineage
  <2> QED
    BY <1>9, <2>1, <2>2 DEF Lineage
<1>11. m \in Items /\ m \in Reached(s, n, p) /\ Ancestors[m] = Lineage(n)
  BY <1>3, <1>9, <1>10, WayToTaker, NothingAssumption, LineFacts
<1>12. Beside(a, t)
  <2>1. a \notin Ancestors[t]
    BY <1>4, <1>5, SiblingsApart DEF Lineage
  <2>2. t # a
    BY <1>4, <1>5, SiblingsApart, LineFacts
  <2>3. t \notin Ancestors[a]
    BY <1>5, AncestorFacts
  <2> QED
    BY <1>5, <2>1, <2>2, <2>3 DEF Beside, Lineage
<1>13. Leads(t, m) \/ Blocks(s, p, m) \/ f[m] # Nothing
  <2>1. CASE m \in Ancestors[t]
    BY <2>1 DEF Leads
  <2>2. CASE m = a /\ a = r
    BY <1>2, <2>2 DEF Blocks, PlausibleBlocker, TakesPress, ContainsPoint
  <2>3. CASE m = a /\ a \in Ancestors[r]
    BY <1>1, <1>3, <1>12, <2>3, CoverIsFound
  <2> QED
    BY <1>10, <2>1, <2>2, <2>3 DEF Lineage
<1>14. PICK first \in Reached(s, n, p) :
          /\ m # first => PaintedBefore(s, m, first)
          /\ \/ Clears(s, p, t, first)
             \/ f[n] = f[first] /\ (Leads(t, first) \/ f[first] # Nothing)
             \/ /\ f[first] = Nothing /\ Blocks(s, p, first)
                /\ f[n] = IF OwnClickArea(s, first, t) THEN Nothing ELSE first
  BY <1>1, <1>9, <1>11, <1>13, FirstDecides
<1>15. /\ first \in Items /\ first \in s.live /\ Parent[first] = n /\ n # Nothing
       /\ Ancestors[first] = Lineage(n)
  BY <1>9, <1>14, NothingAssumption, LineFacts DEF Reached, PaintOrderChildren
<1>16. ASSUME first \in Lineage(t) PROVE first = m /\ m \in Lineage(P)
  <2>1. CASE m \in Lineage(P) /\ m \in Ancestors[t]
    <3>1. m \in Lineage(t)
      BY <2>1 DEF Lineage
    <3> QED
      BY <1>10, <1>11, <1>15, <1>16, <2>1, <3>1, SiblingsApart
  <2>2. CASE m = a /\ n = P
    <3>1. first = b
      BY <1>4, <1>5, <1>15, <1>16, <2>2, SiblingsApart
    <3> QED
      BY <1>4, <1>5, <1>14, <2>2, <3>1, PaintOrder
  <2> QED
    BY <1>10, <2>1, <2>2
<1>17. ~(m \in Lineage(P) /\ f[m] = Nothing)
  BY <1>8, <1>9, <1>11, LineFacts
<1>18. ~Clears(s, p, t, first)
  <2>1. SUFFICES ASSUME first = t \/ t \in Ancestors[first] PROVE FALSE
    BY DEF Clears, Subtree, SubtreeOf
  <2>2. t \notin Ancestors[first]
    BY <1>9, <1>15, AncestorFacts DEF Lineage
  <2>3. t \in Lineage(P)
    BY <1>16, <2>1, <2>2, LineFacts
  <2> QED
    BY <1>5, <2>3, AncestorFacts
<1>19. ~(f[n] = f[first] /\ (Leads(t, first) \/ f[first] # Nothing))
  BY <1>9, <1>16, <1>17 DEF Leads, Lineage
<1>20. /\ f[first] = Nothing /\ Blocks(s, p, first) /\ OwnClickArea(s, first, t)
  BY <1>9, <1>14, <1>15, <1>18, <1>19, NothingAssumption
<1>21. SUFFICES ASSUME first # r PROVE FALSE
  BY <1>20
<1>22. first # m
  <2>1. SUFFICES ASSUME first = m PROVE FALSE
    OBVIOUS
  <2>2. m = a /\ a \in Ancestors[r]
    BY <1>10, <1>17, <1>20, <1>21, <2>1 DEF Lineage
  <2> QED
    BY <1>1, <1>3, <1>12, <1>20, <2>1, <2>2, CoverIsFound
<1>23. TakesPress(s, first, p)
  <2>1. Ancestors[first] \subseteq Ancestors[r]
    BY <1>3, <1>10, <1>11, <1>15, LineFacts
  <2> QED
    BY <1>2, <1>20, <2>1 DEF TakesPress, ClippedAway, Blocks, PlausibleBlocker
<1>24. WindowOf[first] = w
  <2>1. n \in Lineage(r)
    BY <1>9 DEF Lineage
  <2>2. root \in Lineage(n)
    BY <1>3, <1>6, <2>1, LineIsChain DEF Lineage
  <2> QED
    BY <1>15, <2>2, ItemsOfWindow DEF Lineage
<1>25. Above(s, r, first)
  BY <1>2, <1>15, <1>21, <1>23, <1>24
<1>26. Above(s, first, r)
  BY <1>10, <1>14, <1>15, <1>22 DEF Above, Lineage
<1> QED
  BY <1>3, <1>15, <1>25, <1>26, AboveTransitive, AboveIrreflexive

-----------------------------------------------------------------------------
(* The check of a point, and the event that follows it.                    *)

(* The events before which a point is checked.                             *)
Touches == {"press", "touchBegin"}

Ahead(todo) == \E i \in 1..Len(todo) : todo[i] \in Touches

(* Before it there is nothing but the activation of the window, and in a   *)
(* long press not even that.                                               *)
PathOf(c) ==
    \A i \in 1..Len(c.todo) : c.todo[i] \in Touches =>
        /\ \A j \in 1..(i - 1) : c.todo[j] = "activate"
        /\ c.method = "longPressNode" => i = 1

Checked(c) ==
    /\ c.target \in Items /\ c.window = WindowOf[c.target] /\ c.window # Nothing
    /\ Reasons(scene, c.target, c.at) = {}

(* The items that are there are there with their ancestors.                *)
SceneInv ==
    /\ \A i \in scene.live : Ancestors[i] \subseteq scene.live
    /\ scene.z \in [Items -> Int]

PathInv == InCall /\ call.method \in Gestures \cup ByHand => PathOf(call)

(* Until it is sent, no application code runs: the window is active as it  *)
(* was when the call began, and the point is still free.                   *)
CheckedInv ==
    InCall /\ Ahead(call.todo) /\ call.sent = 0 /\ (call.ready \/ call.method = "longPressNode") =>
        /\ pc = "running"
        /\ call.method # "longPressNode" => active = call.window
        /\ Checked(call)

CInv ==
    /\ SceneInv
    /\ call.sent \in Nat
    /\ PathInv
    /\ CheckedInv

(* CInv holds before the first call.                                       *)
LEMMA InitCInv == Init => CInv
<1> SUFFICES ASSUME Init PROVE CInv
  OBVIOUS
<1>1. scene \in Scenes /\ call.sent = 0 /\ ~InCall
  BY ScenesAssumption DEF Init, NoCall, InCall
<1>2. SceneInv
  BY <1>1, LiveAssumption DEF Init, SceneInv, Scenes
<1> QED
  BY <1>1, <1>2 DEF CInv, PathInv, CheckedInv

(* Only gestures and the client's own events touch.                        *)
LEMMA TouchesAreGestures ==
    ASSUME NEW method \in Methods \ (Gestures \cup ByHand), NEW todo \in Seq(StepsOf(method))
    PROVE  ~Ahead(todo)
<1>1. StepsOf(method) \cap Touches = {}
  BY DEF Methods, Gestures, ByHand, StepsOf, Touches, KeyEvents
<1> QED
  BY <1>1 DEF Ahead

(* Nothing is to be touched in what a call does next.                      *)
LEMMA NothingAheadCInv ==
    ASSUME IInv', call'.sent \in Nat, InCall' => ~Ahead(call'.todo)
    PROVE  PathInv' /\ CheckedInv'
<1>1. InCall' => call'.todo \in Seq(StepsOf(call'.method))
  BY DEF IInv, CallInv
<1>2. InCall' => PathOf(call')
  BY DEF PathOf, Ahead
<1> QED
  BY <1>2 DEF PathInv, CheckedInv

(* A call that is no gesture has nothing to touch.                         *)
LEMMA OtherMethodsCInv ==
    ASSUME IInv', call'.sent \in Nat, InCall' => call'.method \notin Gestures \cup ByHand
    PROVE  PathInv' /\ CheckedInv'
<1>1. InCall' => call'.method \in Methods /\ call'.todo \in Seq(StepsOf(call'.method))
  BY DEF IInv, CallInv
<1>2. InCall' => ~Ahead(call'.todo)
  BY <1>1, TouchesAreGestures
<1> QED
  BY <1>2, NothingAheadCInv

(* A call that begins is checked, if it is to touch anything.              *)
LEMMA BeginCInv ==
    ASSUME CInv, NEW c, Begin(c), DOMAIN c = CallFields, c.sent = 0,
           c.method \in Gestures \cup ByHand => PathOf(c),
           Ahead(c.todo) => Checked(c)
    PROVE  CInv'
<1>1. /\ call'.todo = c.todo /\ call'.method = c.method /\ call'.window = c.window
      /\ call'.target = c.target /\ call'.at = c.at /\ call'.sent = 0
      /\ call'.ready = (active = c.window)
  BY NoCallFields DEF Begin
<1>2. pc' = "running" /\ UNCHANGED <<scene, active>>
  BY DEF Begin, sceneVars
<1>3. SceneInv' /\ call'.sent \in Nat
  BY <1>1, <1>2 DEF CInv, SceneInv
<1>4. PathInv'
  BY <1>1, <1>2 DEF PathInv, PathOf, InCall
<1>5. CheckedInv'
  <2>1. Ahead(c.todo) => Checked(call)'
    BY <1>1, <1>2 DEF Checked
  <2> QED
    BY <1>1, <1>2, <2>1 DEF CheckedInv
<1> QED
  BY <1>3, <1>4, <1>5 DEF CInv

(* A call that is refused.                                                 *)
LEMMA RefuseCInv == CInv /\ Refuse => CInv'
BY DEF Refuse, sceneVars, CInv, SceneInv, PathInv, CheckedInv, InCall

(* Pointer input is refused, or begins with the point checked.             *)
LEMMA PointerInputCInv ==
    ASSUME CInv, NEW method, NEW n, NEW p, NEW todo, PointerInput(method, n, {p}, p, todo),
           method \in Gestures \cup ByHand =>
              \A i \in 1..Len(todo) : todo[i] \in Touches =>
                  /\ \A j \in 1..(i - 1) : todo[j] = "activate"
                  /\ method = "longPressNode" => i = 1
    PROVE  CInv'
<1>1. CASE n \in Items /\ CanBeActedOn(n, {p})
  <2> DEFINE c == Pointer(method, n, p, todo)
  <2>1. /\ DOMAIN c = CallFields /\ c.method = method /\ c.todo = todo /\ c.sent = 0
        /\ c.target = n /\ c.at = p /\ c.window = WindowOf[n]
    BY DEF Pointer, NoCall, CallFields
  <2>2. Begin(c)
    BY <1>1 DEF PointerInput
  <2> HIDE DEF c
  <2>3. Checked(c)
    BY <1>1, <2>1 DEF Checked, CanBeActedOn
  <2>4. method \in Gestures \cup ByHand => PathOf(c)
    BY <2>1 DEF PathOf
  <2> QED
    BY <2>1, <2>2, <2>3, <2>4, BeginCInv
<1>2. CASE ~(n \in Items /\ CanBeActedOn(n, {p}))
  BY <1>2, RefuseCInv DEF PointerInput
<1> QED
  BY <1>1, <1>2

(* The gestures and the events of the client's own: what is before the     *)
(* first event is at most the activation of the window.                    *)
LEMMA TouchingCallsCInv ==
    ASSUME CInv, NEW n \in Targets,
           \/ ClickNode(n) \/ LongPressNode(n) \/ DragNode(n)
           \/ DispatchMouseEvent(n) \/ DispatchTouchEvent(n)
    PROVE  CInv'
<1>1. ASSUME NEW p, PointerInput("clickNode", n, {p}, p, <<"activate", "press", "release", "settle">>)
      PROVE  CInv'
  BY <1>1, PointerInputCInv DEF Touches
<1>2. ASSUME NEW p, PointerInput("longPressNode", n, {p}, p,
                                 <<"press", "hold", "activate", "release", "settle">>)
      PROVE  CInv'
  BY <1>2, PointerInputCInv DEF Touches
<1>3. ASSUME NEW p, PointerInput("dragNode", n, {p}, p,
                                 <<"activate", "press", "move", "move", "release", "settle">>)
      PROVE  CInv'
  BY <1>3, PointerInputCInv DEF Touches
<1>4. ASSUME NEW p, NEW method \in ByHand, NEW event,
             PointerInput(method, n, {p}, p, <<"activate", event, "settle">>)
      PROVE  CInv'
  <2>1. method # "longPressNode"
    BY DEF ByHand
  <2> QED
    BY <1>4, <2>1, PointerInputCInv DEF Touches
<1>5. ASSUME Begin(Pointer("dispatchTouchEvent", n, Nothing, <<"activate", "touchCancel", "settle">>))
      PROVE  CInv'
  <2> DEFINE todo == <<"activate", "touchCancel", "settle">>
             c == Pointer("dispatchTouchEvent", n, Nothing, todo)
  <2>1. DOMAIN c = CallFields /\ c.todo = todo /\ c.sent = 0
    BY DEF Pointer, NoCall, CallFields
  <2>2. ~Ahead(todo)
    BY DEF Ahead, Touches
  <2> HIDE DEF c, todo
  <2>3. PathOf(c) /\ ~Ahead(c.todo)
    BY <2>1, <2>2 DEF PathOf, Ahead
  <2>4. Begin(c)
    BY <1>5 DEF c, todo
  <2> QED
    BY <2>1, <2>3, <2>4, BeginCInv
<1>6. "dispatchMouseEvent" \in ByHand /\ "dispatchTouchEvent" \in ByHand
  BY DEF ByHand
<1>7. CASE ClickNode(n)
  BY <1>1, <1>7 DEF ClickNode
<1>8. CASE LongPressNode(n)
  BY <1>2, <1>8 DEF LongPressNode
<1>9. CASE DragNode(n)
  BY <1>3, <1>9, RefuseCInv DEF DragNode
<1>10. CASE DispatchMouseEvent(n)
  BY <1>4, <1>6, <1>10 DEF DispatchMouseEvent
<1>11. CASE DispatchTouchEvent(n)
  BY <1>4, <1>5, <1>6, <1>11, RefuseCInv DEF DispatchTouchEvent
<1> QED
  BY <1>7, <1>8, <1>9, <1>10, <1>11

(* A call that is no gesture is refused, or begins.                        *)
LEMMA OtherCallCInv ==
    ASSUME CInv, IInv', NEW c, Begin(c), DOMAIN c = CallFields, c.sent = 0,
           c.method \notin Gestures \cup ByHand
    PROVE  CInv'
<1>1. call'.method = c.method /\ call'.sent = 0
  BY NoCallFields DEF Begin
<1>2. PathInv' /\ CheckedInv'
  BY <1>1, OtherMethodsCInv
<1>3. SceneInv'
  BY DEF CInv, SceneInv, Begin, sceneVars
<1> QED
  BY <1>1, <1>2, <1>3 DEF CInv

(* The other calls.                                                        *)
LEMMA OtherCallsCInv ==
    ASSUME CInv, IInv',
           \/ \E n \in Targets : Wheel(n) \/ ScrollIntoView(n) \/ FocusNode(n)
           \/ \E n \in Targets \cup {Nothing} : TypeText(n) \/ DispatchKeyEvent(n)
           \/ DismissPopup
    PROVE  CInv'
<1> DEFINE Others == {"wheel", "scrollIntoView", "focusNode", "typeText", "dispatchKeyEvent",
                      "dismissPopup"}
<1>1. \A method \in Others : method \notin Gestures \cup ByHand
  BY DEF Gestures, ByHand
<1>2. ASSUME NEW method \in Others, NEW n, NEW p, NEW todo, Begin(Pointer(method, n, p, todo))
      PROVE  CInv'
  <2> DEFINE c == Pointer(method, n, p, todo)
  <2>1. DOMAIN c = CallFields /\ c.method = method /\ c.sent = 0
    BY DEF Pointer, NoCall, CallFields
  <2> HIDE DEF c, Others
  <2> QED
    BY <1>1, <1>2, <2>1, OtherCallCInv DEF c
<1>3. ASSUME NEW c, DOMAIN c = CallFields, c.sent = 0, c.method \in Others,
             NEW n, NEW requested, KeyInput(c, n, requested)
      PROVE  CInv'
  <2>1. CASE Refuse
    BY <2>1, RefuseCInv
  <2>2. CASE ~Refuse
    <3>1. PICK w, todo : Begin([c EXCEPT !.target = n, !.window = w, !.todo = todo])
      BY <1>3, <2>2 DEF KeyInput
    <3> DEFINE d == [c EXCEPT !.target = n, !.window = w, !.todo = todo]
    <3>2. DOMAIN d = CallFields /\ d.sent = 0 /\ d.method = c.method
      BY <1>3, NoCallFields
    <3>3. Begin(d)
      BY <3>1
    <3> HIDE DEF d, Others
    <3> QED
      BY <1>1, <1>3, <3>2, <3>3, OtherCallCInv
  <2> QED
    BY <2>1, <2>2
<1>4. ASSUME NEW n, Wheel(n) PROVE CInv'
  BY <1>2, <1>4, RefuseCInv DEF Wheel, PointerInput
<1>5. ASSUME NEW n, ScrollIntoView(n) PROVE CInv'
  BY <1>2, <1>5, RefuseCInv DEF ScrollIntoView
<1>6. ASSUME NEW n, FocusNode(n) PROVE CInv'
  BY <1>2, <1>6, RefuseCInv DEF FocusNode
<1>7. ASSUME NEW n, TypeText(n) PROVE CInv'
  <2>1. PICK units, replace, w :
           IF units = 0 /\ ~replace
           THEN pc = "idle" /\ Refuse
           ELSE KeyInput([NoCall EXCEPT !.method = "typeText", !.units = units, !.replace = replace,
                                        !.delivered = ~replace], n, w)
    BY Zenon, <1>7 DEF TypeText
  <2> DEFINE c == [NoCall EXCEPT !.method = "typeText", !.units = units, !.replace = replace,
                                 !.delivered = ~replace]
  <2>2. DOMAIN c = CallFields /\ c.sent = 0 /\ c.method \in Others
    BY DEF NoCall, CallFields
  <2>3. Refuse \/ KeyInput(c, n, w)
    BY <2>1
  <2> HIDE DEF c, Others
  <2> QED
    BY <1>3, <2>2, <2>3, RefuseCInv
<1>8. ASSUME NEW n, DispatchKeyEvent(n) PROVE CInv'
  <2>1. PICK events, w : KeyInput([NoCall EXCEPT !.method = "dispatchKeyEvent", !.units = events,
                                                 !.delivered = TRUE], n, w)
    BY <1>8 DEF DispatchKeyEvent
  <2> DEFINE c == [NoCall EXCEPT !.method = "dispatchKeyEvent", !.units = events,
                                 !.delivered = TRUE]
  <2>2. DOMAIN c = CallFields /\ c.sent = 0 /\ c.method \in Others
    BY DEF NoCall, CallFields
  <2>3. KeyInput(c, n, w)
    BY <2>1
  <2> HIDE DEF c, Others
  <2> QED
    BY <1>3, <2>2, <2>3
<1>9. ASSUME DismissPopup PROVE CInv'
  <2>1. CASE Refuse
    BY <2>1, RefuseCInv
  <2>2. CASE ~Refuse
    <3>1. PICK targets, open, todo :
             Begin([NoCall EXCEPT !.method = "dismissPopup", !.popups = targets,
                                  !.open = open, !.todo = todo])
      BY <1>9, <2>2 DEF DismissPopup
    <3> DEFINE c == [NoCall EXCEPT !.method = "dismissPopup", !.popups = targets,
                                   !.open = open, !.todo = todo]
    <3>2. DOMAIN c = CallFields /\ c.sent = 0 /\ c.method \in Others
      BY DEF NoCall, CallFields
    <3>3. Begin(c)
      BY <3>1
    <3> HIDE DEF c, Others
    <3> QED
      BY <1>1, <3>2, <3>3, OtherCallCInv
  <2> QED
    BY <2>1, <2>2
<1> HIDE DEF Others
<1> QED
  BY <1>4, <1>5, <1>6, <1>7, <1>8, <1>9

(* What a request begins, or refuses.                                      *)
LEMMA RequestCInv == CInv /\ IInv' /\ Request => CInv'
BY TouchingCallsCInv, OtherCallsCInv DEF Request

(* A step of a call keeps its method, and counts what it sends; when it    *)
(* has been answered it is over.                                           *)
LEMMA CarryOutCounts ==
    ASSUME IInv, CInv, CarryOut
    PROVE  call'.sent \in Nat /\ (InCall' => call'.method = call.method /\ InCall)
<1>1. DOMAIN call = CallFields /\ call.sent \in Nat
  BY DEF IInv, Shapes, CInv
<1>2. CASE Answer \/ Return
  <2> DEFINE none == NoCall
  <2>1. ~InCall' /\ DOMAIN none = CallFields /\ none.sent = 0
    BY <1>2 DEF Answer, Return, InCall, NoCall, CallFields
  <2>2. CASE Return
    BY <2>1, <2>2 DEF Return
  <2>3. CASE Answer
    <3>1. ASSUME NEW d, NEW l, NEW a,
                 call' = [none EXCEPT !.delivered = d, !.live = l, !.actionable = a]
          PROVE  call'.sent = 0
      <4> HIDE DEF none
      <4> QED
        BY <2>1, <3>1, NoCallFields
    <3>2. \E d, l, a : call' = [none EXCEPT !.delivered = d, !.live = l, !.actionable = a]
      <4>1. PICK last \in LastPoints(call) : call' = PostDispatch(call, last)
        BY <2>3 DEF Answer
      <4> QED
        BY <4>1 DEF PostDispatch
    <3>3. call'.sent = 0
      BY <3>1, <3>2
    <3> QED
      BY <2>1, <3>3
  <2> QED
    BY <1>2, <2>2, <2>3
<1>3. ASSUME NEW todo, NEW rest,
             \/ call' = call
             \/ call' = [call EXCEPT !.todo = todo]
             \/ call' = [call EXCEPT !.todo = todo, !.delivered = rest]
             \/ call' = [call EXCEPT !.key = rest, !.todo = todo]
             \/ call' = [call EXCEPT !.popups = rest, !.todo = todo]
      PROVE  call'.sent = call.sent /\ call'.method = call.method
  BY <1>1, <1>3, NoCallFields
<1>4. CASE SendPointerEvent \/ SendKey
  <2>1. call' = [Advance(call) EXCEPT !.sent = @ + 1]
    BY <1>4 DEF SendPointerEvent, SendKey
  <2>2. call'.sent = call.sent + 1 /\ call'.method = call.method
    BY <1>1, <2>1, NoCallFields DEF Advance
  <2> QED
    BY <1>1, <1>4, <2>2 DEF SendPointerEvent, SendKey, At
<1>5. CASE Activate \/ Loop \/ StopSending \/ Scroll \/ Focus
  <2>1. InCall /\ \E todo : call' = [call EXCEPT !.todo = todo]
    BY <1>5 DEF Activate, Loop, StopSending, Scroll, Focus, Advance, At
  <2> QED
    BY <1>1, <1>3, <2>1
<1>6. CASE ClosePopup
  <2>1. InCall /\ \E todo, rest : call' = [call EXCEPT !.popups = rest, !.todo = todo]
    BY <1>6 DEF ClosePopup, NextPopup, At
  <2> QED
    BY <1>1, <1>3, <2>1
<1>7. CASE Focused \/ SelectAll
  <2>1. /\ InCall
        /\ \/ \E todo : call' = [call EXCEPT !.todo = todo]
           \/ \E todo, rest : call' = [call EXCEPT !.todo = todo, !.delivered = rest]
    BY <1>7 DEF Focused, SelectAll, Advance, Rejected, At
  <2> QED
    BY <1>1, <1>3, <2>1
<1>8. CASE AimKeys
  <2>1. InCall /\ \E todo, rest : call' = [call EXCEPT !.key = rest, !.todo = todo]
    BY <1>8 DEF AimKeys, At
  <2> QED
    BY <1>1, <1>3, <2>1
<1>9. CASE UseOfDestroyed
  <2>1. /\ InCall
        /\ \/ call' = call
           \/ \E todo : call' = [call EXCEPT !.todo = todo]
           \/ \E todo, rest : call' = [call EXCEPT !.todo = todo, !.delivered = rest]
           \/ \E todo, rest : call' = [call EXCEPT !.popups = rest, !.todo = todo]
    BY <1>9 DEF UseOfDestroyed, Advance, Rejected, NextPopup
  <2> QED
    BY <1>1, <1>3, <2>1
<1> QED
  BY <1>2, <1>4, <1>5, <1>6, <1>7, <1>8, <1>9 DEF CarryOut

(* After a step that does not activate, a gesture has nothing to touch.    *)
LEMMA NothingAhead ==
    ASSUME NEW S, NEW c, c.todo \in Seq(S), c.todo # <<>>, PathOf(c), Head(c.todo) # "activate"
    PROVE  ~Ahead(Tail(c.todo))
<1> DEFINE todo == c.todo
           rest == Tail(todo)
<1>1. SUFFICES ASSUME NEW i \in 1..Len(rest), rest[i] \in Touches PROVE FALSE
  BY DEF Ahead
<1>2. rest[i] = todo[i + 1] /\ i + 1 \in 1..Len(todo) /\ 1 \in 1..((i + 1) - 1) /\ Head(todo) = todo[1]
  BY Stepping
<1>3. todo[1] = "activate"
  BY <1>1, <1>2 DEF PathOf
<1> QED
  BY <1>2, <1>3

(* Activating the window takes no time if it is active already.            *)
LEMMA ActivateCInv ==
    ASSUME IInv, IInv', CInv, Activate, call.method \in Gestures \cup ByHand
    PROVE  PathInv' /\ CheckedInv'
<1>1. /\ InCall /\ call.todo # <<>> /\ Head(call.todo) = "activate" /\ UNCHANGED scene
      /\ call' = Advance(call)
      /\ active = call.window => pc' = "running" /\ UNCHANGED active
  BY DEF Activate, At
<1>2. /\ DOMAIN call = CallFields /\ call.todo \in Seq(StepsOf(call.method)) /\ PathOf(call)
  BY <1>1, InCallShapes DEF CInv, PathInv
<1>3. /\ call'.todo = Tail(call.todo) /\ call'.method = call.method /\ call'.sent = call.sent
      /\ call'.ready = call.ready /\ call'.window = call.window /\ call'.target = call.target
      /\ call'.at = call.at
  BY <1>1, <1>2, NoCallFields DEF Advance
<1> DEFINE rest == Tail(call.todo)
<1>4. ASSUME NEW i \in 1..Len(rest), rest[i] \in Touches
      PROVE  /\ \A j \in 1..(i - 1) : rest[j] = "activate"
             /\ call.method # "longPressNode" /\ Ahead(call.todo)
  <2>1. /\ rest[i] = call.todo[i + 1] /\ i + 1 \in 1..Len(call.todo) /\ i + 1 # 1
        /\ \A j \in 1..(i - 1) : rest[j] = call.todo[j + 1] /\ j + 1 \in 1..((i + 1) - 1)
    <3>1. Len(call.todo) \in Nat /\ Len(rest) = Len(call.todo) - 1
          /\ \A j \in 1..Len(rest) : rest[j] = call.todo[j + 1]
      BY <1>1, <1>2, Stepping
    <3> HIDE DEF rest
    <3>2. i + 1 \in 1..Len(call.todo) /\ i + 1 # 1
      BY <3>1
    <3>3. \A j \in 1..(i - 1) : j \in 1..Len(rest) /\ j + 1 \in 1..((i + 1) - 1)
      BY <3>1
    <3> QED
      BY <3>1, <3>2, <3>3
  <2> HIDE DEF rest
  <2> QED
    BY <1>2, <1>4, <2>1 DEF PathOf, Ahead
<1> HIDE DEF rest
<1>5. PathInv'
  BY <1>3, <1>4 DEF PathInv, PathOf, rest
<1>6. CheckedInv'
  <2>1. SUFFICES ASSUME Ahead(rest), call.sent = 0,
                        call.ready \/ call.method = "longPressNode"
                 PROVE  pc' = "running" /\ active' = call.window /\ Checked(call)'
    BY <1>3 DEF CheckedInv, rest
  <2>2. call.method # "longPressNode" /\ Ahead(call.todo)
    BY <1>4, <2>1 DEF Ahead
  <2>3. active = call.window /\ Checked(call)
    BY <1>1, <2>1, <2>2 DEF CInv, CheckedInv
  <2> QED
    BY <1>1, <1>3, <2>3 DEF Checked
<1> QED
  BY <1>5, <1>6

(* A step of a call.                                                       *)
LEMMA CarryOutPath ==
    ASSUME IInv, IInv', CInv, CarryOut
    PROVE  PathInv' /\ CheckedInv'
<1>1. call'.sent \in Nat /\ (InCall' => call'.method = call.method /\ InCall)
  BY CarryOutCounts
<1>2. CASE ~(InCall' /\ call.method \in Gestures \cup ByHand)
  BY <1>1, <1>2, OtherMethodsCInv
<1>3. CASE InCall' /\ call.method \in Gestures \cup ByHand
  <2>1. /\ InCall /\ DOMAIN call = CallFields /\ call.todo \in Seq(StepsOf(call.method))
        /\ PathOf(call)
    BY <1>1, <1>3, InCallShapes DEF CInv, PathInv
  <2>2. CASE Activate
    BY <1>3, <2>2, ActivateCInv
  <2>3. CASE SendPointerEvent \/ Loop
    <3>1. call'.todo = Tail(call.todo)
      <4>1. call' = Advance(call) \/ call' = [Advance(call) EXCEPT !.sent = call.sent + 1]
        BY <2>1, <2>3, NoCallFields DEF SendPointerEvent, Loop, Advance
      <4> QED
        BY <2>1, <4>1, AdvanceFields
    <3>2. call.todo # <<>> /\ Head(call.todo) # "activate"
      BY <2>3 DEF SendPointerEvent, Loop, At, PointerEvents
    <3> QED
      BY <1>1, <2>1, <3>1, <3>2, NothingAhead, NothingAheadCInv
  <2>4. CASE StopSending
    <3>1. call'.todo \in {<<>>, <<"settle">>}
      BY <2>1, <2>4, NoCallFields DEF StopSending
    <3>2. ~Ahead(<<>>) /\ ~Ahead(<<"settle">>)
      BY DEF Ahead, Touches
    <3> QED
      BY <1>1, <3>1, <3>2, NothingAheadCInv
  <2>5. ~At({"scroll"}) /\ ~At({"close"}) /\ ~At(KeyEvents \cup {"focus", "focused", "aim"})
    <3>1. call.todo # <<>> => Head(call.todo) \in StepsOf(call.method)
      BY <2>1, Stepping
    <3> QED
      BY <1>3, <3>1 DEF At, StepsOf, Gestures, ByHand, PointerEvents, KeyEvents
  <2>6. ~(Scroll \/ ClosePopup \/ Focus \/ Focused \/ AimKeys \/ SelectAll \/ SendKey)
    BY <2>5 DEF Scroll, ClosePopup, Focus, Focused, AimKeys, SelectAll, SendKey, At, KeyEvents
  <2>7. ~UseOfDestroyed /\ ~Answer /\ ~Return
    <3>1. ~UseOfDestroyed
      BY <1>3, <2>1, GesturesUseTheirWindow DEF UseOfDestroyed, Exist
    <3> QED
      BY <1>3, <3>1 DEF Answer, Return, InCall
  <2> QED
    BY <2>2, <2>3, <2>4, <2>6, <2>7 DEF CarryOut
<1> QED
  BY <1>2, <1>3

(* The scene after any step.                                               *)
LEMMA SceneStays ==
    ASSUME IInv, SceneInv, [Next]_vars
    PROVE  SceneInv'
<1>1. /\ DOMAIN scene = SceneFields /\ scene.live \subseteq Items
      /\ \A i \in scene.live : Ancestors[i] \subseteq scene.live
      /\ scene.z \in [Items -> Int]
  BY DEF IInv, Shapes, SceneInv
<1>2. CASE UNCHANGED scene
  BY <1>2 DEF SceneInv
<1>3. ASSUME NEW v,
             \/ scene' = [scene EXCEPT !.shown = v] \/ scene' = [scene EXCEPT !.enabled = v]
             \/ scene' = [scene EXCEPT !.opaque = v] \/ scene' = [scene EXCEPT !.box = v]
      PROVE  SceneInv'
  BY <1>1, <1>3 DEF SceneInv, SceneFields
<1>4. ASSUME NEW i \in Items, scene' = [scene EXCEPT !.z[i] = 1 - @] PROVE SceneInv'
  <2>1. scene'.live = scene.live /\ scene'.z = [scene.z EXCEPT ![i] = 1 - @]
    BY <1>1, <1>4 DEF SceneFields
  <2>2. [scene.z EXCEPT ![i] = 1 - @] \in [Items -> Int]
    BY <1>1
  <2> QED
    BY <1>1, <2>1, <2>2 DEF SceneInv
<1>5. ASSUME NEW i \in Items, Destroys(Subtree(i)) PROVE SceneInv'
  <2>1. scene'.live = scene.live \ Subtree(i) /\ scene'.z = scene.z
    BY <1>1, <1>5 DEF Destroys, SceneFields
  <2>2. ASSUME NEW j \in scene.live, j \notin Subtree(i), NEW k \in Ancestors[j]
        PROVE  k \in scene.live /\ k \notin Subtree(i)
    <3>1. k \in scene.live /\ Ancestors[k] \subseteq Ancestors[j]
      BY <1>1, <2>2, AncestorFacts
    <3> QED
      BY <1>1, <2>2, <3>1 DEF Subtree, SubtreeOf
  <2> QED
    BY <1>1, <2>1, <2>2 DEF SceneInv
<1>6. CASE Scroll
  BY <1>3, <1>6 DEF Scroll
<1>7. CASE ClosePopup
  BY <1>3, <1>7 DEF ClosePopup
<1>8. CASE Application
  <2>1. CASE ChangesItem
    BY <1>1, <1>3, <1>4, <2>1 DEF ChangesItem
  <2>2. CASE DestroysItem \/ DestroysWindow
    BY <1>1, <1>5, <2>2, ContentAssumption DEF DestroysItem, DestroysWindow, IInv, Shapes
  <2> QED
    BY <1>2, <1>8, <2>1, <2>2 DEF Application
<1>9. CASE Request
  <2>1. Refuse => UNCHANGED scene
    BY DEF Refuse, sceneVars
  <2>2. \A c : Begin(c) => UNCHANGED scene
    BY DEF Begin, sceneVars
  <2>3. ASSUME NEW n, NEW requested, NEW c, KeyInput(c, n, requested)
        PROVE  UNCHANGED scene
    BY <2>1, <2>2, <2>3 DEF KeyInput
  <2>4. ASSUME NEW method, NEW n, NEW points, NEW p, NEW todo,
               PointerInput(method, n, points, p, todo)
        PROVE  UNCHANGED scene
    BY <2>1, <2>2, <2>4 DEF PointerInput
  <2>5. ASSUME NEW n, TypeText(n) PROVE UNCHANGED scene
    <3>1. PICK units \in 0 .. MaxUnits, replace \in BOOLEAN, w \in Windows \cup {Nothing} :
            IF units = 0 /\ ~replace
            THEN pc = "idle" /\ Refuse
            ELSE KeyInput([NoCall EXCEPT !.method = "typeText", !.units = units,
                                         !.replace = replace, !.delivered = ~replace], n, w)
      BY <2>5, ZenonT(30) DEF TypeText
    <3> QED
      BY <2>1, <2>3, <3>1
  <2>6. ASSUME NEW n, DispatchKeyEvent(n) PROVE UNCHANGED scene
    BY <2>3, <2>6 DEF DispatchKeyEvent
  <2>7. ASSUME NEW n, ClickNode(n) \/ LongPressNode(n) \/ DragNode(n) \/ Wheel(n)
                      \/ DispatchMouseEvent(n)
        PROVE  UNCHANGED scene
    BY <2>1, <2>4, <2>7 DEF ClickNode, LongPressNode, DragNode, Wheel, DispatchMouseEvent
  <2>8. ASSUME NEW n, DispatchTouchEvent(n) \/ ScrollIntoView(n) \/ FocusNode(n)
        PROVE  UNCHANGED scene
    BY <2>1, <2>2, <2>4, <2>8 DEF DispatchTouchEvent, ScrollIntoView, FocusNode
  <2>9. ASSUME DismissPopup PROVE UNCHANGED scene
    <3>1. Refuse \/ \E c : Begin(c)
      BY <2>9 DEF DismissPopup
    <3> QED
      BY <2>1, <2>2, <3>1
  <2>10. UNCHANGED scene
    BY <1>9, <2>5, <2>6, <2>7, <2>8, <2>9 DEF Request
  <2> QED
    BY <1>2, <2>10
<1>10. CASE CarryOut /\ ~Scroll /\ ~ClosePopup
  <2>1. UNCHANGED scene
    BY <1>10 DEF CarryOut, Activate, SendPointerEvent, Loop, StopSending, Focus, Focused,
                 AimKeys, SelectAll, SendKey, UseOfDestroyed, Answer, Return, sceneVars
  <2> QED
    BY <1>2, <2>1
<1> QED
  BY <1>2, <1>6, <1>7, <1>8, <1>9, <1>10 DEF Next, vars, sceneVars

(* Every step keeps CInv.                                                  *)
LEMMA NextCInv == IInv /\ IInv' /\ CInv /\ [Next]_vars => CInv'
<1> SUFFICES ASSUME IInv, IInv', CInv, [Next]_vars PROVE CInv'
  OBVIOUS
<1>1. SceneInv'
  BY SceneStays DEF CInv
<1>2. CASE Request
  BY <1>2, RequestCInv
<1>3. CASE CarryOut
  BY <1>1, <1>3, CarryOutCounts, CarryOutPath DEF CInv
<1>4. CASE Application
  <2>1. pc \in {"idle", "pumping"} /\ UNCHANGED <<call, pc>>
    BY <1>4 DEF Application
  <2>2. PathInv' /\ call'.sent \in Nat
    BY <2>1 DEF CInv, PathInv, InCall, PathOf
  <2>3. CheckedInv'
    BY <2>1 DEF CInv, CheckedInv, InCall
  <2> QED
    BY <1>1, <2>2, <2>3 DEF CInv
<1>5. CASE UNCHANGED vars
  BY <1>5 DEF vars, sceneVars, CInv, SceneInv, PathInv, PathOf, CheckedInv, Checked, InCall
<1> QED
  BY <1>2, <1>3, <1>4, <1>5 DEF Next

(* It holds in every reachable state.                                      *)
THEOREM CheckedInvariance == Spec => []CInv
<1>1. Init => CInv
  BY InitCInv
<1>2. IInv /\ IInv' /\ CInv /\ [Next]_vars => CInv'
  BY NextCInv
<1> QED
  BY <1>1, <1>2, Invariance, PTL DEF Spec

(* "Actionability is checked before dispatch": the first event of a        *)
(* gesture, a press or the beginning of a touch, never goes to an opaque   *)
(* item that covers the target, whatever the item trees are: the walk      *)
(* finds every such item, and between the check and the event nothing      *)
(* runs that could move one over the target.                               *)
THEOREM FirstEventIsNotCovered == Spec => []CoveringItemIsNotPressed
<1>1. IInv /\ CInv => CoveringItemIsNotPressed
  <2> DEFINE t == call.target
             w == call.window
             r == Receiver(scene, w, call.at)
  <2> SUFFICES ASSUME IInv, CInv, At({"press", "touchBegin"}), call.sent = 0,
                      call.ready \/ call.method = "longPressNode",
                      ~InModalPopup(scene, t),
                      r # Nothing, r \in scene.opaque, Above(scene, r, t)
               PROVE  r \in Subtree(t) \/ OwnClickArea(scene, r, t)
    BY DEF CoveringItemIsNotPressed
  <2>1. InCall /\ Ahead(call.todo)
    <3>1. InCall /\ call.todo # <<>> /\ Head(call.todo) \in Touches
      BY DEF At, Touches
    <3>2. call.todo \in Seq(StepsOf(call.method))
      BY <3>1, InCallShapes
    <3>3. call.todo[1] \in Touches /\ 1 \in 1..Len(call.todo)
      BY <3>1, <3>2, Stepping
    <3> QED
      BY <3>1, <3>3 DEF Ahead
  <2>2. Checked(call)
    BY <2>1 DEF CInv, CheckedInv
  <2>3. /\ t \in Items /\ w = WindowOf[t] /\ w \in Windows
        /\ PointReasons(scene, t, call.at) = {}
    BY <2>2, WindowOfItem DEF Checked, Reasons
  <2>4. TopmostInputBlockerAt(scene, Content[w], call.at, t) = Nothing
    BY <2>2, <2>3 DEF PointReasons, Checked
  <2>5. /\ scene.live \in SUBSET Items /\ scene.z \in [Items -> Int]
        /\ \A i \in scene.live : Ancestors[i] \subseteq scene.live
    BY DEF IInv, Shapes, CInv, SceneInv
  <2> HIDE DEF t, w, r
  <2> QED
    BY <2>3, <2>4, <2>5, FreePointIsNotCovered DEF r
<1> QED
  BY <1>1, Invariance, CheckedInvariance, PTL

-----------------------------------------------------------------------------
(* Types. The item a call is about to focus is one of the scene's items.   *)

NoFocus(todo) == \A i \in 1..Len(todo) : todo[i] \notin {"focus", "focused"}

CallTypes(c) ==
    /\ c.target \in Items \cup {Nothing} /\ c.window \in Windows \cup {Nothing}
    /\ c.key \in Items \cup Windows \cup {Nothing}
    /\ c.target = Nothing => NoFocus(c.todo)

TypeInv == TypeOK /\ CallTypes(call)

Boxes == [Items -> Int \X Int]

(* A scene that is changed is a scene.                                     *)
LEMMA SceneChanged ==
    ASSUME NEW s \in Scenes, NEW set \in SUBSET Items, NEW z \in [Items -> Int], NEW box \in Boxes
    PROVE  /\ [s EXCEPT !.live = set] \in Scenes /\ [s EXCEPT !.shown = set] \in Scenes
           /\ [s EXCEPT !.enabled = set] \in Scenes /\ [s EXCEPT !.opaque = set] \in Scenes
           /\ [s EXCEPT !.z = z] \in Scenes /\ [s EXCEPT !.box = box] \in Scenes
BY DEF Scenes, Boxes

(* An item that is moved keeps its size, and so does what is in it.        *)
LEMMA ShiftedBoxes ==
    ASSUME NEW box \in Boxes, NEW i, NEW by \in Int
    PROVE  Shifted(box, i, by) \in Boxes
BY DEF Shifted, Boxes

(* Where a flickable scrolls to is a place.                                *)
LEMMA ScrolledToBoxes ==
    ASSUME NEW box \in Boxes, NEW item \in Items, NEW f \in Flickables
    PROVE  ScrolledTo(item, box, f) \in Boxes
<1> DEFINE content == ContentOf[f]
           inside  == box[item][1] - box[content][1]
           slack   == Length(box, content) - Length(box, f)
           middle  == inside - (Length(box, f) - Length(box, item)) \div 2
           to      == Bound(0, middle, slack)
           by      == box[f][1] - to - box[content][1]
<1>1. f \in Items /\ content \in Items
  BY ContentOfAssumption
<1>2. \A i \in Items : box[i][1] \in Int /\ box[i][2] \in Int /\ Length(box, i) \in Int
  BY DEF Boxes, Length
<1> HIDE DEF content
<1>3. inside \in Int /\ slack \in Int /\ Length(box, f) - Length(box, item) \in Int
  BY <1>1, <1>2
<1>4. (Length(box, f) - Length(box, item)) \div 2 \in Int
  BY <1>3
<1> HIDE DEF inside, slack
<1>5. middle \in Int
  BY <1>3, <1>4
<1> HIDE DEF middle
<1>6. to \in Int
  BY <1>3, <1>5 DEF Bound
<1> HIDE DEF to
<1>7. by \in Int
  BY <1>1, <1>2, <1>6
<1>8. ScrolledTo(item, box, f) \in {box, Shifted(box, content, by)}
  BY DEF ScrolledTo, content, inside, slack, middle, to
<1> HIDE DEF by
<1> QED
  BY <1>7, <1>8, ShiftedBoxes

(* The outermost item around an item.                                      *)
LEMMA LineHasRoot == \A k \in Items : \E i \in Lineage(k) : Parent[i] = Nothing
<1> DEFINE S == {k \in Items : \E i \in Lineage(k) : Parent[i] = Nothing}
<1>1. ASSUME NEW k \in Items, Parent[k] = Nothing \/ Parent[k] \in S PROVE k \in S
  <2>1. CASE Parent[k] = Nothing
    BY <2>1 DEF Lineage
  <2>2. CASE Parent[k] \in S
    <3>1. Ancestors[k] = Lineage(Parent[k])
      BY <2>2, NothingAssumption, LineFacts
    <3> QED
      BY <2>2, <3>1 DEF Lineage
  <2> QED
    BY <1>1, <2>1, <2>2
<1>2. Items \subseteq S
  BY <1>1, FromParents
<1> QED
  BY <1>2

(* The number of items in a tree, and more than that.                      *)
LEMMA Sizes ==
    /\ \A i \in Items : Size(i) \in Nat
    /\ \E n \in Nat : \A i \in Items : Size(i) < n
<1>1. \A i \in Items : IsFiniteSet(Subtree(i)) /\ Size(i) <= Cardinality(Items)
  BY TreeAssumption, FS_Subset DEF Subtree, SubtreeOf, Size
<1>2. \A i \in Items : Size(i) \in Nat
  BY <1>1, FS_CardinalityType DEF Size
<1>3. Cardinality(Items) \in Nat
  BY TreeAssumption, FS_CardinalityType
<1>4. Cardinality(Items) + 1 \in Nat /\ \A i \in Items : Size(i) < Cardinality(Items) + 1
  BY <1>1, <1>2, <1>3
<1> QED
  BY <1>2, <1>4

(* Scrolling goes up from the item, and ends with boxes for all items: the *)
(* equation of the recursive function has a solution, by induction on the  *)
(* sizes of the trees it has passed.                                       *)
LEMMA ScrolledBoxesType ==
    ASSUME scene.box \in Boxes, NEW item \in Items
    PROVE  ScrolledBoxes(item) \in Boxes
<1> DEFINE line == Lineage(item)
           Below(i) == CHOOSE c \in line : Parent[c] = i
           Step(f, i) == IF i = item THEN scene.box
                         ELSE IF i \in Flickables THEN ScrolledTo(item, f[Below(i)], i)
                         ELSE f[Below(i)]
           Moves(f) == f = [i \in line |-> Step(f, i)]
           moved == CHOOSE f : Moves(f)
           root == CHOOSE i \in line : Parent[i] = Nothing
           Upto(f, n) == \A i \in line : Size(i) < n => f[i] = Step(f, i)
           S == {n \in Nat : \E f : Upto(f, n)}
<1>1. ScrolledBoxes(item) = moved[root]
  BY DEF ScrolledBoxes, Lineage
<1>2. root \in line /\ item \in line /\ line \subseteq Items
  BY LineHasRoot, LineFacts
<1>3. ASSUME NEW i \in line, i # item
      PROVE  Below(i) \in line /\ Size(Below(i)) < Size(i)
  <2>1. i \in Ancestors[item]
    BY <1>3 DEF Lineage
  <2>2. Below(i) \in line /\ Parent[Below(i)] = i
    BY <2>1, ChildTowards
  <2> HIDE DEF Below, line
  <2> QED
    BY <1>2, <2>2, SizeOfChild
<1> HIDE DEF line, Below, root
<1>4. ASSUME NEW f, NEW g, NEW i \in line, i # item => f[Below(i)] = g[Below(i)]
      PROVE  Step(f, i) = Step(g, i)
  BY <1>4
<1> HIDE DEF Step
<1>5. 0 \in S
  BY <1>2, Sizes
<1>6. ASSUME NEW n \in Nat, n \in S PROVE n + 1 \in S
  <2>1. PICK f : Upto(f, n)
    BY <1>6
  <2> DEFINE g == [i \in line |-> Step(f, i)]
  <2>2. ASSUME NEW i \in line, Size(i) < n + 1 PROVE g[i] = Step(g, i)
    <3>1. i # item => f[Below(i)] = g[Below(i)]
      <4> SUFFICES ASSUME i # item PROVE f[Below(i)] = g[Below(i)]
        OBVIOUS
      <4>1. Below(i) \in line /\ Size(Below(i)) < n
        BY <1>2, <1>3, <2>2, Sizes
      <4> QED
        BY <2>1, <4>1
    <3>2. Step(f, i) = Step(g, i)
      BY <1>4, <3>1
    <3> QED
      BY <3>2
  <2> HIDE DEF g
  <2>3. Upto(g, n + 1)
    BY <2>2
  <2> QED
    BY <2>3
<1>7. Nat \subseteq S
  <2> HIDE DEF S
  <2> QED
    BY <1>5, <1>6, SetInduction
<1>8. PICK f : \A i \in line : f[i] = Step(f, i)
  BY <1>2, <1>7, Sizes
<1> DEFINE g == [i \in line |-> f[i]]
<1>9. ASSUME NEW i \in line PROVE g[i] = Step(g, i)
  <2>1. i # item => f[Below(i)] = g[Below(i)]
    BY <1>3
  <2>2. Step(f, i) = Step(g, i)
    BY <1>4, <2>1
  <2> QED
    BY <1>8, <2>2
<1>10. Moves(g)
  BY <1>9
<1> HIDE DEF g
<1>11. Moves(moved)
  BY <1>10
<1> HIDE DEF moved
<1> DEFINE T == {n \in Nat : \A i \in line : Size(i) < n => moved[i] \in Boxes}
<1>12. 0 \in T
  BY <1>2, Sizes
<1>13. ASSUME NEW n \in Nat, n \in T PROVE n + 1 \in T
  <2>1. ASSUME NEW i \in line, Size(i) < n + 1 PROVE moved[i] \in Boxes
    <3>1. moved[i] = Step(moved, i)
      BY <1>11
    <3>2. CASE i = item
      BY <3>1, <3>2 DEF Step
    <3>3. CASE i # item
      <4>1. Below(i) \in line /\ Size(Below(i)) < n
        BY <1>2, <1>3, <2>1, <3>3, Sizes
      <4>2. moved[Below(i)] \in Boxes
        BY <1>13, <4>1
      <4> QED
        BY <3>1, <3>3, <4>2, ScrolledToBoxes DEF Step
    <3> QED
      BY <3>2, <3>3
  <2> QED
    BY <2>1
<1>14. Nat \subseteq T
  <2> HIDE DEF T
  <2> QED
    BY <1>12, <1>13, SetInduction
<1>15. moved[root] \in Boxes
  BY <1>2, <1>14, Sizes
<1> QED
  BY <1>1, <1>15

-----------------------------------------------------------------------------
(* Types of a call that begins.                                            *)

(* Pointer input, to an item.                                              *)
LEMMA PointerTypes ==
    ASSUME NEW method, NEW n \in Items, NEW p, NEW todo
    PROVE  CallTypes(Pointer(method, n, p, todo))
<1> DEFINE c == Pointer(method, n, p, todo)
<1>1. c.target = n /\ c.window = WindowOf[n] /\ c.key = Nothing
  BY DEF Pointer, NoCall
<1>2. CallTypes(c)
  <2> HIDE DEF c
  <2> QED
    BY <1>1, WindowOfItem, NothingAssumption DEF CallTypes
<1> QED
  BY <1>2

(* Keys: only for an item there is something to focus.                     *)
LEMMA KeyTypes ==
    ASSUME IInv, NEW c, NEW n \in Targets \cup {Nothing}, NEW requested, KeyInput(c, n, requested),
           DOMAIN c = CallFields, c.key = Nothing
    PROVE  Refuse \/ \E d : DOMAIN d = CallFields /\ CallTypes(d) /\ Begin(d)
<1> SUFFICES ASSUME ~Refuse
             PROVE  \E d : DOMAIN d = CallFields /\ CallTypes(d) /\ Begin(d)
  OBVIOUS
<1> DEFINE todo == (IF n = Nothing THEN <<>> ELSE Focusing) \o <<"activate", "aim", "settle">>
<1>1. PICK w \in windows : /\ n # Nothing => n \in Items
                           /\ Begin([c EXCEPT !.target = n, !.window = w, !.todo = todo])
  BY DEF KeyInput
<1> DEFINE d == [c EXCEPT !.target = n, !.window = w, !.todo = todo]
<1>2. n = Nothing => NoFocus(todo)
  BY DEF NoFocus
<1> HIDE DEF todo
<1>3. /\ DOMAIN d = CallFields /\ d.target = n /\ d.window = w /\ d.key = Nothing
      /\ d.todo = todo
  BY NoCallFields
<1>4. Begin(d) /\ w \in Windows
  BY <1>1 DEF IInv, Shapes
<1> HIDE DEF d
<1> QED
  BY <1>1, <1>2, <1>3, <1>4 DEF CallTypes

(* Every call that begins is typed.                                        *)
LEMMA RequestTypes ==
    ASSUME IInv, Request
    PROVE  Refuse \/ \E c : DOMAIN c = CallFields /\ CallTypes(c) /\ Begin(c)
<1> DEFINE Begins == \E c : DOMAIN c = CallFields /\ CallTypes(c) /\ Begin(c)
<1>1. ASSUME NEW method, NEW n, NEW points, NEW p, NEW todo,
             PointerInput(method, n, points, p, todo)
      PROVE  Refuse \/ Begins
  <2>1. CASE n \in Items /\ CanBeActedOn(n, points)
    <3>1. Begin(Pointer(method, n, p, todo))
      BY <1>1, <2>1 DEF PointerInput
    <3> QED
      BY <2>1, <3>1, PointerTypes, PointerFields
  <2>2. CASE ~(n \in Items /\ CanBeActedOn(n, points))
    BY <1>1, <2>2 DEF PointerInput
  <2> QED
    BY <2>1, <2>2
<1>2. ASSUME NEW method, NEW n \in Items, NEW p, NEW todo, Begin(Pointer(method, n, p, todo))
      PROVE  Begins
  BY <1>2, PointerTypes, PointerFields
<1> HIDE DEF Begins
<1>3. ASSUME NEW n, ClickNode(n) \/ LongPressNode(n) \/ DragNode(n) \/ Wheel(n)
                    \/ DispatchMouseEvent(n)
      PROVE  Refuse \/ Begins
  BY <1>1, <1>3 DEF ClickNode, LongPressNode, DragNode, Wheel, DispatchMouseEvent
<1>4. ASSUME NEW n, DispatchTouchEvent(n) \/ ScrollIntoView(n) \/ FocusNode(n)
      PROVE  Refuse \/ Begins
  BY <1>1, <1>2, <1>4 DEF DispatchTouchEvent, ScrollIntoView, FocusNode
<1>5. ASSUME NEW n \in Targets \cup {Nothing}, TypeText(n) PROVE Refuse \/ Begins
  <2>1. PICK units \in 0 .. MaxUnits, replace \in BOOLEAN, w \in Windows \cup {Nothing} :
          IF units = 0 /\ ~replace
          THEN pc = "idle" /\ Refuse
          ELSE KeyInput([NoCall EXCEPT !.method = "typeText", !.units = units,
                                       !.replace = replace, !.delivered = ~replace], n, w)
    BY <1>5, ZenonT(30) DEF TypeText
  <2> DEFINE c == [NoCall EXCEPT !.method = "typeText", !.units = units,
                                 !.replace = replace, !.delivered = ~replace]
  <2>2. DOMAIN c = CallFields /\ c.key = Nothing
    BY DEF NoCall, CallFields
  <2>3. Refuse \/ KeyInput(c, n, w)
    BY <2>1
  <2> HIDE DEF c
  <2> QED
    BY <2>2, <2>3, KeyTypes DEF Begins
<1>6. ASSUME NEW n \in Targets \cup {Nothing}, DispatchKeyEvent(n) PROVE Refuse \/ Begins
  <2>1. PICK events, w : KeyInput([NoCall EXCEPT !.method = "dispatchKeyEvent", !.units = events,
                                                 !.delivered = TRUE], n, w)
    BY <1>6 DEF DispatchKeyEvent
  <2> DEFINE c == [NoCall EXCEPT !.method = "dispatchKeyEvent", !.units = events,
                                 !.delivered = TRUE]
  <2>2. DOMAIN c = CallFields /\ c.key = Nothing
    BY DEF NoCall, CallFields
  <2>3. KeyInput(c, n, w)
    BY <2>1
  <2> HIDE DEF c
  <2> QED
    BY <2>2, <2>3, KeyTypes DEF Begins
<1>7. ASSUME DismissPopup PROVE Refuse \/ Begins
  <2> SUFFICES ASSUME ~Refuse PROVE Begins
    OBVIOUS
  <2>1. PICK targets, open :
          Begin([NoCall EXCEPT !.method = "dismissPopup", !.popups = targets,
                               !.open = open, !.todo = <<"close", "wait">>])
    BY <1>7 DEF DismissPopup
  <2> DEFINE c == [NoCall EXCEPT !.method = "dismissPopup", !.popups = targets,
                                 !.open = open, !.todo = <<"close", "wait">>]
  <2>2. /\ DOMAIN c = CallFields /\ c.todo = <<"close", "wait">>
        /\ c.target = Nothing /\ c.window = Nothing /\ c.key = Nothing
    BY DEF NoCall, CallFields
  <2>3. NoFocus(<<"close", "wait">>)
    BY DEF NoFocus
  <2>4. Begin(c)
    BY <2>1
  <2> HIDE DEF c
  <2> QED
    BY <2>2, <2>3, <2>4 DEF CallTypes, Begins
<1> HIDE DEF Begins
<1>8. Refuse \/ Begins
  BY <1>3, <1>4, <1>5, <1>6, <1>7 DEF Request
<1> QED
  BY <1>8 DEF Begins

-----------------------------------------------------------------------------
(* Types, step by step.                                                    *)

(* A step that changes none of what is typed but the call.                 *)
LEMMA CallChangesTypes ==
    ASSUME TypeInv, IInv', CallTypes(call)', UNCHANGED <<scene, windows, active, focus, changes>>
    PROVE  TypeInv'
<1>1. /\ byHand' \subseteq down' /\ down' \subseteq windows' \X {"mouse", "touch"}
      /\ pc' \in {"idle", "running", "pumping", "answered", "crashed"}
  BY DEF IInv, Shapes, DownInv
<1>2. TypeOK'
  BY <1>1 DEF TypeInv, TypeOK, CallTypes
<1> QED
  BY <1>2 DEF TypeInv

(* Taking a step off a list, or giving up what is left of it.              *)
LEMMA LessToDo ==
    ASSUME NEW S, NEW todo \in Seq(S)
    PROVE  /\ todo # <<>> /\ NoFocus(todo) => NoFocus(Tail(todo))
           /\ NoFocus(<<>>) /\ NoFocus(<<"settle">>)
<1>1. ASSUME todo # <<>>, NoFocus(todo) PROVE NoFocus(Tail(todo))
  <2>1. ASSUME NEW i \in 1..Len(Tail(todo))
        PROVE  i + 1 \in 1..Len(todo) /\ Tail(todo)[i] = todo[i + 1]
    BY <1>1, <2>1, Stepping
  <2> QED
    BY <1>1, <2>1 DEF NoFocus
<1>2. NoFocus(<<>>) /\ NoFocus(<<"settle">>)
  BY DEF NoFocus
<1> QED
  BY <1>1, <1>2

(* The steps of a call leave its types as they are.                        *)
LEMMA CallStepTypes ==
    ASSUME IInv, CallTypes(call), CarryOut, ~AimKeys
    PROVE  CallTypes(call)'
<1>1. DOMAIN call = CallFields
  BY DEF IInv, Shapes
<1>2. InCall => call.todo \in Seq(StepsOf(call.method))
  BY InCallShapes
<1>3. ASSUME NEW c, DOMAIN c = CallFields, c.target = call.target, c.window = call.window,
             c.key = call.key, InCall,
             c.todo \in {call.todo, <<>>, <<"settle">>} \/ (call.todo # <<>> /\ c.todo = Tail(call.todo))
      PROVE  CallTypes(c)
  BY <1>2, <1>3, LessToDo DEF CallTypes
<1>4. ASSUME NEW todo, NEW sent, NEW delivered, NEW popups,
             \/ call' = [call EXCEPT !.todo = todo]
             \/ call' = [call EXCEPT !.todo = todo, !.sent = sent]
             \/ call' = [call EXCEPT !.todo = todo, !.delivered = delivered]
             \/ call' = [call EXCEPT !.popups = popups, !.todo = todo],
             InCall,
             todo \in {call.todo, <<>>, <<"settle">>} \/ (call.todo # <<>> /\ todo = Tail(call.todo))
      PROVE  CallTypes(call)'
  <2>1. /\ DOMAIN call' = CallFields /\ call'.target = call.target /\ call'.todo = todo
        /\ call'.window = call.window /\ call'.key = call.key
    BY <1>1, <1>4, NoCallFields
  <2> DEFINE c == call'
  <2>2. CallTypes(c)
    <3> HIDE DEF c
    <3>1. /\ DOMAIN c = CallFields /\ c.target = call.target /\ c.todo = todo
          /\ c.window = call.window /\ c.key = call.key
      BY <2>1 DEF c
    <3> QED
      BY <1>3, <1>4, <3>1
  <2> QED
    BY <2>2 DEF CallTypes
<1> DEFINE rest == Tail(call.todo)
<1>5. CASE Activate \/ Loop \/ Scroll \/ Focus
  <2>1. call' = [call EXCEPT !.todo = rest] /\ InCall /\ call.todo # <<>>
    BY <1>5 DEF Activate, Loop, Scroll, Focus, Advance, At
  <2> QED
    BY <1>4, <2>1
<1>6. CASE SendPointerEvent \/ SendKey
  <2>1. \E sent : call' = [call EXCEPT !.todo = rest, !.sent = sent]
    BY <1>1, <1>6, NoCallFields DEF SendPointerEvent, SendKey, Advance
  <2>2. InCall /\ call.todo # <<>>
    BY <1>6 DEF SendPointerEvent, SendKey, At
  <2> QED
    BY <1>4, <2>1, <2>2
<1>7. CASE StopSending
  <2>1. \E todo \in {<<>>, <<"settle">>} : call' = [call EXCEPT !.todo = todo]
    BY <1>7 DEF StopSending
  <2>2. InCall
    BY <1>7 DEF StopSending
  <2> QED
    BY <1>4, <2>1, <2>2
<1>8. CASE call' = Rejected(call) /\ InCall
  BY <1>4, <1>8 DEF Rejected
<1>9. CASE call' = NextPopup(call) /\ InCall /\ call.todo # <<>>
  <2>1. \E todo \in {rest, call.todo} : \E popups :
           call' = [call EXCEPT !.popups = popups, !.todo = todo]
    BY <1>9 DEF NextPopup
  <2> QED
    BY <1>4, <1>9, <2>1
<1>10. CASE call' = Advance(call) /\ InCall /\ call.todo # <<>>
  BY <1>4, <1>10 DEF Advance
<1>11. CASE ClosePopup
  BY <1>9, <1>11 DEF ClosePopup, At
<1>12. CASE Focused
  BY <1>8, <1>10, <1>12 DEF Focused, At
<1>13. CASE SelectAll
  <2>1. InCall /\ call.todo # <<>>
    BY <1>13 DEF SelectAll, At
  <2>2. \/ \E delivered : call' = [call EXCEPT !.todo = rest, !.delivered = delivered]
        \/ call' = [call EXCEPT !.todo = <<"settle">>]
    BY <1>13 DEF SelectAll, Advance
  <2> QED
    BY <1>4, <2>1, <2>2
<1>14. CASE UseOfDestroyed
  <2>1. /\ InCall
        /\ \/ call' = call
           \/ call' = Rejected(call)
           \/ call.todo # <<>> /\ call' \in {NextPopup(call), Advance(call)}
    BY <1>14 DEF UseOfDestroyed, At
  <2>2. CASE call' = call
    BY <2>2 DEF CallTypes
  <2> QED
    BY <1>8, <1>9, <1>10, <2>1, <2>2
<1>15. CASE Answer \/ Return
  <2> DEFINE none == NoCall
  <2>1. /\ DOMAIN none = CallFields
        /\ none.target = Nothing /\ none.window = Nothing /\ none.key = Nothing /\ none.todo = <<>>
    BY DEF NoCall, CallFields
  <2>2. \/ call' = none
        \/ \E d, l, a : call' = [none EXCEPT !.delivered = d, !.live = l, !.actionable = a]
    <3>1. Return => call' = none
      BY DEF Return
    <3>2. ASSUME Answer
          PROVE  \E d, l, a : call' = [none EXCEPT !.delivered = d, !.live = l, !.actionable = a]
      <4>1. PICK last \in LastPoints(call) : call' = PostDispatch(call, last)
        BY <3>2 DEF Answer
      <4> QED
        BY <4>1 DEF PostDispatch
    <3> QED
      BY <1>15, <3>1, <3>2
  <2>3. /\ call'.target = Nothing /\ call'.window = Nothing /\ call'.key = Nothing
        /\ call'.todo = <<>>
    <3> HIDE DEF none
    <3> QED
      BY <2>1, <2>2, NoCallFields
  <2> QED
    BY <2>3, LessToDo DEF CallTypes, NoFocus
<1> QED
  BY <1>5, <1>6, <1>7, <1>11, <1>12, <1>13, <1>14, <1>15 DEF CarryOut
(* What the receiver of the keys may be, and what is sent to it.           *)
LEMMA AimKeysTypes ==
    ASSUME IInv, TypeInv, AimKeys
    PROVE  CallTypes(call)'
<1>1. /\ At(KeyEvents \cup {"focus", "focused", "aim"}) /\ InCall /\ call.todo # <<>>
      /\ Head(call.todo) = "aim" /\ Intact(call)
  BY DEF AimKeys, At
<1>2. /\ DOMAIN call = CallFields /\ Tail(call.todo) \in Seq(KeySteps) /\ call.units \in Nat
      /\ call.todo \in Seq(StepsOf(call.method))
  BY <1>1, KeyRest, InCallShapes
<1>3. call.window \in windows
  <2>1. call.window \in scene.live \cup windows
    BY <1>1 DEF Intact, Exist, Watches, PointerEvents, KeyEvents
  <2> QED
    BY <2>1, KindsAssumption, NothingAssumption DEF TypeInv, TypeOK, CallTypes, Scenes
<1> DEFINE focused == focus[call.window]
           key == Receives(call, focused)
           todo == KeysFor(call, key) \o Tail(call.todo)
<1>4. focused \in Items \cup {Nothing}
  BY <1>3 DEF TypeInv, TypeOK, Scenes
<1>5. call.target # Nothing => KeyItem(call.target) \in Items
  BY ContentOfAssumption DEF KeyItem, TypeInv, TypeOK
<1>6. key \in Items \cup Windows \cup {Nothing}
  <2> HIDE DEF focused
  <2> QED
    BY <1>4, <1>5 DEF Receives, TypeInv, TypeOK
<1>7. call' = [call EXCEPT !.key = key, !.todo = todo]
  BY DEF AimKeys
<1> HIDE DEF key
<1>8. call.target = Nothing => NoFocus(todo)
  <2> SUFFICES ASSUME call.target = Nothing PROVE NoFocus(todo)
    OBVIOUS
  <2>1. NoFocus(Tail(call.todo))
    BY <1>1, <1>2, LessToDo DEF TypeInv, CallTypes
  <2> DEFINE keys == KeysFor(call, key)
  <2>2. keys \in Seq(KeyEvents)
    BY <1>2, KeysAreEvents
  <2> HIDE DEF keys
  <2>3. ASSUME NEW i \in 1..Len(keys \o Tail(call.todo))
        PROVE  \/ (keys \o Tail(call.todo))[i] \in KeyEvents
               \/ \E j \in 1..Len(Tail(call.todo)) :
                     (keys \o Tail(call.todo))[i] = Tail(call.todo)[j]
    <3> DEFINE rest == Tail(call.todo)
    <3>1. rest \in Seq(KeySteps)
      BY <1>2
    <3> HIDE DEF rest
    <3>2. i \in 1..Len(keys \o rest)
      BY <2>3 DEF rest
    <3>3. CASE i <= Len(keys)
      BY <2>2, <3>1, <3>2, <3>3
    <3>4. CASE i > Len(keys)
      BY <2>2, <3>1, <3>2, <3>4
    <3>5. \/ (keys \o rest)[i] \in KeyEvents
          \/ \E j \in 1..Len(rest) : (keys \o rest)[i] = rest[j]
      BY <2>2, <3>1, <3>2, <3>3, <3>4
    <3> QED
      BY <3>5 DEF rest
  <2>4. NoFocus(keys \o Tail(call.todo))
    BY <2>1, <2>3 DEF NoFocus, KeyEvents
  <2> QED
    BY <2>4 DEF keys
<1> HIDE DEF todo
<1>9. /\ call'.target = call.target /\ call'.window = call.window
      /\ call'.key = key /\ call'.todo = todo
  BY <1>2, <1>7, NoCallFields
<1> QED
  BY <1>6, <1>8, <1>9 DEF TypeInv, CallTypes

(* The item that gets the focus is in the scene.                           *)
LEMMA FocusTypes ==
    ASSUME IInv, IInv', TypeInv, Focus
    PROVE  TypeInv'
<1>1. /\ InCall /\ call.todo # <<>> /\ Head(call.todo) = "focus" /\ Intact(call)
      /\ focus' = [focus EXCEPT ![call.window] = KeyItem(call.target)]
      /\ UNCHANGED <<scene, windows, active, changes>>
  BY DEF Focus, At
<1>2. call.target \in Items
  <2>1. call.todo \in Seq(StepsOf(call.method))
    BY <1>1, InCallShapes
  <2>2. call.todo[1] = "focus" /\ 1 \in 1..Len(call.todo)
    BY <1>1, <2>1, Stepping
  <2> QED
    BY <2>2 DEF TypeInv, CallTypes, NoFocus
<1>3. KeyItem(call.target) \in Items /\ call.target # Nothing
  BY <1>2, ContentOfAssumption, NothingAssumption DEF KeyItem
<1>4. KeyItem(call.target) \in scene.live
  <2>1. KeyItem(call.target) \in Uses(call)
    BY <1>1, <1>3 DEF Uses, PointerEvents, KeyEvents
  <2>2. KeyItem(call.target) \in scene.live \cup windows
    BY <1>1, <2>1 DEF Intact, Exist
  <2> QED
    BY <1>3, <2>2, KindsAssumption DEF IInv, Shapes
<1>5. focus' \in [Windows -> scene'.live \cup {Nothing}]
  BY <1>1, <1>4 DEF TypeInv, TypeOK
<1>6. CallTypes(call)'
  BY CallStepTypes DEF CarryOut, TypeInv, Focus, AimKeys, At
<1>7. /\ byHand' \subseteq down' /\ down' \subseteq windows' \X {"mouse", "touch"}
      /\ pc' \in {"idle", "running", "pumping", "answered", "crashed"}
  BY DEF IInv, Shapes, DownInv
<1>8. TypeOK'
  BY <1>1, <1>5, <1>6, <1>7 DEF TypeInv, TypeOK, CallTypes
<1> QED
  BY <1>6, <1>8 DEF TypeInv

(* A step that changes the scene, but not which items are in it.           *)
LEMMA SceneChangesTypes ==
    ASSUME TypeInv, IInv', CallTypes(call)', scene' \in Scenes, scene'.live = scene.live,
           UNCHANGED <<windows, active, focus>>, changes' \in 0..MaxChanges
    PROVE  TypeInv'
<1>1. /\ byHand' \subseteq down' /\ down' \subseteq windows' \X {"mouse", "touch"}
      /\ pc' \in {"idle", "running", "pumping", "answered", "crashed"}
  BY DEF IInv, Shapes, DownInv
<1>2. TypeOK'
  BY <1>1 DEF TypeInv, TypeOK, CallTypes
<1> QED
  BY <1>2 DEF TypeInv

(* Every step of a call keeps the types.                                   *)
LEMMA CarryOutTypes ==
    ASSUME IInv, IInv', TypeInv, CarryOut
    PROVE  TypeInv'
<1>1. CallTypes(call)'
  BY CallStepTypes, AimKeysTypes DEF TypeInv
<1>2. scene \in Scenes /\ changes \in 0..MaxChanges
  BY DEF TypeInv, TypeOK
<1>3. CASE Activate
  <2>1. call.window \in windows
    <3>0. Head(call.todo) = "activate" /\ Intact(call)
      BY <1>3 DEF Activate, At
    <3>1. call.window \in scene.live \cup windows
      BY <3>0 DEF Intact, Exist, Watches, PointerEvents, KeyEvents
    <3> QED
      BY <1>2, <3>1, KindsAssumption, NothingAssumption DEF TypeInv, CallTypes, Scenes
  <2>2. active' \in windows' \cup {Nothing} /\ UNCHANGED <<scene, windows, focus, changes>>
    BY <1>3, <2>1 DEF Activate, TypeInv, TypeOK
  <2>3. /\ byHand' \subseteq down' /\ down' \subseteq windows' \X {"mouse", "touch"}
        /\ pc' \in {"idle", "running", "pumping", "answered", "crashed"}
    BY DEF IInv, Shapes, DownInv
  <2>4. TypeOK'
    BY <1>1, <2>2, <2>3 DEF TypeInv, TypeOK, CallTypes
  <2> QED
    BY <1>1, <2>4 DEF TypeInv
<1>4. CASE Focus
  BY <1>4, FocusTypes
<1>5. CASE Scroll
  <2>1. call.target \in Items
    <3>1. call.target \in scene.live \cup windows
      BY <1>5 DEF Scroll, At, Intact, Exist, Uses, PointerEvents, KeyEvents
    <3> QED
      BY <1>2, <3>1, NothingAssumption DEF TypeInv, CallTypes, IInv, Shapes, Scenes
  <2> DEFINE box == ScrolledBoxes(call.target)
  <2>2. box \in Boxes
    BY <1>2, <2>1, ScrolledBoxesType DEF Scenes, Boxes
  <2> HIDE DEF box
  <2>3. scene' = [scene EXCEPT !.box = box] /\ UNCHANGED <<windows, active, focus, changes>>
    BY <1>5 DEF Scroll, box
  <2>4. scene' \in Scenes /\ scene'.live = scene.live
    BY <1>2, <2>2, <2>3 DEF Scenes, Boxes
  <2> QED
    BY <1>1, <1>2, <2>3, <2>4, SceneChangesTypes
<1>6. CASE ClosePopup
  <2>1. PICK shown \in {scene.shown, scene.shown \ {Head(call.popups)}} :
          scene' = [scene EXCEPT !.shown = shown]
    BY <1>6 DEF ClosePopup
  <2>2. shown \in SUBSET Items
    BY <1>2, <2>1 DEF Scenes
  <2>3. scene' \in Scenes /\ scene'.live = scene.live
    BY <1>2, <2>1, <2>2 DEF Scenes
  <2> QED
    BY <1>1, <1>2, <1>6, <2>3, SceneChangesTypes DEF ClosePopup
<1>7. CASE ~(Activate \/ Focus \/ Scroll \/ ClosePopup)
  <2>1. UNCHANGED <<scene, windows, active, focus, changes>>
    BY <1>7 DEF CarryOut, SendPointerEvent, Loop, StopSending, Focused, AimKeys, SelectAll,
                SendKey, UseOfDestroyed, Answer, Return, sceneVars
  <2> QED
    BY <1>1, <2>1, CallChangesTypes
<1> QED
  BY <1>3, <1>4, <1>5, <1>6, <1>7

(* What the application changes keeps its type, and nothing that is gone   *)
(* keeps the focus.                                                        *)
LEMMA ApplicationTypes ==
    ASSUME IInv, IInv', TypeInv, Application
    PROVE  TypeInv'
<1>1. /\ changes' \in 0..MaxChanges /\ UNCHANGED <<call, pc>>
      /\ scene \in Scenes /\ active \in windows \cup {Nothing}
      /\ focus \in [Windows -> scene.live \cup {Nothing}]
  BY BoundsAssumption DEF Application, TypeInv, TypeOK
<1>2. CallTypes(call)'
  BY <1>1 DEF TypeInv, CallTypes
<1>3. /\ byHand' \subseteq down' /\ down' \subseteq windows' \X {"mouse", "touch"}
      /\ pc' \in {"idle", "running", "pumping", "answered", "crashed"}
      /\ windows' \subseteq Windows
  BY DEF IInv, Shapes, DownInv
<1>4. ASSUME scene' \in Scenes, active' \in windows' \cup {Nothing},
             focus' \in [Windows -> scene'.live \cup {Nothing}]
      PROVE  TypeInv'
  <2>1. TypeOK'
    BY <1>1, <1>2, <1>3, <1>4 DEF TypeInv, TypeOK, CallTypes
  <2> QED
    BY <1>2, <2>1 DEF TypeInv
<1>5. CASE ChangesItem
  <2>1. PICK i \in scene.live :
          \/ scene' = [scene EXCEPT !.shown = Toggle(@, i)]
          \/ scene' = [scene EXCEPT !.enabled = Toggle(@, i)]
          \/ scene' = [scene EXCEPT !.opaque = Toggle(@, i)]
          \/ scene' = [scene EXCEPT !.z[i] = 1 - @]
          \/ scene' = [scene EXCEPT !.box = Shifted(@, i, 1)]
    BY <1>5 DEF ChangesItem
  <2>2. i \in Items
    BY <1>1 DEF Scenes
  <2>3. ASSUME NEW set \in SUBSET Items
        PROVE  Toggle(set, i) \in SUBSET Items
    BY <2>2 DEF Toggle
  <2>4. /\ scene.shown \in SUBSET Items /\ scene.enabled \in SUBSET Items
        /\ scene.opaque \in SUBSET Items /\ scene.box \in Boxes /\ scene.z \in [Items -> Int]
    BY <1>1 DEF Scenes, Boxes
  <2>5. /\ [scene.z EXCEPT ![i] = 1 - @] \in [Items -> Int]
        /\ Shifted(scene.box, i, 1) \in Boxes
    <3>1. [scene.z EXCEPT ![i] = 1 - @] \in [Items -> Int]
      <4>1. scene.z \in [Items -> Int] /\ 1 - scene.z[i] \in Int
        BY <2>2, <2>4
      <4>2. ASSUME NEW z \in [Items -> Int], NEW k \in Int
            PROVE  [z EXCEPT ![i] = k] \in [Items -> Int]
        OBVIOUS
      <4> QED
        BY <4>1, <4>2
    <3>2. Shifted(scene.box, i, 1) \in Boxes
      BY <2>4, ShiftedBoxes
    <3> QED
      BY <3>1, <3>2
  <2>6. \E set \in SUBSET Items, z \in [Items -> Int], box \in Boxes :
           \/ scene' = [scene EXCEPT !.shown = set]
           \/ scene' = [scene EXCEPT !.enabled = set]
           \/ scene' = [scene EXCEPT !.opaque = set]
           \/ scene' = [scene EXCEPT !.z = z]
           \/ scene' = [scene EXCEPT !.box = box]
    BY <2>1, <2>3, <2>4, <2>5
  <2>7. scene' \in Scenes /\ scene'.live = scene.live
    <3>1. PICK set \in SUBSET Items, z \in [Items -> Int], box \in Boxes :
             \/ scene' = [scene EXCEPT !.shown = set]
             \/ scene' = [scene EXCEPT !.enabled = set]
             \/ scene' = [scene EXCEPT !.opaque = set]
             \/ scene' = [scene EXCEPT !.z = z]
             \/ scene' = [scene EXCEPT !.box = box]
      BY <2>6
    <3>2. scene' \in Scenes
      BY <1>1, <3>1, SceneChanged
    <3>3. scene'.live = scene.live
      BY <1>1, <3>1 DEF Scenes
    <3> QED
      BY <3>2, <3>3
  <2> QED
    BY <1>1, <1>2, <1>5, <2>7, SceneChangesTypes DEF ChangesItem
<1>6. ASSUME NEW i \in Items, Destroys(Subtree(i))
      PROVE  scene' \in Scenes /\ focus' \in [Windows -> scene'.live \cup {Nothing}]
  <2>1. scene' = [scene EXCEPT !.live = @ \ Subtree(i)]
    BY <1>6 DEF Destroys
  <2>2. scene' \in Scenes /\ scene'.live = scene.live \ Subtree(i)
    BY <1>1, <2>1 DEF Scenes
  <2>3. focus' \in [Windows -> scene'.live \cup {Nothing}]
    BY <1>1, <1>6, <2>2 DEF Destroys
  <2> QED
    BY <2>2, <2>3
<1>7. CASE DestroysItem
  <2>1. \E i \in Items : Destroys(Subtree(i))
    BY <1>1, <1>7 DEF DestroysItem, Scenes
  <2> QED
    BY <1>1, <1>4, <1>6, <1>7, <2>1 DEF DestroysItem
<1>8. CASE DestroysWindow
  <2>1. \E i \in Items : Destroys(Subtree(i))
    BY <1>8, ContentAssumption DEF DestroysWindow, IInv, Shapes
  <2>2. active' \in windows' \cup {Nothing}
    BY <1>1, <1>8 DEF DestroysWindow
  <2> QED
    BY <1>4, <1>6, <2>1, <2>2
<1>9. CASE MovesFocus /\ UNCHANGED <<scene, windows>>
  <2>1. focus' \in [Windows -> scene'.live \cup {Nothing}]
    BY <1>1, <1>9 DEF MovesFocus
  <2>2. active' \in windows' \cup {Nothing}
    BY <1>1, <1>9 DEF MovesFocus
  <2> QED
    BY <1>1, <1>4, <1>9, <2>1, <2>2
<1> QED
  BY <1>5, <1>7, <1>8, <1>9 DEF Application

(* The types hold at the start.                                            *)
LEMMA InitTypes == Init => TypeInv
<1> SUFFICES ASSUME Init PROVE TypeInv
  OBVIOUS
<1>1. /\ call.target = Nothing /\ call.window = Nothing /\ call.key = Nothing /\ call.todo = <<>>
  BY DEF Init, NoCall
<1>2. CallTypes(call)
  BY <1>1 DEF CallTypes, NoFocus
<1>3. scene \in Scenes /\ changes \in 0..MaxChanges /\ active = Nothing /\ windows = Windows
  BY ScenesAssumption, BoundsAssumption DEF Init
<1>4. TypeOK
  BY <1>2, <1>3 DEF Init, TypeOK, CallTypes
<1> QED
  BY <1>2, <1>4 DEF TypeInv

(* Every step keeps them.                                                  *)
LEMMA NextTypes == IInv /\ IInv' /\ TypeInv /\ [Next]_vars => TypeInv'
<1> SUFFICES ASSUME IInv, IInv', TypeInv, [Next]_vars PROVE TypeInv'
  OBVIOUS
<1>1. CASE Request
  <2>1. ASSUME Refuse PROVE TypeInv'
    <3>1. CallTypes(call)' /\ UNCHANGED <<scene, windows, active, focus, changes>>
      BY <2>1 DEF Refuse, sceneVars, TypeInv, CallTypes
    <3> QED
      BY <3>1, CallChangesTypes
  <2>2. ASSUME NEW c, DOMAIN c = CallFields, CallTypes(c), Begin(c) PROVE TypeInv'
    <3>1. /\ call'.target = c.target /\ call'.window = c.window
          /\ call'.key = c.key /\ call'.todo = c.todo
          /\ UNCHANGED <<scene, windows, active, focus, changes>>
      BY <2>2, NoCallFields DEF Begin, sceneVars
    <3>2. CallTypes(call)'
      BY <2>2, <3>1 DEF CallTypes
    <3> QED
      BY <3>1, <3>2, CallChangesTypes
  <2> QED
    BY <1>1, <2>1, <2>2, RequestTypes
<1>2. CASE CarryOut
  BY <1>2, CarryOutTypes
<1>3. CASE Application
  BY <1>3, ApplicationTypes
<1>4. CASE UNCHANGED vars
  <2>1. CallTypes(call)' /\ UNCHANGED <<scene, windows, active, focus, changes>>
    BY <1>4 DEF vars, sceneVars, TypeInv, CallTypes
  <2> QED
    BY <2>1, CallChangesTypes
<1> QED
  BY <1>1, <1>2, <1>3, <1>4 DEF Next

(* The focus, the active window and the pointers that are down are of      *)
(* objects that exist, and the boxes of items stay boxes, whatever is      *)
(* scrolled, moved or destroyed.                                           *)
THEOREM TypeCorrect == Spec => []TypeOK
<1>1. Init => TypeInv
  BY InitTypes
<1>2. IInv /\ IInv' /\ TypeInv /\ [Next]_vars => TypeInv'
  BY NextTypes
<1>3. TypeInv => TypeOK
  BY DEF TypeInv
<1> QED
  BY <1>1, <1>2, <1>3, Invariance, PTL DEF Spec
=============================================================================
