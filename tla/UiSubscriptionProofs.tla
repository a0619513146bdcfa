------------------------ MODULE UiSubscriptionProofs ------------------------
(***************************************************************************)
(* Proofs about UiSubscription, for every set of items: an event is not    *)
(* sent after UI.unsubscribe has run, and a subscription at rest watches   *)
(* all that a walk of its windows reaches, whatever the order in which the *)
(* GUI thread, the debug thread and the application get at the flags and   *)
(* the queue.                                                              *)
(***************************************************************************)
EXTENDS UiSubscription, TLAPS

(* Where the debug thread is while it resets the session.                  *)
ResetSteps == DbgSteps \ {"idle", "waiting"}

(* What the GUI thread is doing tells whose request it is executing.       *)
RunningInv ==
    /\ gui \in {"loop", "eventCheck", "send", "refreshCheck"} => running = "none"
    /\ gui = "subscribe" => running = "subscribe"
    /\ gui \in {"unsubscribe", "clearOnly"} => running = "unsubscribe"
    /\ gui \in {"clear", "connect", "checkEvent", "claimEvent", "checkRefresh", "claimRefresh"}
          => running # "unsubscribe"
    /\ children => gui \in {"checkEvent", "claimEvent", "checkRefresh", "claimRefresh"}

(* There is a request in the queue only while the debug thread waits for   *)
(* it to begin, and then there is one.                                     *)
RequestInv ==
    /\ \A i \in 1..Len(queue) : queue[i] \in Requests => dbg = "waiting" /\ running = "none"
    /\ \A i, j \in 1..Len(queue) : queue[i] \in Requests /\ queue[j] \in Requests => i = j

(* A reset that has overtaken nothing meets no request and, once begun, no *)
(* subscription.                                                           *)
ResetInv == dbg \in ResetSteps => overtaken \/ (running = "none" /\ ~subscribed)

(* A subscriber has not asked for silence, and nobody is subscribed while  *)
(* the watchers are cleared for good.                                      *)
SubscribedInv ==
    /\ subscribed => ~quiet
    /\ gui = "send" => ~quiet
    /\ gui = "clearOnly" => ~subscribed

(* The refresh that a pending flag speaks of is in the queue.              *)
RefreshInv == refreshPending => Queued("refresh")

(* What a subscription at rest watches.                                    *)
Told == {i \in Reached : Content(i) \notin missed}

(* Every item in the scene is in a window that is there.                   *)
WindowsInv == \A i \in items : Content(i) \in items

(* When a subscription does not watch that, the walk after which it will   *)
(* is under way or on its way.                                             *)
WatchInv ==
    subscribed /\ ~overtaken =>
        \/ watched = Told
        \/ Queued("refresh")
        \/ gui \in {"refreshCheck", "clear", "connect"}
        \/ children

(* The type invariant, with each variable on its own.                      *)
Types ==
    /\ subscribed \in BOOLEAN /\ eventPending \in BOOLEAN /\ refreshPending \in BOOLEAN
    /\ children \in BOOLEAN /\ unreported \in BOOLEAN /\ quiet \in BOOLEAN
    /\ wasReset \in BOOLEAN /\ overtaken \in BOOLEAN
    /\ watched \subseteq Items
    /\ items \subseteq Items /\ missed \subseteq Items
    /\ queue \in Seq(Lambdas)
    /\ gui \in GuiSteps
    /\ running \in Requests \cup {"none"}
    /\ dbg \in DbgSteps

(* The inductive invariant.                                                *)
IInv ==
    /\ Types
    /\ RunningInv
    /\ RequestInv
    /\ ResetInv
    /\ SubscribedInv
    /\ RefreshInv
    /\ WindowsInv
    /\ WatchInv

(* What the two threads do to the queue: a lambda is appended ...          *)
LEMMA Appending ==
    ASSUME NEW q \in Seq(Lambdas), NEW l \in Lambdas
    PROVE  /\ Append(q, l) \in Seq(Lambdas) /\ Len(Append(q, l)) = Len(q) + 1 /\ Len(q) \in Nat
           /\ \A i \in 1..Len(q) : Append(q, l)[i] = q[i]
           /\ Append(q, l)[Len(q) + 1] = l
OBVIOUS

(* ... the first one is taken ...                                          *)
LEMMA Taking ==
    ASSUME NEW q \in Seq(Lambdas), q # <<>>
    PROVE  /\ Tail(q) \in Seq(Lambdas) /\ Len(Tail(q)) = Len(q) - 1 /\ Len(q) \in Nat \ {0}
           /\ Head(q) = q[1] /\ Head(q) \in Lambdas
           /\ \A i \in 1..Len(Tail(q)) : Tail(q)[i] = q[i + 1]
           /\ \A i \in 2..Len(q) : Tail(q)[i - 1] = q[i]
OBVIOUS

(* A sequence of lambdas is joined to another.                             *)
LEMMA Joining ==
    ASSUME NEW a \in Seq(Lambdas), NEW b \in Seq(Lambdas)
    PROVE  /\ a \o b \in Seq(Lambdas) /\ Len(a \o b) = Len(a) + Len(b)
           /\ Len(a) \in Nat /\ Len(b) \in Nat
           /\ \A i \in 1..Len(a) : (a \o b)[i] = a[i]
           /\ \A i \in 1..Len(b) : (a \o b)[Len(a) + i] = b[i]
OBVIOUS

(* ... or a request is taken out.                                          *)
LEMMA Removing ==
    ASSUME NEW q \in Seq(Lambdas), NEW k \in 1..Len(q)
    PROVE  LET r == RemoveAt(q, k) IN
           /\ r \in Seq(Lambdas) /\ Len(r) = Len(q) - 1 /\ Len(q) \in Nat
           /\ \A i \in 1..(k - 1) : r[i] = q[i]
           /\ \A i \in k..Len(r) : r[i] = q[i + 1]
<1> DEFINE a == SubSeq(q, 1, k - 1)
           b == SubSeq(q, k + 1, Len(q))
           r == a \o b
<1>1. /\ a \in Seq(Lambdas) /\ Len(a) = k - 1
      /\ b \in Seq(Lambdas) /\ Len(b) = Len(q) - k
      /\ \A i \in 1..(k - 1) : a[i] = q[i]
      /\ \A i \in 1..(Len(q) - k) : b[i] = q[k + i]
      /\ Len(q) \in Nat /\ k \in Nat
  OBVIOUS
<1>2. RemoveAt(q, k) = r
  BY DEF RemoveAt
<1> HIDE DEF a, b
<1>3. /\ r \in Seq(Lambdas) /\ Len(r) = Len(a) + Len(b)
      /\ \A i \in 1..Len(a) : r[i] = a[i]
      /\ \A i \in 1..Len(b) : r[Len(a) + i] = b[i]
  BY <1>1, Joining
<1> HIDE DEF r
<1>4. ASSUME NEW i \in k..Len(r) PROVE r[i] = q[i + 1]
  <2> DEFINE j == i - (k - 1)
  <2>1. j \in 1..(Len(q) - k) /\ i = (k - 1) + j /\ k + j = i + 1
    BY <1>1, <1>3
  <2> HIDE DEF j
  <2>2. r[(k - 1) + j] = b[j] /\ b[j] = q[k + j]
    BY <1>1, <1>3, <2>1
  <2> QED
    BY <2>1, <2>2
<1> QED
  BY <1>1, <1>2, <1>3, <1>4

(* The invariant holds before the first request.                           *)
LEMMA InitIInv == Init => IInv
<1> SUFFICES ASSUME Init PROVE IInv
  OBVIOUS
<1>1. Types
  <2>1. /\ subscribed \in BOOLEAN /\ eventPending \in BOOLEAN /\ refreshPending \in BOOLEAN
        /\ children \in BOOLEAN /\ unreported \in BOOLEAN /\ quiet \in BOOLEAN
        /\ wasReset \in BOOLEAN /\ overtaken \in BOOLEAN
    BY Zenon DEF Init
  <2> QED
    BY <2>1 DEF Init, Types, GuiSteps, DbgSteps
<1>2. WindowsInv
  <2>1. ASSUME NEW i \in Items, IsContent(i) PROVE Content(i) = i
    <3>1. Len(Path[i]) = 1 /\ Path[i][Len(Path[i])] = i
      BY <2>1, PathAssumption DEF IsContent, Depth
    <3> QED
      BY <3>1 DEF Content
  <2> QED
    BY <2>1 DEF Init, WindowsInv
<1> QED
  BY <1>1, <1>2
     DEF Init, IInv, RunningInv, RequestInv, ResetInv, SubscribedInv, RefreshInv,
         WatchInv, Queued, Contains, GuiSteps, DbgSteps, ResetSteps, Requests, Lambdas

(* A step that leaves the windows and what is in them as they are.         *)
LEMMA SameScene ==
    ASSUME items' = items, missed' = missed PROVE Told' = Told /\ (WindowsInv => WindowsInv')
BY DEF Told, Reached, WindowsInv

(* The way to an item begins at the content item of its window.            *)
LEMMA Ways ==
    ASSUME NEW i \in Items
    PROVE  /\ Content(i) \in Items /\ Range(Path[Content(i)]) = {Content(i)}
           /\ Content(i) \in Range(Path[i])
           /\ IsContent(i) => Content(i) = i
           /\ ~IsContent(i) =>
                 /\ Parent(i) \in Items
                 /\ Content(Parent(i)) = Content(i) /\ Depth(Parent(i)) = Depth(i) - 1
           /\ Depth(i) \in Nat
<1>1. /\ Path[i] \in Seq(Items) /\ Len(Path[i]) \in Nat \ {0}
      /\ Path[i][Len(Path[i])] = i
      /\ \A n \in 1..Len(Path[i]) : Path[i][n] \in Items
      /\ \A n \in 1..Len(Path[i]) : Path[Path[i][n]] = SubSeq(Path[i], 1, n)
  <2>1. Path[i] \in Seq(Items) /\ Path[i] # <<>>
    BY PathAssumption
  <2>2. Len(Path[i]) \in Nat \ {0} /\ \A n \in 1..Len(Path[i]) : Path[i][n] \in Items
    BY <2>1
  <2>3. /\ Path[i][Len(Path[i])] = i
        /\ \A n \in 1..Len(Path[i]) : Path[Path[i][n]] = SubSeq(Path[i], 1, n)
    BY PathAssumption
  <2> QED
    BY <2>1, <2>2, <2>3
<1>2. Path[Content(i)] = SubSeq(Path[i], 1, 1) /\ Content(i) \in Items
  BY <1>1 DEF Content
<1>3. Len(SubSeq(Path[i], 1, 1)) = 1 /\ SubSeq(Path[i], 1, 1)[1] = Content(i)
  BY <1>1 DEF Content
<1>4. Range(Path[Content(i)]) = {Content(i)}
  <2>1. DOMAIN Path[Content(i)] = {1}
    BY <1>2, <1>3, PathAssumption
  <2> QED
    BY <1>2, <1>3, <2>1 DEF Range
<1>5. Content(i) \in Range(Path[i])
  <2>1. 1 \in DOMAIN Path[i]
    BY <1>1
  <2> QED
    BY <2>1 DEF Range, Content
<1>6. ASSUME ~IsContent(i)
      PROVE  /\ Parent(i) \in Items
             /\ Content(Parent(i)) = Content(i) /\ Depth(Parent(i)) = Depth(i) - 1
  <2> DEFINE n == Len(Path[i]) - 1
  <2>1. n \in 1..Len(Path[i]) /\ n \in Nat /\ n # 0
    <3>1. n # 0
      BY <1>6 DEF IsContent, Depth
    <3>2. ASSUME NEW l \in Nat \ {0}, l - 1 # 0
          PROVE  l - 1 \in 1..l /\ l - 1 \in Nat
      BY <3>2
    <3>3. Len(Path[i]) \in Nat \ {0}
      BY <1>1
    <3> QED
      BY <3>1, <3>2, <3>3
  <2>2. Path[Parent(i)] = SubSeq(Path[i], 1, n) /\ Parent(i) \in Items
    BY <1>1, <2>1 DEF Parent
  <2>3. Len(SubSeq(Path[i], 1, n)) = n /\ SubSeq(Path[i], 1, n)[1] = Path[i][1]
    BY <1>1, <2>1
  <2> QED
    BY <2>2, <2>3 DEF Content, Depth
<1> QED
  BY <1>1, <1>2, <1>4, <1>5, <1>6 DEF IsContent, Depth, Content

(* What goes with an item goes from what is watched and from what should   *)
(* be; no window loses its content item and keeps another item.            *)
LEMMA SubtreeGoes ==
    ASSUME IInv, NEW i \in Items, items' = items \ Subtree(i), missed' = missed
    PROVE  WindowsInv' /\ Told' = Told \ Subtree(i)
<1>1. ASSUME NEW j \in items, j \notin Subtree(i) PROVE Content(j) \in items'
  <2>1. j \in Items /\ Content(j) \in items
    BY DEF IInv, Types, WindowsInv
  <2>2. i \notin Range(Path[Content(j)])
    BY <1>1, <2>1, Ways DEF Subtree
  <2> QED
    BY <2>1, <2>2 DEF Subtree
<1> QED
  BY <1>1 DEF WindowsInv, Told, Reached

(* A child of an item that is not watched is not to be watched either.     *)
LEMMA ChildComes ==
    ASSUME IInv, NEW i \in Items \ items, ~IsContent(i), Parent(i) \in items,
           items' = items \cup {i}, missed' = missed
    PROVE  WindowsInv' /\ (Parent(i) \notin Told => Told' = Told)
<1>1. /\ Content(Parent(i)) = Content(i) /\ Content(i) \in items
      /\ Depth(Parent(i)) = Depth(i) - 1 /\ Depth(i) \in Nat
  BY Ways DEF IInv, Types, WindowsInv
<1>2. WindowsInv'
  BY <1>1 DEF WindowsInv, IInv
<1>3. ASSUME Parent(i) \notin Told
      PROVE  ~(Depth(i) <= MaxUiWatcherDepth /\ Content(i) \notin missed)
  BY <1>1, <1>3, DepthAssumption DEF Told, Reached
<1> QED
  BY <1>2, <1>3 DEF Told, Reached

(* Nothing in a window created now is to be watched yet.                   *)
LEMMA WindowComes ==
    ASSUME IInv, NEW i \in Items \ items, IsContent(i),
           items' = items \cup {i}, missed' = missed \cup {i}
    PROVE  WindowsInv' /\ Told' = Told
<1>1. Content(i) = i /\ \A j \in items : Content(j) \in items
  BY Ways DEF IInv, WindowsInv
<1> QED
  BY <1>1 DEF WindowsInv, Told, Reached

(* What the application does between two events.                           *)
LEMMA ApplicationIInv == IInv /\ Application => IInv'
<1> SUFFICES ASSUME IInv, Application PROVE IInv'
  OBVIOUS
<1> USE DEF IInv, RunningInv, RequestInv, ResetInv, SubscribedInv, RefreshInv, WatchInv,
            Queued, Contains, GuiSteps, DbgSteps, ResetSteps, Requests, Lambdas
<1>1. ASSUME ItemChanges PROVE IInv'
  <2>1. UNCHANGED <<flags, watched, items, queue, running, dbg, history>>
    BY <1>1 DEF ItemChanges
  <2>2. Told' = Told /\ WindowsInv'
    BY <2>1, SameScene DEF history
  <2>3. gui = "loop" /\ gui' = "checkEvent" /\ children' = FALSE
    BY <1>1 DEF ItemChanges, SceneMayChange, Signalled
  <2> QED
    BY <2>1, <2>2, <2>3 DEF flags, history, Types
<1>2. ASSUME ChildAdded PROVE IInv'
  <2>1. PICK i \in Items \ items : /\ ~IsContent(i) /\ Parent(i) \in items
                                   /\ items' = items \cup {i} /\ ChildrenChanged(Parent(i))
    BY <1>2 DEF ChildAdded
  <2>2. WindowsInv' /\ (Parent(i) \notin Told => Told' = Told)
    BY <1>2, <2>1, ChildComes DEF ChildAdded, history
  <2>3. Types'
    BY <1>2, <2>1
       DEF ChildAdded, SceneMayChange, Signalled, ChildrenChanged, flags, history, Types
  <2> QED
    BY <1>2, <2>1, <2>2, <2>3
       DEF ChildAdded, SceneMayChange, Signalled, ChildrenChanged, flags, history
<1>3. ASSUME ChildRemoved PROVE IInv'
  <2>1. PICK i \in items : /\ items' = items \ Subtree(i) /\ watched' = watched \ Subtree(i)
                           /\ ChildrenChanged(Parent(i))
    BY <1>3 DEF ChildRemoved
  <2>2. WindowsInv' /\ Told' = Told \ Subtree(i)
    BY <1>3, <2>1, SubtreeGoes DEF ChildRemoved, history, Types
  <2>3. Types'
    BY <1>3, <2>1
       DEF ChildRemoved, SceneMayChange, Signalled, ChildrenChanged, flags, history, Types
  <2> QED
    BY <1>3, <2>1, <2>2, <2>3
       DEF ChildRemoved, SceneMayChange, Signalled, ChildrenChanged, flags, history
<1>4. ASSUME WindowCreated PROVE IInv'
  <2>1. PICK i \in Items \ items :
           IsContent(i) /\ items' = items \cup {i} /\ missed' = missed \cup {i}
    BY <1>4 DEF WindowCreated
  <2>2. WindowsInv' /\ Told' = Told
    BY <2>1, WindowComes
  <2> QED
    BY <1>4, <2>1, <2>2 DEF WindowCreated, SceneMayChange, flags, Types
<1>5. ASSUME WindowDestroyed PROVE IInv'
  <2>1. PICK i \in items : items' = items \ Subtree(i) /\ watched' = watched \ Subtree(i)
    BY <1>5 DEF WindowDestroyed
  <2>2. WindowsInv' /\ Told' = Told \ Subtree(i)
    BY <1>5, <2>1, SubtreeGoes DEF WindowDestroyed, history, Types
  <2> QED
    BY <1>5, <2>1, <2>2 DEF WindowDestroyed, SceneMayChange, flags, history, Types
<1> QED
  BY <1>1, <1>2, <1>3, <1>4, <1>5 DEF Application

(* An event is posted once for all changes until it is taken.              *)
LEMMA ClaimEventIInv == IInv /\ ClaimEvent => IInv'
<1> SUFFICES ASSUME IInv, ClaimEvent PROVE IInv'
  OBVIOUS
<1> USE DEF IInv
<1>1. queue' = queue \/ queue' = Append(queue, "event")
  BY DEF ClaimEvent
<1>2. "event" \in Lambdas /\ "event" \notin Requests /\ queue \in Seq(Lambdas)
  BY DEF Types, Lambdas, Requests
<1>3. Queued("refresh") => Queued("refresh")'
  BY <1>1, <1>2, Appending DEF Queued, Contains
<1>4. Types'
  <2>1. queue' \in Seq(Lambdas)
    BY <1>1, <1>2, Appending
  <2> QED
    BY <2>1
       DEF ClaimEvent, AfterEventScheduled, Continue, BackToLoop, Types, GuiSteps,
           DbgSteps, history
<1>5. RequestInv'
  <2>1. \A i \in 1..Len(queue') :
           queue'[i] \in Requests => i \in 1..Len(queue) /\ queue'[i] = queue[i]
    BY <1>1, <1>2, Appending
  <2> QED
    BY <2>1
       DEF ClaimEvent, AfterEventScheduled, Continue, BackToLoop, RequestInv,
           RunningInv, history
<1> QED
  BY <1>3, <1>4, <1>5, SameScene
     DEF ClaimEvent, AfterEventScheduled, Continue, BackToLoop, RunningInv, ResetInv,
         SubscribedInv, RefreshInv, WatchInv, ResetSteps, DbgSteps, Types, history

(* A refresh is in the queue afterwards, whether it was posted now or before.*)
LEMMA ClaimRefreshIInv == IInv /\ ClaimRefresh => IInv'
<1> SUFFICES ASSUME IInv, ClaimRefresh PROVE IInv'
  OBVIOUS
<1> USE DEF IInv
<1>1. queue' = queue \/ queue' = Append(queue, "refresh")
  BY DEF ClaimRefresh
<1>2. "refresh" \in Lambdas /\ "refresh" \notin Requests /\ queue \in Seq(Lambdas)
  BY DEF Types, Lambdas, Requests
<1>3. Queued("refresh")'
  <2>1. CASE refreshPending
    BY <2>1 DEF ClaimRefresh, RefreshInv, Queued, Contains
  <2>2. CASE ~refreshPending
    BY <1>2, <2>2, Appending DEF ClaimRefresh, Queued, Contains
  <2> QED
    BY <2>1, <2>2
<1>4. Types'
  <2>1. queue' \in Seq(Lambdas)
    BY <1>1, <1>2, Appending
  <2> QED
    BY <2>1
       DEF ClaimRefresh, AfterEventScheduled, Continue, BackToLoop, Types, GuiSteps,
           DbgSteps, history
<1>5. RequestInv'
  <2>1. \A i \in 1..Len(queue') :
           queue'[i] \in Requests => i \in 1..Len(queue) /\ queue'[i] = queue[i]
    BY <1>1, <1>2, Appending
  <2> QED
    BY <2>1
       DEF ClaimRefresh, AfterEventScheduled, Continue, BackToLoop, RequestInv,
           RunningInv, history
<1> QED
  BY <1>3, <1>4, <1>5, SameScene
     DEF ClaimRefresh, BackToLoop, RunningInv, ResetInv, SubscribedInv, RefreshInv,
         WatchInv, ResetSteps, DbgSteps, Types, history

(* A refresh that is taken from the queue is the step the GUI thread is at.*)
LEMMA RunQueuedIInv == IInv /\ RunQueued => IInv'
<1> SUFFICES ASSUME IInv, RunQueued PROVE IInv'
  OBVIOUS
<1> USE DEF IInv
<1>1. /\ queue # <<>> /\ queue' = Tail(queue) /\ queue \in Seq(Lambdas)
      /\ gui = "loop" /\ running = "none"
  BY DEF RunQueued, Types, RunningInv
<1>2. gui' = FirstStep[Head(queue)] /\ Head(queue) \in Lambdas /\ Head(queue) = queue[1]
  BY <1>1, Taking DEF RunQueued
<1>3. Queued("refresh") => Queued("refresh")' \/ Head(queue) = "refresh"
  <2> SUFFICES ASSUME NEW i \in 1..Len(queue), queue[i] = "refresh", i # 1
               PROVE  \E j \in 1..Len(Tail(queue)) : Tail(queue)[j] = "refresh"
    BY <1>1, <1>2 DEF Queued, Contains
  <2>1. i \in 2..Len(queue) /\ i - 1 \in 1..Len(Tail(queue))
    BY <1>1, Taking
  <2> QED
    BY <1>1, <2>1, Taking
<1>4. Types' /\ RunningInv'
  BY <1>1, <1>2, Taking
     DEF RunQueued, FirstStep, Types, RunningInv, GuiSteps, DbgSteps, Lambdas,
         Requests, history
<1>5. RequestInv'
  <2>1. Head(queue) \in Requests =>
           dbg = "waiting" /\ \A i \in 2..Len(queue) : queue[i] \notin Requests
    BY <1>1, <1>2, Taking DEF RequestInv
  <2> QED
    BY <1>1, <1>2, <2>1, Taking DEF RunQueued, RequestInv
<1>6. ResetInv' /\ SubscribedInv'
  BY <1>1, <1>2, Taking
     DEF RunQueued, FirstStep, RequestInv, ResetInv, SubscribedInv, ResetSteps,
         DbgSteps, Lambdas, Requests, history
<1>7. RefreshInv' /\ WindowsInv' /\ WatchInv'
  BY <1>2, <1>3, SameScene
     DEF RunQueued, FirstStep, RefreshInv, WatchInv, Types, RunningInv, history
<1> QED
  BY <1>4, <1>5, <1>6, <1>7

(* A cancelled request leaves the queue; the lambdas stay.                 *)
LEMMA CancelIInv == IInv /\ CancelRequest => IInv'
<1> SUFFICES ASSUME IInv, CancelRequest PROVE IInv'
  OBVIOUS
<1> USE DEF IInv
<1>1. PICK k \in 1..Len(queue) : queue[k] \in Requests /\ queue' = RemoveAt(queue, k)
  BY DEF CancelRequest, Types
<1> DEFINE r == RemoveAt(queue, k)
<1>2. /\ r \in Seq(Lambdas) /\ Len(r) = Len(queue) - 1 /\ Len(queue) \in Nat
      /\ \A i \in 1..(k - 1) : r[i] = queue[i]
      /\ \A i \in k..Len(r) : r[i] = queue[i + 1]
  BY Removing DEF Types
<1> HIDE DEF r
<1>3. Queued("refresh") => Queued("refresh")'
  <2> SUFFICES ASSUME NEW i \in 1..Len(queue), queue[i] = "refresh"
               PROVE  \E j \in 1..Len(r) : r[j] = "refresh"
    BY <1>1 DEF Queued, Contains, r
  <2>1. i # k
    BY <1>1 DEF Requests
  <2>2. CASE i < k
    BY <1>2, <2>2
  <2>3. CASE i > k
    <3>1. i - 1 \in k..Len(r)
      BY <1>2, <2>3
    <3>2. r[i - 1] = queue[(i - 1) + 1] /\ (i - 1) + 1 = i
      BY <1>2, <3>1
    <3> QED
      BY <1>2, <3>1, <3>2
  <2> QED
    BY <1>2, <2>1, <2>2, <2>3
<1>4. \A i \in 1..Len(r) : r[i] \notin Requests
  <2> SUFFICES ASSUME NEW i \in 1..Len(r), r[i] \in Requests PROVE FALSE
    OBVIOUS
  <2>1. CASE i < k
    BY <1>1, <1>2, <2>1 DEF RequestInv
  <2>2. CASE i >= k
    BY <1>1, <1>2, <2>2 DEF RequestInv
  <2> QED
    BY <1>2, <2>1, <2>2
<1>5. queue' = r
  BY <1>1 DEF r
<1> QED
  BY <1>2, <1>3, <1>4, <1>5, SameScene
     DEF CancelRequest, Types, RunningInv, RequestInv, ResetInv, SubscribedInv,
         RefreshInv, WatchInv, ResetSteps, DbgSteps, flags, history

(* The subscription checks of the signal handlers and queued lambdas.      *)
LEMMA CheckIInv ==
    ASSUME IInv, CheckEvent \/ CheckRefresh \/ EventCheck \/ SendEvent \/ RefreshCheck
    PROVE  IInv'
<1> USE DEF IInv, Types, RunningInv, RequestInv, ResetInv, SubscribedInv, RefreshInv, WatchInv,
            Queued, Contains, GuiSteps, DbgSteps, ResetSteps, Requests, Lambdas
<1>1. ASSUME CheckEvent PROVE IInv'
  BY <1>1, SameScene, ZenonT(60) DEF CheckEvent, BackToLoop, Continue, AfterEventScheduled, flags
<1>2. ASSUME CheckRefresh PROVE IInv'
  BY <1>2, SameScene, ZenonT(60) DEF CheckRefresh, BackToLoop, Continue, flags, history
<1>3. ASSUME EventCheck PROVE IInv'
  BY <1>3, SameScene DEF EventCheck, flags, history
<1>4. ASSUME SendEvent PROVE IInv'
  BY <1>4, SameScene DEF SendEvent, flags
<1>5. ASSUME RefreshCheck PROVE IInv'
  BY <1>5, SameScene DEF RefreshCheck, flags, history
<1> QED
  BY <1>1, <1>2, <1>3, <1>4, <1>5

(* The bodies of UI.subscribe and UI.unsubscribe, and the walk of a refresh.*)
LEMMA RequestIInv ==
    ASSUME IInv, SubscribeUi \/ UnsubscribeUi \/ ClearOnly \/ ClearToInstall \/ ConnectAll
    PROVE  IInv'
<1> USE DEF IInv, Types, RunningInv, RequestInv, ResetInv, SubscribedInv, RefreshInv, WatchInv,
            Queued, Contains, GuiSteps, DbgSteps, ResetSteps, Requests, Lambdas
<1>1. ASSUME SubscribeUi PROVE IInv'
  BY <1>1, SameScene DEF SubscribeUi
<1>2. ASSUME UnsubscribeUi PROVE IInv'
  BY <1>2, SameScene DEF UnsubscribeUi
<1>3. ASSUME ClearOnly PROVE IInv'
  BY <1>3, SameScene DEF ClearOnly, BackToLoop, Rewrites, flags, history
<1>4. ASSUME ClearToInstall PROVE IInv'
  BY <1>4, SameScene DEF ClearToInstall, Rewrites, flags, history
<1>5. ASSUME ConnectAll PROVE IInv'
  <2>1. Told' = Reached /\ WindowsInv'
    BY <1>5 DEF ConnectAll, Told, Reached, WindowsInv
  <2>2. Reached \subseteq Items
    BY DEF Reached
  <2> QED
    BY <1>5, <2>1, <2>2, ZenonT(60) DEF ConnectAll, BackToLoop, Continue, Rewrites, flags
<1> QED
  BY <1>1, <1>2, <1>3, <1>4, <1>5

(* The debug thread posts a request when it has none in the queue.         *)
LEMMA PostIInv == ASSUME IInv, NEW request \in Requests, PostRequest(request) PROVE IInv'
<1> USE DEF IInv, Types, RunningInv, RequestInv, ResetInv, SubscribedInv, RefreshInv, WatchInv,
            Queued, Contains, GuiSteps, DbgSteps, ResetSteps, Requests, Lambdas
<1>1. request \in Lambdas /\ queue \in Seq(Lambdas) /\ queue' = Append(queue, request)
  BY DEF PostRequest
<1> QED
  BY <1>1, Appending, SameScene DEF PostRequest, flags

(* The debug thread gives a request up, or resets the session.             *)
LEMMA ResetIInv == IInv /\ (AbandonRequest \/ ResetSubscribed \/ ResetStep) => IInv'
<1> SUFFICES ASSUME IInv, AbandonRequest \/ ResetSubscribed \/ ResetStep PROVE IInv'
  OBVIOUS
<1> USE DEF IInv, Types, RunningInv, RequestInv, ResetInv, SubscribedInv, RefreshInv, WatchInv,
            Queued, Contains, GuiSteps, DbgSteps, ResetSteps, Requests, Lambdas
<1>1. ASSUME AbandonRequest PROVE IInv'
  BY <1>1, SameScene DEF AbandonRequest, flags, history
<1>2. ASSUME ResetSubscribed PROVE IInv'
  BY <1>2, SameScene, ZenonT(60) DEF ResetSubscribed
<1>3. ASSUME ResetEventPending PROVE IInv'
  BY <1>3, SameScene, ZenonT(60) DEF ResetEventPending, history
<1>4. ASSUME ResetRefreshPending PROVE IInv'
  BY <1>4, SameScene, ZenonT(60) DEF ResetRefreshPending, history
<1>5. ASSUME ResetWatchers PROVE IInv'
  BY <1>5, SameScene DEF ResetWatchers, Rewrites, flags, history
<1>6. ASSUME AnnounceReset PROVE IInv'
  BY <1>6, SameScene DEF AnnounceReset, flags
<1> QED
  BY <1>1, <1>2, <1>3, <1>4, <1>5, <1>6 DEF ResetStep

(* Every step of either thread preserves the invariant.                    *)
LEMMA NextIInv == IInv /\ [Next]_vars => IInv'
<1>1. IInv /\ UNCHANGED vars => IInv'
  BY SameScene
     DEF vars, flags, history, IInv, Types, RunningInv, RequestInv, ResetInv,
         SubscribedInv,
         RefreshInv, WatchInv, Queued, Contains
<1> QED
  BY <1>1, ApplicationIInv, RunQueuedIInv, CheckIInv, ClaimEventIInv, ClaimRefreshIInv,
     RequestIInv, PostIInv, CancelIInv, ResetIInv
     DEF Next, GuiStep, DebugStep

(* The strengthened invariant holds in every state.                        *)
THEOREM Invariance == Spec => []IInv
BY InitIInv, NextIInv, PTL DEF Spec

(* The variables have their types, and a handler runs only while it is on the*)
(* GUI stack.                                                              *)
THEOREM TypeCorrect == Spec => []TypeOK
<1>1. IInv => TypeOK
  BY DEF IInv, Types, TypeOK, RunningInv
<1> QED
  BY <1>1, Invariance, PTL

(* sendUiTreeChanged is not reached once UI.unsubscribe has run, although the*)
(* subscription is checked a step before the event is sent.                *)
THEOREM UnsubscribeSilences == Spec => []SilentAfterUnsubscribe
<1>1. IInv => SilentAfterUnsubscribe
  BY DEF IInv, SubscribedInv, SilentAfterUnsubscribe
<1> QED
  BY <1>1, Invariance, PTL

(* installUiWatchers and the coalesced refreshes together leave no object  *)
(* unwatched that a walk reaches, but for those in windows created since.  *)
THEOREM ReachableSceneIsWatched == Spec => []WatchesReachableScene
<1>1. IInv => WatchesReachableScene
  BY DEF IInv, RunningInv, WatchInv, Told, WatchesReachableScene
<1> QED
  BY <1>1, Invariance, PTL
=============================================================================
