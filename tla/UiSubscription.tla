--------------------------- MODULE UiSubscription ---------------------------
(***************************************************************************)
(* The UI.treeChanged subscription of QQmlAgentService: three atomic flags *)
(* and a list of signal connections, shared by the GUI thread (requests,   *)
(* watchers, queued lambdas) and by the debug thread, which resets the     *)
(* session without asking the GUI thread. Steps are single accesses to the *)
(* shared state, so both threads interleave as they do in the process.     *)
(*                                                                         *)
(* How a request reaches the GUI thread is the business of GuiDispatch;    *)
(* here a posted request runs, is cancelled before it starts, or is        *)
(* abandoned while it runs. A cancelled lambda does nothing and is dropped *)
(* from the queue.                                                         *)
(***************************************************************************)
EXTENDS Naturals, Sequences, SequencesExt

CONSTANTS Items,  \* the QML objects that may be in the scene
          Path,   \* of each, the way to it from the content item of its window
          MaxUiWatcherDepth,
          MaxQueued  \* bound: the scene changes only while fewer lambdas are queued

(* The way to an item on the way to another is the beginning of it.        *)
ASSUME PathAssumption ==
    /\ Path \in [Items -> Seq(Items) \ {<<>>}]
    /\ \A i \in Items : Path[i][Len(Path[i])] = i
    /\ \A i \in Items : \A n \in 1..Len(Path[i]) : Path[Path[i][n]] = SubSeq(Path[i], 1, n)
ASSUME DepthAssumption == MaxUiWatcherDepth \in Nat
ASSUME MaxQueuedAssumption == MaxQueued \in Nat \ {0}

VARIABLES
    subscribed,     \* m_uiSubscribed
    eventPending,   \* m_uiEventPending
    refreshPending, \* m_uiWatcherRefreshPending
    watched,        \* the items m_uiConnections is connected to
    items,          \* the items in the scene
    queue,          \* lambdas queued for the GUI thread
    gui,            \* where the GUI thread is
    children,       \* the signal being handled is childrenChanged
    running,        \* the request the GUI thread is executing, or "none"
    dbg,            \* where the debug thread is
    \* History, read by properties only.
    unreported,     \* a change was seen while subscribed and not yet sent
    quiet,          \* UI.unsubscribe has run, UI.subscribe has not since
    wasReset,       \* a reset has completed, no UI.subscribe was sent since
    missed,         \* content items of windows created since the last walk
    overtaken       \* a reset has begun while an abandoned request was running

flags   == <<subscribed, eventPending, refreshPending>>
history == <<unreported, quiet, wasReset, missed, overtaken>>
vars    == <<flags, watched, items, queue, gui, children, running, dbg, history>>

Depth(i)     == Len(Path[i]) - 1
Content(i)   == Path[i][1]  \* of its window
IsContent(i) == Depth(i) = 0
Parent(i)    == Path[i][Len(Path[i]) - 1]
Subtree(i)   == {j \in items : i \in Range(Path[j])}

Requests == {"subscribe", "unsubscribe"}
Lambdas  == Requests \cup {"event", "refresh"}
GuiSteps == {"loop", "checkEvent", "claimEvent", "checkRefresh", "claimRefresh",
             "eventCheck", "send", "refreshCheck",
             "subscribe", "unsubscribe", "clearOnly", "clear", "connect"}
DbgSteps == {"idle", "waiting", "resetEvent", "resetRefresh", "clear", "announce"}

Init ==
    /\ subscribed = FALSE
    /\ eventPending = FALSE
    /\ refreshPending = FALSE
    /\ watched = {}
    /\ items \in SUBSET {i \in Items : IsContent(i)}
    /\ queue = <<>>
    /\ gui = "loop"
    /\ children = FALSE
    /\ running = "none"
    /\ dbg = "idle"
    /\ unreported = FALSE
    /\ quiet = TRUE
    /\ wasReset = FALSE
    /\ missed = {}
    /\ overtaken = FALSE

-----------------------------------------------------------------------------
(* The GUI thread: what the application does between two events. Only a    *)
(* watched object's signal reaches the service.                            *)

SceneMayChange == gui = "loop" /\ Len(queue) < MaxQueued

Signalled(byChildren) ==
    /\ gui' = "checkEvent"
    /\ children' = byChildren

ChildrenChanged(parent) ==
    IF parent \in watched THEN Signalled(TRUE) ELSE UNCHANGED <<gui, children>>

ItemChanges ==
    /\ SceneMayChange
    /\ watched # {}
    /\ Signalled(FALSE)
    /\ UNCHANGED <<flags, watched, items, queue, running, dbg, history>>

ChildAdded ==
    /\ SceneMayChange
    /\ \E i \in Items \ items :
          /\ ~IsContent(i) /\ Parent(i) \in items
          /\ items' = items \cup {i}
          /\ ChildrenChanged(Parent(i))
    /\ UNCHANGED <<flags, watched, queue, running, dbg, history>>

(* A child goes with what is in it, and the connections with them.         *)
ChildRemoved ==
    /\ SceneMayChange
    /\ \E i \in items :
          /\ ~IsContent(i)
          /\ items' = items \ Subtree(i)
          /\ watched' = watched \ Subtree(i)
          /\ ChildrenChanged(Parent(i))
    /\ UNCHANGED <<flags, queue, running, dbg, history>>

(* That a window is created or destroyed is no signal of any object that   *)
(* is watched.                                                             *)
WindowCreated ==
    /\ SceneMayChange
    /\ \E i \in Items \ items :
          /\ IsContent(i)
          /\ items' = items \cup {i}
          /\ missed' = missed \cup {i}
    /\ UNCHANGED <<flags, watched, queue, gui, children, running, dbg,
                   unreported, quiet, wasReset, overtaken>>

WindowDestroyed ==
    /\ SceneMayChange
    /\ \E i \in items :
          /\ IsContent(i)
          /\ items' = items \ Subtree(i)
          /\ watched' = watched \ Subtree(i)
    /\ UNCHANGED <<flags, queue, gui, children, running, dbg, history>>

-----------------------------------------------------------------------------
(* Mutant: a request ends without its semaphore being released.            *)
BackToLoopUnreleased ==
    /\ gui' = "loop"
    /\ children' = FALSE
    /\ UNCHANGED <<running, dbg>>

(* The GUI thread returns to its event loop; a request that ends there     *)
(* releases the debug thread if that is still waiting for it.              *)
BackToLoop ==
    /\ gui' = "loop"
    /\ children' = FALSE
    /\ running' = "none"
    /\ dbg' = IF running # "none" /\ dbg = "waiting" THEN "idle" ELSE dbg

Continue(step) == gui' = step /\ UNCHANGED <<children, running, dbg>>

(* Mutant: new children are reported but never watched.                    *)
NoRefreshScheduled == BackToLoop

(* scheduleUiChangedEvent, then scheduleUiWatcherRefresh if the signal was *)
(* childrenChanged: the subscription is checked in one step, the pending   *)
(* flag is claimed and the lambda posted in another.                       *)
AfterEventScheduled == IF children THEN Continue("checkRefresh") ELSE BackToLoop

CheckEvent ==
    /\ gui = "checkEvent"
    /\ unreported' = (unreported \/ subscribed)
    /\ IF subscribed THEN Continue("claimEvent") ELSE AfterEventScheduled
    /\ UNCHANGED <<flags, watched, items, queue, quiet, wasReset, missed, overtaken>>

ClaimEvent ==
    /\ gui = "claimEvent"
    /\ eventPending' = TRUE
    /\ queue' = IF eventPending THEN queue ELSE Append(queue, "event")
    /\ AfterEventScheduled
    /\ UNCHANGED <<subscribed, refreshPending, watched, items, history>>

CheckRefresh ==
    /\ gui = "checkRefresh"
    /\ IF subscribed THEN Continue("claimRefresh") ELSE BackToLoop
    /\ UNCHANGED <<flags, watched, items, queue, history>>

ClaimRefresh ==
    /\ gui = "claimRefresh"
    /\ refreshPending' = TRUE
    /\ queue' = IF refreshPending THEN queue ELSE Append(queue, "refresh")
    /\ BackToLoop
    /\ UNCHANGED <<subscribed, eventPending, watched, items, history>>

-----------------------------------------------------------------------------
(* The GUI thread runs the next queued lambda.                             *)

FirstStep == [event |-> "eventCheck", refresh |-> "refreshCheck",
              subscribe |-> "subscribe", unsubscribe |-> "unsubscribe"]

(* Mutant: the pending flag is cleared after the early return for a        *)
(* connection that is not subscribed.                                      *)
RunQueuedClearingLate ==
    /\ gui = "loop"
    /\ queue # <<>>
    /\ queue' = Tail(queue)
    /\ gui' = FirstStep[Head(queue)]
    /\ running' = IF Head(queue) \in Requests THEN Head(queue) ELSE "none"
    /\ eventPending' = (eventPending /\ (subscribed => Head(queue) # "event"))
    /\ refreshPending' = (refreshPending /\ (subscribed => Head(queue) # "refresh"))
    /\ UNCHANGED <<subscribed, watched, items, children, dbg, history>>

RunQueued ==
    /\ gui = "loop"
    /\ queue # <<>>
    /\ queue' = Tail(queue)
    /\ gui' = FirstStep[Head(queue)]
    /\ running' = IF Head(queue) \in Requests THEN Head(queue) ELSE "none"
    /\ eventPending' = (eventPending /\ Head(queue) # "event")
    /\ refreshPending' = (refreshPending /\ Head(queue) # "refresh")
    /\ UNCHANGED <<subscribed, watched, items, children, dbg, history>>

(* Mutant: the queued event does not ask whether the client still listens. *)
EventUnchecked ==
    /\ gui = "eventCheck"
    /\ gui' = "send"
    /\ UNCHANGED <<flags, watched, items, queue, children, running, dbg, history>>

EventCheck ==
    /\ gui = "eventCheck"
    /\ gui' = IF subscribed THEN "send" ELSE "loop"
    /\ UNCHANGED <<flags, watched, items, queue, children, running, dbg, history>>

SendEvent ==
    /\ gui = "send"
    /\ gui' = "loop"
    /\ unreported' = FALSE
    /\ UNCHANGED <<flags, watched, items, queue, children, running, dbg,
                   quiet, wasReset, missed, overtaken>>

RefreshCheck ==
    /\ gui = "refreshCheck"
    /\ gui' = IF subscribed THEN "clear" ELSE "loop"
    /\ UNCHANGED <<flags, watched, items, queue, children, running, dbg, history>>

SubscribeUi ==
    /\ gui = "subscribe"
    /\ subscribed' = TRUE
    /\ quiet' = FALSE
    /\ gui' = "clear"
    /\ UNCHANGED <<eventPending, refreshPending, watched, items, queue, children, running,
                   dbg, unreported, wasReset, missed, overtaken>>

UnsubscribeUi ==
    /\ gui = "unsubscribe"
    /\ subscribed' = FALSE
    /\ eventPending' = FALSE
    /\ refreshPending' = FALSE
    /\ unreported' = FALSE
    /\ quiet' = TRUE
    /\ gui' = "clearOnly"
    /\ UNCHANGED <<watched, items, queue, children, running, dbg, wasReset, missed, overtaken>>

(* m_uiConnections is a plain list. When one thread changes it while the   *)
(* other one walks it, any part of the connections may be left.            *)
Rewrites(racing, after) ==
    IF racing THEN watched' \in SUBSET items ELSE watched' = after

(* clearUiWatchers, as all of unsubscribeUi's work on the list ...         *)
ClearOnly ==
    /\ gui = "clearOnly"
    /\ Rewrites(dbg = "clear", {})
    /\ BackToLoop
    /\ UNCHANGED <<flags, items, queue, history>>

(* ... and as the beginning of installUiWatchers.                          *)
ClearToInstall ==
    /\ gui = "clear"
    /\ Rewrites(dbg = "clear", {})
    /\ gui' = "connect"
    /\ UNCHANGED <<flags, items, queue, children, running, dbg, history>>

(* What a walk of the windows that exist reaches.                          *)
Reached == {i \in items : Depth(i) <= MaxUiWatcherDepth}

(* The windows are walked and what is reached is connected; what is too    *)
(* deep is reported as a change.                                           *)
ConnectAll ==
    /\ gui = "connect"
    /\ Rewrites(dbg = "clear", Reached)
    /\ missed' = {}
    /\ IF Reached = items THEN BackToLoop ELSE Continue("checkEvent")
    /\ UNCHANGED <<flags, items, queue, unreported, quiet, wasReset, overtaken>>

-----------------------------------------------------------------------------
(* The debug thread.                                                       *)

PostRequest(request) ==
    /\ dbg = "idle"
    /\ running = "none"
    /\ queue' = Append(queue, request)
    /\ dbg' = "waiting"
    /\ wasReset' = (wasReset /\ request # "subscribe")
    /\ UNCHANGED <<flags, watched, items, gui, children, running, unreported, quiet, missed,
                   overtaken>>

CancelRequest ==
    /\ dbg = "waiting"
    /\ running = "none"
    /\ \E i \in DOMAIN queue : queue[i] \in Requests /\ queue' = RemoveAt(queue, i)
    /\ dbg' = "idle"
    /\ UNCHANGED <<flags, watched, items, gui, children, running, history>>

AbandonRequest ==
    /\ dbg = "waiting"
    /\ running # "none"
    /\ dbg' = "idle"
    /\ UNCHANGED <<flags, watched, items, queue, gui, children, running, history>>

(* resetSessionState, one shared access after the other.                   *)
ResetSubscribed ==
    /\ dbg = "idle"
    /\ subscribed' = FALSE
    /\ dbg' = "resetEvent"
    /\ unreported' = FALSE
    /\ overtaken' = (overtaken \/ running # "none")
    /\ UNCHANGED <<eventPending, refreshPending, watched, items, queue, gui, children,
                   running, quiet, wasReset, missed>>

ResetEventPending ==
    /\ dbg = "resetEvent"
    /\ eventPending' = FALSE
    /\ dbg' = "resetRefresh"
    /\ UNCHANGED <<subscribed, refreshPending, watched, items, queue, gui, children,
                   running, history>>

ResetRefreshPending ==
    /\ dbg = "resetRefresh"
    /\ refreshPending' = FALSE
    /\ dbg' = "clear"
    /\ UNCHANGED <<subscribed, eventPending, watched, items, queue, gui, children,
                   running, history>>

ResetWatchers ==
    /\ dbg = "clear"
    /\ Rewrites(gui \in {"clearOnly", "clear", "connect"}, {})
    /\ dbg' = "announce"
    /\ UNCHANGED <<flags, items, queue, gui, children, running, history>>

(* The Session.reset event, with subscriptionsInvalidated.                 *)
AnnounceReset ==
    /\ dbg = "announce"
    /\ wasReset' = TRUE
    /\ dbg' = "idle"
    /\ UNCHANGED <<flags, watched, items, queue, gui, children, running, unreported,
                   quiet, missed, overtaken>>

-----------------------------------------------------------------------------
Application ==
    ItemChanges \/ ChildAdded \/ ChildRemoved \/ WindowCreated \/ WindowDestroyed

GuiStep ==
    \/ CheckEvent   \/ ClaimEvent
    \/ CheckRefresh \/ ClaimRefresh
    \/ EventCheck   \/ SendEvent    \/ RefreshCheck
    \/ SubscribeUi  \/ UnsubscribeUi
    \/ ClearOnly    \/ ClearToInstall \/ ConnectAll

ResetStep == ResetEventPending \/ ResetRefreshPending \/ ResetWatchers \/ AnnounceReset

DebugStep ==
    \/ \E request \in Requests : PostRequest(request)
    \/ CancelRequest
    \/ AbandonRequest
    \/ ResetSubscribed
    \/ ResetStep

Next == Application \/ RunQueued \/ GuiStep \/ DebugStep

(* A handler that has begun runs to its end, and the event loop takes the  *)
(* queued lambdas in their order, however many changes come in between.    *)
(* The client need not send anything.                                      *)
Fairness == WF_vars(GuiStep) /\ SF_vars(RunQueued) /\ WF_vars(ResetStep)

Spec == Init /\ [][Next]_vars /\ Fairness

-----------------------------------------------------------------------------
(* The variables have their types; handlers run only while their lambda is *)
(* on the GUI stack.                                                       *)
TypeOK ==
    /\ {subscribed, eventPending, refreshPending, children} \subseteq BOOLEAN
    /\ {unreported, quiet, wasReset, overtaken} \subseteq BOOLEAN
    /\ watched \subseteq Items
    /\ items \subseteq Items
    /\ missed \subseteq Items
    /\ queue \in Seq(Lambdas)
    /\ gui \in GuiSteps
    /\ running \in Requests \cup {"none"}
    /\ dbg \in DbgSteps
    /\ children \/ running # "none" => gui # "loop"

Queued(lambda) == Contains(queue, lambda)

(* Once UI.unsubscribe has run, an event queued earlier is not sent.       *)
SilentAfterUnsubscribe == gui = "send" => ~quiet

(* With both threads at rest and no refresh outstanding, a subscription    *)
(* watches exactly the objects that a walk can reach, the ones created     *)
(* since included - but not the windows created since, nor what is in      *)
(* them, of which nothing tells the service; and unless a reset has        *)
(* overtaken an abandoned request.                                         *)
WatchesReachableScene ==
    gui = "loop" /\ dbg \in {"idle", "waiting"} /\ subscribed /\ ~Queued("refresh") /\ ~overtaken
        => watched = {i \in Reached : Content(i) \notin missed}

(* A change seen by a subscription is reported while the subscription      *)
(* lasts: coalescing may merge reports, it never loses the last one.       *)
ChangesAreReported == unreported ~> ~unreported

(* protocol.md:71 says that Session.reset "Clears UI subscription +        *)
(* watchers": until the next UI.subscribe there are none. (A request that  *)
(* was abandoned before the reset may end after it; that case is left out.)*)
ResetClearsSubscription ==
    wasReset /\ gui = "loop" /\ dbg = "idle" /\ ~overtaken => ~subscribed /\ watched = {}

=============================================================================
