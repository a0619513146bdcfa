---------------------------- MODULE GuiDispatch ----------------------------
(***************************************************************************)
(* runOnGuiThreadBlocking of qqmlagentservice.cpp and the two threads that *)
(* meet in it. The debug thread takes one message at a time, posts the     *)
(* request's lambda to the application object and blocks on a semaphore    *)
(* for a budget and then for a grace window. The GUI thread runs posted    *)
(* lambdas from its event loop, and also from the nested event loops that  *)
(* operations pump while they execute. A compare-and-swap on the call's    *)
(* phase decides who owns a request whose budget has run out.              *)
(*                                                                         *)
(* Time is abstract: a wait that finds the semaphore at 0 may expire at    *)
(* any moment, so every relation of budget, grace and handler duration is  *)
(* covered. A lambda's body is an operation that starts and returns.       *)
(***************************************************************************)
EXTENDS Naturals, Sequences

CONSTANTS Requests,   \* messages of the methods that need the GUI thread
          Mutating,   \* those of Runtime.setProperty and Runtime.invokeMethod
          NoRequest

ASSUME RequestsAssumption == NoRequest \notin Requests
ASSUME MutatingAssumption == Mutating \subseteq Requests

VARIABLES
    \* The debug thread.
    pc,              \* where it is in runOnGuiThreadBlocking
    current,         \* the request it is waiting for, or NoRequest
    abandoned,       \* s_abandonedGuiCall, or NoRequest
    mutationEnabled, \* m_runtimeMutationEnabled
    outcome,         \* what the client was told about each request
    \* Each request's GuiCallState, shared by both threads.
    phase,           \* Queued, Started or Cancelled
    hasResult,       \* the lambda has assigned state->result
    completed,
    done,            \* the semaphore's count
    \* The GUI thread.
    appAlive,        \* QCoreApplication::instance() is not null
    posted,          \* the application object's event queue
    frames           \* the lambdas on the GUI thread's stack, outermost first

debugVars  == <<pc, current, abandoned, mutationEnabled, outcome>>
stateVars  == <<phase, hasResult, completed, done>>
guiVars    == <<appAlive, posted, frames>>
vars       == <<debugVars, stateVars, guiVars>>

Phases   == {"Queued", "Started", "Cancelled"}
Outcomes == {"none", "result", "empty", "not_executed", "unknown", "busy", "disabled"}

Init ==
    /\ pc = "idle"
    /\ current = NoRequest
    /\ abandoned = NoRequest
    /\ mutationEnabled = FALSE
    /\ outcome   = [r \in Requests |-> "none"]
    /\ phase     = [r \in Requests |-> "Queued"]
    /\ hasResult = [r \in Requests |-> FALSE]
    /\ completed = [r \in Requests |-> FALSE]
    /\ done      = [r \in Requests |-> 0]
    /\ appAlive = TRUE
    /\ posted = <<>>
    /\ frames = <<>>

-----------------------------------------------------------------------------
(* The debug thread, between two messages.                                 *)

(* Session.configure, answered without the GUI thread.                     *)
Configure(enabled) ==
    /\ pc = "idle"
    /\ mutationEnabled' = enabled
    /\ UNCHANGED <<pc, current, abandoned, outcome, stateVars, guiVars>>

(* Session.reset and a service that leaves the Enabled state. An abandoned *)
(* call stays on record: it belongs to the process, not to the session.    *)
ResetSession ==
    /\ pc = "idle"
    /\ mutationEnabled' = FALSE
    /\ UNCHANGED <<pc, current, abandoned, outcome, stateVars, guiVars>>

(* r is the next message: not yet seen, and let through by the runtime     *)
(* mutation gate of dispatch().                                            *)
Arrives(r) ==
    /\ pc = "idle"
    /\ outcome[r] = "none"

PassesGate(r) == r \in Mutating => mutationEnabled

RefuseMutation(r) ==
    /\ Arrives(r)
    /\ ~PassesGate(r)
    /\ outcome' = [outcome EXCEPT ![r] = "disabled"]
    /\ UNCHANGED <<pc, current, abandoned, mutationEnabled, stateVars, guiVars>>

(* Before the application exists and after it is gone, fn() runs here.     *)
RunInCaller(r) ==
    /\ Arrives(r)
    /\ PassesGate(r)
    /\ ~appAlive
    /\ phase'     = [phase     EXCEPT ![r] = "Started"]
    /\ hasResult' = [hasResult EXCEPT ![r] = TRUE]
    /\ completed' = [completed EXCEPT ![r] = TRUE]
    /\ outcome'   = [outcome   EXCEPT ![r] = "result"]
    /\ UNCHANGED <<pc, current, abandoned, mutationEnabled, done, guiVars>>

(* Mutant: the busy guard is forgotten.                                    *)
NeverStillExecuting == FALSE

StillExecuting == abandoned # NoRequest /\ ~completed[abandoned]

RefuseBusy(r) ==
    /\ Arrives(r)
    /\ PassesGate(r)
    /\ appAlive
    /\ StillExecuting
    /\ outcome' = [outcome EXCEPT ![r] = "busy"]
    /\ UNCHANGED <<pc, current, abandoned, mutationEnabled, stateVars, guiVars>>

Post(r) ==
    /\ Arrives(r)
    /\ PassesGate(r)
    /\ appAlive
    /\ ~StillExecuting
    /\ abandoned' = NoRequest
    /\ posted' = Append(posted, r)
    /\ current' = r
    /\ pc' = "budget"
    /\ UNCHANGED <<mutationEnabled, outcome, stateVars, appAlive, frames>>

(* QMetaObject::invokeMethod reports that it could not post.               *)
PostFails(r) ==
    /\ Arrives(r)
    /\ PassesGate(r)
    /\ appAlive
    /\ ~StillExecuting
    /\ abandoned' = NoRequest
    /\ outcome' = [outcome EXCEPT ![r] = "not_executed"]
    /\ UNCHANGED <<pc, current, mutationEnabled, stateVars, guiVars>>

-----------------------------------------------------------------------------
(* The debug thread, blocked on the call it has posted.                    *)

(* The debug thread leaves runOnGuiThreadBlocking and the reply is sent.   *)
Return(what) ==
    /\ outcome' = [outcome EXCEPT ![current] = what]
    /\ current' = NoRequest
    /\ pc' = "idle"

(* tryAcquire succeeds, within the budget or within the grace window.      *)
Acquire ==
    /\ pc \in {"budget", "grace"}
    /\ done[current] > 0
    /\ done' = [done EXCEPT ![current] = @ - 1]
    /\ Return(IF hasResult[current] THEN "result" ELSE "empty")
    /\ UNCHANGED <<abandoned, mutationEnabled, phase, hasResult, completed, guiVars>>

BudgetExpires ==
    /\ pc = "budget"
    /\ done[current] = 0
    /\ pc' = "expired"
    /\ UNCHANGED <<current, abandoned, mutationEnabled, outcome, stateVars, guiVars>>

(* Mutant: the phase is compared, not swapped.                             *)
CancelByLoad ==
    /\ pc = "expired"
    /\ phase[current] = "Queued"
    /\ Return("not_executed")
    /\ UNCHANGED <<abandoned, mutationEnabled, stateVars, guiVars>>

(* The compare-and-swap Queued -> Cancelled, won and lost.                 *)
CancelQueued ==
    /\ pc = "expired"
    /\ phase[current] = "Queued"
    /\ phase' = [phase EXCEPT ![current] = "Cancelled"]
    /\ Return("not_executed")
    /\ UNCHANGED <<abandoned, mutationEnabled, hasResult, completed, done, guiVars>>

FindStarted ==
    /\ pc = "expired"
    /\ phase[current] # "Queued"
    /\ pc' = "grace"
    /\ UNCHANGED <<current, abandoned, mutationEnabled, outcome, stateVars, guiVars>>

(* Mutant: the second wait has no timeout.                                 *)
GraceNeverExpires == FALSE

(* Mutant: the call that is given up is not recorded.                      *)
GraceExpiresUnrecorded ==
    /\ pc = "grace"
    /\ done[current] = 0
    /\ Return("unknown")
    /\ UNCHANGED <<abandoned, mutationEnabled, stateVars, guiVars>>

GraceExpires ==
    /\ pc = "grace"
    /\ done[current] = 0
    /\ abandoned' = current
    /\ Return("unknown")
    /\ UNCHANGED <<mutationEnabled, stateVars, guiVars>>

-----------------------------------------------------------------------------
(* The GUI thread.                                                         *)

Top == frames[Len(frames)]

(* Posted lambdas run from the application's event loop, or from the       *)
(* nested loop of the operation on top of the stack; the rest of a lambda  *)
(* is straight-line code.                                                  *)
PumpsEvents ==
    /\ appAlive
    /\ posted # <<>>
    /\ frames # <<>> => ~hasResult[Top]

ClaimPosted ==
    /\ PumpsEvents
    /\ phase[Head(posted)] = "Queued"
    /\ phase' = [phase EXCEPT ![Head(posted)] = "Started"]
    /\ frames' = Append(frames, Head(posted))
    /\ posted' = Tail(posted)
    /\ UNCHANGED <<debugVars, hasResult, completed, done, appAlive>>

SkipCancelled ==
    /\ PumpsEvents
    /\ phase[Head(posted)] # "Queued"
    /\ done' = [done EXCEPT ![Head(posted)] = @ + 1]
    /\ posted' = Tail(posted)
    /\ UNCHANGED <<debugVars, phase, hasResult, completed, appAlive, frames>>

FnReturns ==
    /\ frames # <<>>
    /\ ~hasResult[Top]
    /\ hasResult' = [hasResult EXCEPT ![Top] = TRUE]
    /\ UNCHANGED <<debugVars, phase, completed, done, guiVars>>

StoreCompleted ==
    /\ frames # <<>>
    /\ hasResult[Top]
    /\ ~completed[Top]
    /\ completed' = [completed EXCEPT ![Top] = TRUE]
    /\ UNCHANGED <<debugVars, phase, hasResult, done, guiVars>>

(* Mutant: the semaphore is released on two paths out of the lambda.       *)
ReleaseDoneTwice ==
    /\ frames # <<>>
    /\ completed[Top]
    /\ done' = [done EXCEPT ![Top] = @ + 2]
    /\ frames' = SubSeq(frames, 1, Len(frames) - 1)
    /\ UNCHANGED <<debugVars, phase, hasResult, completed, appAlive, posted>>

ReleaseDone ==
    /\ frames # <<>>
    /\ completed[Top]
    /\ done' = [done EXCEPT ![Top] = @ + 1]
    /\ frames' = SubSeq(frames, 1, Len(frames) - 1)
    /\ UNCHANGED <<debugVars, phase, hasResult, completed, appAlive, posted>>

(* The application object is destroyed with the events posted to it, after *)
(* its event loops have returned.                                          *)
AppDestroyed ==
    /\ appAlive
    /\ frames = <<>>
    /\ appAlive' = FALSE
    /\ posted' = <<>>
    /\ UNCHANGED <<debugVars, stateVars, frames>>

-----------------------------------------------------------------------------
DebugReceives ==
    \/ \E enabled \in BOOLEAN : Configure(enabled)
    \/ ResetSession
    \/ \E r \in Requests :
        \/ RefuseMutation(r)
        \/ RunInCaller(r)
        \/ RefuseBusy(r)
        \/ Post(r)
        \/ PostFails(r)

DebugWaits ==
    \/ Acquire
    \/ BudgetExpires
    \/ CancelQueued
    \/ FindStarted
    \/ GraceExpires

Gui ==
    \/ ClaimPosted
    \/ SkipCancelled
    \/ FnReturns
    \/ StoreCompleted
    \/ ReleaseDone
    \/ AppDestroyed

Next == DebugReceives \/ DebugWaits \/ Gui

(* Every wait of the debug thread has a timeout, so the thread moves on by *)
(* itself. Nothing is assumed of the GUI thread: it may hang for ever in   *)
(* application code.                                                       *)
Fairness == WF_vars(DebugWaits)

Spec == Init /\ [][Next]_vars /\ Fairness

-----------------------------------------------------------------------------
(* The variables have their types; a semaphore is released at most once.   *)
TypeOK ==
    /\ pc \in {"idle", "budget", "expired", "grace"}
    /\ current \in Requests \cup {NoRequest}
    /\ abandoned \in Requests \cup {NoRequest}
    /\ mutationEnabled \in BOOLEAN
    /\ outcome \in [Requests -> Outcomes]
    /\ phase \in [Requests -> Phases]
    /\ hasResult \in [Requests -> BOOLEAN]
    /\ completed \in [Requests -> BOOLEAN]
    /\ done \in [Requests -> 0..1]
    /\ appAlive \in BOOLEAN
    /\ posted \in Seq(Requests)
    /\ frames \in Seq(Requests)

(* The operation of r is inside fn(), or its end is not yet published.     *)
Executing(r) == phase[r] = "Started" /\ ~completed[r]

(* "One GUI-thread request runs at a time": although operations pump       *)
(* nested event loops, no operation starts before the previous one has     *)
(* finished, also when the client was answered "unknown" and went on.      *)
OneOperationAtATime ==
    \A r, s \in Requests : Executing(r) /\ Executing(s) => r = s

(* A cancelled or refused request "provably never ran"; "unknown" is only  *)
(* said of a request that did start; a result is only returned once the    *)
(* operation has finished, and it is the operation's own.                  *)
AnswersAreTrue ==
    \A r \in Requests :
        /\ outcome[r] \in {"not_executed", "busy", "disabled"} => phase[r] # "Started"
        /\ outcome[r] = "unknown" => phase[r] = "Started"
        /\ outcome[r] = "result" => phase[r] = "Started" /\ completed[r]
        /\ outcome[r] # "empty"

(* The mutation gate is read before the request is queued and used when it *)
(* runs; it cannot be closed in between, whatever resets the session.      *)
MutationsStartEnabled ==
    [][\A r \in Mutating :
          phase[r] # "Started" /\ phase'[r] = "Started" => mutationEnabled]_vars

(* The debug thread never waits for ever: every request it has posted is   *)
(* answered even if the GUI thread hangs.                                  *)
EveryRequestAnswered ==
    \A r \in Requests : current = r ~> outcome[r] # "none"

(* The two threads together keep the promise of CallOutcome.               *)
EffectOf == [r \in Requests |->
                IF phase[r] # "Started" THEN "none"
                ELSE IF completed[r] THEN "done" ELSE "running"]

Promise == INSTANCE CallOutcome WITH effect  <- EffectOf,
                                     verdict <- outcome,
                                     asked   <- current

ImplementsPromise == Promise!Spec

=============================================================================
