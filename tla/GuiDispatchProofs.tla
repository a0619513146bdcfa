------------------------- MODULE GuiDispatchProofs -------------------------
(***************************************************************************)
(* Proofs about GuiDispatch for every set of requests. The inductive       *)
(* invariant says where a call can be in its life: who may still run is    *)
(* the call the debug thread waits for or the one it has abandoned, never  *)
(* both, and an event left in the queue is either that call or a cancelled *)
(* one.                                                                    *)
(***************************************************************************)
EXTENDS GuiDispatch, TLAPS

(* The debug thread's own variables agree with each other.                 *)
DebugInv ==
    /\ pc = "idle" <=> current = NoRequest
    /\ pc # "idle" => abandoned = NoRequest
    /\ current # NoRequest => outcome[current] = "none"
    /\ current \in Mutating => mutationEnabled
    /\ abandoned # NoRequest => outcome[abandoned] = "unknown"
    /\ pc = "grace" => phase[current] = "Started"

(* What a call's shared state says about the answer given, and back.       *)
CallInv ==
    \A r \in Requests :
        /\ Executing(r) => r \in {current, abandoned}
        /\ phase[r] = "Started" => r = current \/ outcome[r] \in {"result", "unknown"}
        /\ phase[r] = "Cancelled" => outcome[r] = "not_executed"
        /\ hasResult[r] => phase[r] = "Started"
        /\ completed[r] => hasResult[r]
        /\ done[r] = 1 => phase[r] = "Cancelled" \/ completed[r]

(* The event queue holds distinct calls that have not run.                 *)
QueueInv ==
    /\ \A i \in 1..Len(posted) :
          /\ phase[posted[i]] \in {"Queued", "Cancelled"}
          /\ phase[posted[i]] = "Queued" => posted[i] = current
          /\ done[posted[i]] = 0
    /\ \A i, j \in 1..Len(posted) : posted[i] = posted[j] => i = j

(* Nested event loops notwithstanding, the stack holds one lambda at most. *)
StackInv ==
    /\ Len(frames) <= 1
    /\ \A i \in 1..Len(frames) :
          /\ phase[frames[i]] = "Started"
          /\ done[frames[i]] = 0
    /\ \A r \in Requests : Executing(r) => Len(frames) = 1 /\ frames[1] = r
    /\ ~appAlive => Len(frames) = 0

IInv ==
    /\ TypeOK
    /\ DebugInv
    /\ CallInv
    /\ QueueInv
    /\ StackInv
    /\ AnswersAreTrue

-----------------------------------------------------------------------------
(* The invariant holds before the first message arrives.                   *)
LEMMA InitIInv == Init => IInv
<1> SUFFICES ASSUME Init PROVE IInv
  OBVIOUS
<1> USE RequestsAssumption DEF Init
<1>1. posted \in Seq(Requests) /\ frames \in Seq(Requests) /\ Len(posted) = 0 /\ Len(frames) = 0
  OBVIOUS
<1>2. TypeOK
  <2>1. hasResult \in [Requests -> BOOLEAN] /\ completed \in [Requests -> BOOLEAN]
    BY Zenon
  <2>2. mutationEnabled \in BOOLEAN /\ appAlive \in BOOLEAN
    BY Zenon
  <2> QED
    BY <2>2 DEF TypeOK, Phases, Outcomes
<1>3. DebugInv
  BY MutatingAssumption DEF DebugInv
<1>5. CallInv /\ AnswersAreTrue
  <2>1. \A r \in Requests : ~hasResult[r] /\ ~completed[r]
    BY Zenon
  <2> QED
    BY DEF CallInv, AnswersAreTrue, Executing
<1>4. QueueInv /\ StackInv
  BY DEF QueueInv, StackInv, Executing
<1> QED
  BY <1>2, <1>3, <1>4, <1>5 DEF IInv

(* Every step of either thread preserves it.                               *)
LEMMA NextIInv == IInv /\ [Next]_vars => IInv'
<1> SUFFICES ASSUME IInv, [Next]_vars PROVE IInv'
  OBVIOUS
<1> USE RequestsAssumption, MutatingAssumption DEF IInv

<1>1. ASSUME NEW enabled \in BOOLEAN, Configure(enabled) PROVE IInv'
  BY <1>1
     DEF Configure, stateVars, guiVars, TypeOK, DebugInv, CallInv, QueueInv,
         StackInv, AnswersAreTrue, Executing
<1>2. CASE ResetSession
  <2> USE <1>2 DEF ResetSession, stateVars, guiVars
  <2>1. TypeOK'
    BY DEF TypeOK
  <2>2. DebugInv'
    BY DEF DebugInv
  <2>3. CallInv'
    BY DEF CallInv, Executing
  <2>4. QueueInv'
    BY DEF QueueInv
  <2>5. StackInv'
    BY DEF StackInv, Executing
  <2>6. AnswersAreTrue'
    BY DEF AnswersAreTrue
  <2> QED
    BY <2>1, <2>2, <2>3, <2>4, <2>5, <2>6
<1>3. ASSUME NEW r \in Requests, RefuseMutation(r) PROVE IInv'
  BY <1>3
     DEF RefuseMutation, Arrives, Outcomes, stateVars, guiVars, TypeOK,
         DebugInv, CallInv, QueueInv, StackInv, AnswersAreTrue, Executing
<1>4. ASSUME NEW r \in Requests, RunInCaller(r) PROVE IInv'
  <2> USE <1>4 DEF RunInCaller, Arrives, Outcomes, Phases, stateVars, guiVars
  <2>1. TypeOK'
    BY DEF TypeOK
  <2>2. DebugInv'
    BY DEF DebugInv
  <2>3. CallInv'
    BY DEF TypeOK, CallInv, Executing
  <2>4. QueueInv'
    BY DEF DebugInv, CallInv, QueueInv
  <2>5. StackInv'
    BY DEF TypeOK, StackInv, Executing
  <2>6. AnswersAreTrue'
    BY DEF TypeOK, AnswersAreTrue
  <2> QED
    BY <2>1, <2>2, <2>3, <2>4, <2>5, <2>6
<1>5. ASSUME NEW r \in Requests, RefuseBusy(r) PROVE IInv'
  BY <1>5
     DEF RefuseBusy, Arrives, Outcomes, stateVars, guiVars, TypeOK, DebugInv,
         CallInv, QueueInv, StackInv, AnswersAreTrue, Executing
<1>6. ASSUME NEW r \in Requests, Post(r) PROVE IInv'
  <2> USE <1>6 DEF Post, Arrives, PassesGate, StillExecuting, stateVars, guiVars
  <2>1. TypeOK'
    BY DEF TypeOK
  <2>2. DebugInv'
    BY DEF DebugInv
  <2>3. CallInv'
    BY DEF DebugInv, CallInv, Executing
  <2>4. QueueInv'
    <3>1. r # current /\ phase[r] = "Queued" /\ done[r] = 0
      BY DEF TypeOK, DebugInv, CallInv, Phases
    <3>2. \A i \in 1..Len(posted) : posted[i] # r /\ phase[posted[i]] = "Cancelled"
      BY DEF TypeOK, DebugInv, CallInv, QueueInv
    <3>3. /\ Len(posted') = Len(posted) + 1 /\ Len(posted) \in Nat
          /\ \A i \in 1..Len(posted) : posted'[i] = posted[i]
          /\ posted'[Len(posted) + 1] = r
      BY DEF TypeOK
    <3> QED
      BY <3>1, <3>2 DEF QueueInv
  <2>5. StackInv'
    BY DEF StackInv, Executing
  <2>6. AnswersAreTrue'
    BY DEF AnswersAreTrue
  <2> QED
    BY <2>1, <2>2, <2>3, <2>4, <2>5, <2>6
<1>7. ASSUME NEW r \in Requests, PostFails(r) PROVE IInv'
  BY <1>7
     DEF PostFails, Arrives, StillExecuting, Outcomes, stateVars, guiVars,
         TypeOK, DebugInv, CallInv, QueueInv, StackInv, AnswersAreTrue,
         Executing
<1>8. CASE Acquire
  <2> USE <1>8 DEF Acquire, Return, Outcomes, stateVars, guiVars
  <2>1. TypeOK'
    BY DEF TypeOK, DebugInv
  <2>2. DebugInv'
    BY DEF DebugInv
  <2>3. CallInv'
    BY DEF TypeOK, DebugInv, CallInv, Executing
  <2>4. QueueInv'
    BY DEF QueueInv
  <2>5. StackInv'
    BY DEF StackInv, Executing
  <2>6. AnswersAreTrue'
    BY DEF TypeOK, DebugInv, CallInv, AnswersAreTrue
  <2> QED
    BY <2>1, <2>2, <2>3, <2>4, <2>5, <2>6
<1>9. CASE BudgetExpires
  BY <1>9
     DEF BudgetExpires, stateVars, guiVars, TypeOK, DebugInv, CallInv, QueueInv,
         StackInv, AnswersAreTrue, Executing
<1>10. CASE CancelQueued
  <2> USE <1>10 DEF CancelQueued, Return, Outcomes, Phases, stateVars, guiVars
  <2>1. TypeOK'
    BY DEF TypeOK
  <2>2. DebugInv'
    BY DEF DebugInv
  <2>3. CallInv'
    BY DEF TypeOK, CallInv, Executing
  <2>4. QueueInv'
    BY DEF TypeOK, QueueInv
  <2>5. StackInv'
    BY DEF StackInv, Executing
  <2>6. AnswersAreTrue'
    BY DEF AnswersAreTrue
  <2> QED
    BY <2>1, <2>2, <2>3, <2>4, <2>5, <2>6
<1>11. CASE FindStarted
  BY <1>11
     DEF FindStarted, Phases, stateVars, guiVars, TypeOK, DebugInv, CallInv,
         QueueInv, StackInv, AnswersAreTrue, Executing
<1>12. CASE GraceExpires
  <2> USE <1>12 DEF GraceExpires, Return, Outcomes, stateVars, guiVars
  <2>1. TypeOK'
    BY DEF TypeOK
  <2>2. DebugInv'
    BY DEF TypeOK, DebugInv
  <2>3. CallInv'
    BY DEF TypeOK, DebugInv, CallInv, Executing
  <2>4. QueueInv'
    BY DEF DebugInv, QueueInv
  <2>5. StackInv'
    BY DEF StackInv, Executing
  <2>6. AnswersAreTrue'
    BY DEF DebugInv, AnswersAreTrue
  <2> QED
    BY <2>1, <2>2, <2>3, <2>4, <2>5, <2>6
<1>13. CASE ClaimPosted
  <2> USE <1>13 DEF ClaimPosted, PumpsEvents, Top, Phases, debugVars, stateVars, guiVars
  <2>1. TypeOK'
    BY DEF TypeOK
  <2>2. DebugInv'
    BY DEF DebugInv
  <2>3. CallInv'
    BY DEF CallInv, QueueInv, Executing
  <2>4. QueueInv'
    BY DEF QueueInv
  <2>5. StackInv'
    BY DEF TypeOK, DebugInv, CallInv, QueueInv, StackInv, AnswersAreTrue,
           Executing
  <2>6. AnswersAreTrue'
    BY DEF DebugInv, QueueInv, AnswersAreTrue
  <2> QED
    BY <2>1, <2>2, <2>3, <2>4, <2>5, <2>6
<1>14. CASE SkipCancelled
  <2> USE <1>14 DEF SkipCancelled, PumpsEvents, debugVars, stateVars, guiVars
  <2>1. TypeOK'
    BY DEF TypeOK, QueueInv
  <2>2. DebugInv'
    BY DEF DebugInv
  <2>3. CallInv'
    BY DEF CallInv, QueueInv, Executing
  <2>4. QueueInv'
    BY DEF QueueInv
  <2>5. StackInv'
    BY DEF QueueInv, StackInv, Executing
  <2>6. AnswersAreTrue'
    BY DEF AnswersAreTrue
  <2> QED
    BY <2>1, <2>2, <2>3, <2>4, <2>5, <2>6
<1>15. CASE FnReturns
  <2> USE <1>15 DEF FnReturns, Top, debugVars, stateVars, guiVars
  <2>1. TypeOK'
    BY DEF TypeOK
  <2>2. DebugInv'
    BY DEF DebugInv
  <2>3. CallInv'
    BY DEF CallInv, StackInv, Executing
  <2>4. QueueInv'
    BY DEF QueueInv
  <2>5. StackInv'
    BY DEF StackInv, Executing
  <2>6. AnswersAreTrue'
    BY DEF AnswersAreTrue
  <2> QED
    BY <2>1, <2>2, <2>3, <2>4, <2>5, <2>6
<1>16. CASE StoreCompleted
  <2> USE <1>16 DEF StoreCompleted, Top, debugVars, stateVars, guiVars
  <2>1. TypeOK'
    BY DEF TypeOK
  <2>2. DebugInv'
    BY DEF DebugInv
  <2>3. CallInv'
    BY DEF CallInv, Executing
  <2>4. QueueInv'
    BY DEF QueueInv
  <2>5. StackInv'
    BY DEF StackInv, Executing
  <2>6. AnswersAreTrue'
    BY DEF AnswersAreTrue
  <2> QED
    BY <2>1, <2>2, <2>3, <2>4, <2>5, <2>6
<1>17. CASE ReleaseDone
  <2> USE <1>17 DEF ReleaseDone, Top, debugVars, stateVars, guiVars
  <2>1. TypeOK'
    BY DEF TypeOK, StackInv
  <2>2. DebugInv'
    BY DEF DebugInv
  <2>3. CallInv'
    BY DEF CallInv, Executing
  <2>4. QueueInv'
    BY DEF QueueInv, StackInv
  <2>5. StackInv'
    BY DEF StackInv, Executing
  <2>6. AnswersAreTrue'
    BY DEF AnswersAreTrue
  <2> QED
    BY <2>1, <2>2, <2>3, <2>4, <2>5, <2>6
<1>18. CASE AppDestroyed
  <2> USE <1>18 DEF AppDestroyed, debugVars, stateVars, guiVars
  <2>1. TypeOK'
    BY DEF TypeOK
  <2>2. DebugInv'
    BY DEF DebugInv
  <2>3. CallInv'
    BY DEF CallInv, Executing
  <2>4. QueueInv'
    BY DEF QueueInv
  <2>5. StackInv'
    BY DEF StackInv, Executing
  <2>6. AnswersAreTrue'
    BY DEF AnswersAreTrue
  <2> QED
    BY <2>1, <2>2, <2>3, <2>4, <2>5, <2>6
<1>19. CASE UNCHANGED vars
  BY <1>19
     DEF vars, debugVars, stateVars, guiVars, TypeOK, DebugInv, CallInv,
         QueueInv, StackInv, AnswersAreTrue, Executing
<1> QED
  BY <1>1, <1>2, <1>3, <1>4, <1>5, <1>6, <1>7, <1>8, <1>9,
     <1>10, <1>11, <1>12, <1>13, <1>14, <1>15, <1>16, <1>17, <1>18, <1>19
     DEF Next, DebugReceives, DebugWaits, Gui

-----------------------------------------------------------------------------
(* The invariant holds in every state of every behaviour.                  *)
THEOREM Invariance == Spec => []IInv
BY InitIInv, NextIInv, PTL DEF Spec

(* The variables of both threads keep their types.                         *)
THEOREM TypeCorrect == Spec => []TypeOK
<1>1. IInv => TypeOK
  BY DEF IInv
<1> QED
  BY <1>1, Invariance, PTL

(* runOnGuiThreadBlocking never lets two operations overlap, for any       *)
(* number of requests, time-outs and nested event loops: what executes is  *)
(* the awaited call or the abandoned one, and there is only one of them.   *)
THEOREM MutualExclusion == Spec => []OneOperationAtATime
<1>1. IInv => OneOperationAtATime
  BY RequestsAssumption DEF IInv, DebugInv, CallInv, OneOperationAtATime
<1> QED
  BY <1>1, Invariance, PTL

(* No answer lies about what the request has done or will do.              *)
THEOREM Truthfulness == Spec => []AnswersAreTrue
<1>1. IInv => AnswersAreTrue
  BY DEF IInv
<1> QED
  BY <1>1, Invariance, PTL

(* A runtime mutation never starts in a session that has them disabled.    *)
THEOREM MutationGate == Spec => MutationsStartEnabled
<1>1. ASSUME IInv, [Next]_vars, NEW r \in Mutating,
             phase[r] # "Started", phase'[r] = "Started"
      PROVE  mutationEnabled
  <2> USE <1>1, MutatingAssumption
  <2>1. phase # phase'
    OBVIOUS
  <2>2. CASE \E q \in Requests : RunInCaller(q)
    <3>1. PICK q \in Requests : RunInCaller(q)
      BY <2>2
    <3>2. q = r
      BY <3>1 DEF RunInCaller
    <3> QED
      BY <3>1 DEF RunInCaller, PassesGate
  <2>3. CASE ClaimPosted
    <3>1. posted # <<>> /\ phase[Head(posted)] = "Queued" /\ r = Head(posted)
      BY <2>3 DEF ClaimPosted, PumpsEvents
    <3>2. Head(posted) = posted[1] /\ 1 \in 1..Len(posted)
      BY <3>1
    <3>3. r = current
      BY <3>1 DEF IInv, QueueInv
    <3> QED
      BY <3>3 DEF IInv, DebugInv
  <2>4. CASE CancelQueued
    BY <2>4 DEF CancelQueued
  <2> QED
    BY <2>2, <2>3, <2>4
       DEF Next, DebugReceives, DebugWaits, Gui, vars, stateVars, Configure,
           ResetSession, RefuseMutation, RefuseBusy, Post, PostFails, Acquire,
           BudgetExpires, FindStarted, GraceExpires, SkipCancelled, FnReturns,
           StoreCompleted, ReleaseDone, AppDestroyed
<1>2. IInv /\ [Next]_vars => [\A r \in Mutating :
          phase[r] # "Started" /\ phase'[r] = "Started" => mutationEnabled]_vars
  BY <1>1
<1> QED
  BY <1>2, Invariance, PTL DEF Spec, MutationsStartEnabled

-----------------------------------------------------------------------------
(* The effect of a request, read through the refinement mapping.           *)
LEMMA EffectValue ==
    ASSUME NEW r \in Requests
    PROVE  /\ EffectOf[r] = "none"    <=> phase[r] # "Started"
           /\ EffectOf[r] = "running" <=> Executing(r)
           /\ EffectOf[r] = "done"    <=> phase[r] = "Started" /\ completed[r]
BY DEF EffectOf, Executing

(* A step that changes neither who has started nor who has finished leaves *)
(* the abstract effects as they are.                                       *)
LEMMA EffectUnchanged ==
    ASSUME \A r \in Requests : /\ phase'[r] = "Started" <=> phase[r] = "Started"
                               /\ completed'[r] = completed[r]
    PROVE  EffectOf' = EffectOf
BY DEF EffectOf

(* The two threads, their semaphore and their timeouts implement the       *)
(* promise made to the client.                                             *)
THEOREM Refinement == Spec => ImplementsPromise
<1>1. Init => Promise!Init
  BY DEF Init, Promise!Init, EffectOf
<1>2. ASSUME IInv, [Next]_vars
      PROVE  [Promise!Next]_(Promise!vars)
  <2> USE <1>2, RequestsAssumption DEF Promise!vars, IInv
  <2>1. CASE UNCHANGED vars
    <3>1. EffectOf' = EffectOf
      BY <2>1 DEF vars, stateVars, EffectOf
    <3> QED
      BY <2>1, <3>1 DEF vars, debugVars
  <2>2. CASE \E enabled \in BOOLEAN : Configure(enabled)
    BY <2>2, EffectUnchanged DEF Configure, stateVars
  <2>3. CASE ResetSession
    BY <2>3, EffectUnchanged DEF ResetSession, stateVars
  <2>4. ASSUME NEW r \in Requests, RefuseMutation(r) \/ RefuseBusy(r) \/ PostFails(r)
        PROVE  \E why \in {"busy", "disabled", "not_executed"} : Promise!Refuse(r, why)
    <3>1. EffectOf' = EffectOf
      BY <2>4, EffectUnchanged
         DEF RefuseMutation, RefuseBusy, PostFails, stateVars
    <3>2. Promise!Fresh(r)
      BY <2>4, EffectValue
         DEF RefuseMutation, RefuseBusy, PostFails, Arrives, Promise!Fresh,
             DebugInv, CallInv
    <3>3. RefuseBusy(r) => EffectOf[abandoned] = "running" /\ outcome[abandoned] = "unknown"
      BY EffectValue
         DEF RefuseBusy, StillExecuting, TypeOK, DebugInv, AnswersAreTrue,
             Executing
    <3> QED
      BY <2>4, <3>1, <3>2, <3>3
         DEF RefuseMutation, RefuseBusy, PostFails, StillExecuting, TypeOK,
             Promise!Refuse
  <2>5. ASSUME NEW r \in Requests, RunInCaller(r) PROVE Promise!RunInCaller(r)
    <3>1. r # current /\ ~(phase[r] = "Started") /\ current = NoRequest
      BY <2>5 DEF RunInCaller, Arrives, DebugInv, CallInv
    <3>2. Promise!Fresh(r)
      BY <2>5, <3>1, EffectValue DEF RunInCaller, Arrives, Promise!Fresh
    <3>3. Promise!Idle
      BY <2>5, EffectValue DEF RunInCaller, StackInv, Promise!Idle
    <3>4. EffectOf' = [EffectOf EXCEPT ![r] = "done"]
      BY <2>5 DEF RunInCaller, TypeOK, EffectOf
    <3> QED
      BY <2>5, <3>2, <3>3, <3>4 DEF RunInCaller, Promise!RunInCaller
  <2>6. ASSUME NEW r \in Requests, Post(r) PROVE Promise!Ask(r)
    <3>1. EffectOf' = EffectOf
      BY <2>6, EffectUnchanged DEF Post, stateVars
    <3>2. Promise!Fresh(r)
      BY <2>6, EffectValue DEF Post, Arrives, Promise!Fresh, DebugInv, CallInv
    <3> QED
      BY <2>6, <3>1, <3>2 DEF Post, Promise!Ask
  <2>7. CASE Acquire \/ CancelQueued \/ GraceExpires
    <3>1. current \in Requests /\ current # NoRequest
      BY <2>7 DEF Acquire, CancelQueued, GraceExpires, TypeOK, DebugInv
    <3>2. EffectOf' = EffectOf
      BY <2>7, EffectUnchanged
         DEF Acquire, CancelQueued, GraceExpires, TypeOK, stateVars
    <3>3. \E v \in Promise!TruthfulVerdicts(EffectOf[current]) :
             outcome' = [outcome EXCEPT ![current] = v]
      <4>1. CASE Acquire
        <5>1. completed[current] /\ hasResult[current] /\ phase[current] = "Started"
          BY <4>1 DEF Acquire, TypeOK, DebugInv, CallInv
        <5> QED
          BY <3>1, <4>1, <5>1
             DEF Acquire, Return, EffectOf, Promise!TruthfulVerdicts
      <4>2. CASE CancelQueued
        BY <3>1, <4>2
           DEF CancelQueued, Return, EffectOf, Promise!TruthfulVerdicts
      <4>3. CASE GraceExpires
        BY <3>1, <4>3
           DEF GraceExpires, Return, DebugInv, EffectOf,
               Promise!TruthfulVerdicts
      <4> QED
        BY <2>7, <4>1, <4>2, <4>3
    <3>4. Promise!Answer(current)
      BY <2>7, <3>2, <3>3
         DEF Acquire, CancelQueued, GraceExpires, Return, Promise!Answer
    <3> QED
      BY <3>1, <3>4 DEF Promise!Next
  <2>8. CASE BudgetExpires \/ FindStarted
    BY <2>8, EffectUnchanged DEF BudgetExpires, FindStarted, stateVars
  <2>9. CASE ClaimPosted
    <3> DEFINE h == Head(posted)
    <3>1. h = posted[1] /\ 1 \in 1..Len(posted) /\ h \in Requests
      BY <2>9 DEF ClaimPosted, PumpsEvents, TypeOK
    <3>2. h = current /\ phase[h] = "Queued"
      BY <2>9, <3>1 DEF ClaimPosted, QueueInv
    <3>3. Promise!Idle
      <4>1. \A r \in Requests : ~Executing(r)
        BY <3>1, <3>2 DEF DebugInv, CallInv, Executing
      <4> QED
        BY <4>1, EffectValue DEF Promise!Idle
    <3>4. EffectOf' = [EffectOf EXCEPT ![h] = "running"]
      BY <2>9 DEF ClaimPosted, TypeOK, CallInv, EffectOf
    <3>5. Promise!Begin(h)
      BY <2>9, <3>1, <3>2, <3>3, <3>4, EffectValue
         DEF ClaimPosted, debugVars, Promise!Begin
    <3> QED
      BY <3>1, <3>5 DEF Promise!Next
  <2>10. CASE StoreCompleted
    <3>1. Top = frames[1] /\ 1 \in 1..Len(frames) /\ Top \in Requests
      BY <2>10 DEF StoreCompleted, Top, TypeOK, StackInv
    <3>2. Executing(Top)
      BY <2>10, <3>1 DEF StoreCompleted, StackInv, Executing
    <3>3. EffectOf' = [EffectOf EXCEPT ![Top] = "done"]
      BY <2>10, <3>2 DEF StoreCompleted, TypeOK, EffectOf, Executing
    <3>4. Promise!End(Top)
      BY <2>10, <3>1, <3>2, <3>3, EffectValue
         DEF StoreCompleted, debugVars, Promise!End
    <3> QED
      BY <3>1, <3>4 DEF Promise!Next
  <2>11. CASE SkipCancelled \/ FnReturns \/ ReleaseDone \/ AppDestroyed
    BY <2>11, EffectUnchanged
       DEF SkipCancelled, FnReturns, ReleaseDone, AppDestroyed, debugVars,
           stateVars
  <2> QED
    BY <2>1, <2>2, <2>3, <2>4, <2>5, <2>6, <2>7, <2>8, <2>9, <2>10, <2>11
       DEF Next, DebugReceives, DebugWaits, Gui, Promise!Next
<1>3. IInv /\ [Next]_vars => [Promise!Next]_(Promise!vars)
  BY <1>2
<1> QED
  BY <1>1, <1>3, Invariance, PTL DEF Spec, ImplementsPromise, Promise!Spec

=============================================================================
