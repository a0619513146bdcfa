--------------------------- MODULE LauncherProofs ---------------------------
(***************************************************************************)
(* Proofs about the way through a launcher. LauncherSessions, for every    *)
(* number of launchers, PIDs, registry directories and clients: the        *)
(* inductive invariant says what a launcher has on disk in each phase of   *)
(* its life, and what a client that judged a session dead may still rely   *)
(* on while it moves the files. GatewayBudget, for every request, every    *)
(* value of its parameters and every width of int: the times never leave   *)
(* the range of an int, and a client outlasts the time that its request    *)
(* asks for.                                                               *)
(***************************************************************************)
EXTENDS LauncherSessions, GatewayBudget, TLAPS

Ended(l) == pc[l] \in {"gone", "killed"}

(* A launcher has its PID from its start on, and records only once its     *)
(* session is ready; what ends without a signal has cleared up.            *)
LauncherInv ==
    \A l \in Launchers :
        /\ pc[l] # "none" => pid[l] \in Pids
        /\ records[l] # {} => pc[l] \in {"serving", "killed"}
        /\ pc[l] \in {"none", "boot", "listening"} => target[l] = "none"
        /\ pc[l] = "gone" /\ target[l] # "none" => l \notin contents[pid[l]]

(* The session a client looks at was started; the one it moves has ended,  *)
(* and only a launcher started since can have its PID.                     *)
DiscoveryInv ==
    \A c \in Clients :
        /\ step[c] # "idle" => session[c] \in Launchers /\ pc[session[c]] # "none"
        /\ step[c] \in {"moveRuntime", "moveRecords"} => Ended(session[c])
        /\ step[c] = "moveRuntime" =>
              \A l \in Launchers : Alive(l) /\ pid[l] = pid[session[c]] => l \in since[c]
        /\ step[c] = "moveRecords" => session[c] \notin contents[pid[session[c]]]

IInv ==
    /\ TypeOK
    /\ LauncherInv
    /\ DiscoveryInv

-----------------------------------------------------------------------------
(* It holds before the first launcher is started.                          *)
LEMMA InitIInv == Init => IInv
<1> SUFFICES ASSUME Init PROVE IInv
  OBVIOUS
<1> USE ProcessesAssumption DEF Init
<1>1. TypeOK
  <2>1. quit \in [Launchers -> BOOLEAN]
    BY Zenon
  <2> QED
    BY <2>1 DEF TypeOK, Phases, Alive
<1>2. LauncherInv /\ DiscoveryInv
  BY DEF LauncherInv, DiscoveryInv
<1> QED
  BY <1>1, <1>2 DEF IInv

(* Each step of a launcher preserves it.                                   *)
LEMMA LauncherIInv ==
    ASSUME IInv, NEW l \in Launchers, LauncherStep(l)
    PROVE  IInv'
<1> USE ProcessesAssumption DEF IInv, At, Alive
<1>1. ASSUME NEW p \in Pids, Launch(l, p)
      PROVE  IInv'
  <2> USE <1>1 DEF Launch, LauncherRuntimeDir, clientVars
  <2>1. TypeOK'
    BY DEF TypeOK, Phases
  <2>2. LauncherInv'
    BY DEF TypeOK, LauncherInv
  <2>3. DiscoveryInv'
    BY DEF TypeOK, LauncherInv, DiscoveryInv, Ended
  <2> QED
    BY <2>1, <2>2, <2>3
<1>2. CASE Listen(l)
  <2> USE <1>2 DEF Listen, LauncherRuntimeDir, clientVars
  <2>1. TypeOK'
    BY DEF TypeOK, Phases
  <2>2. LauncherInv'
    BY DEF TypeOK, LauncherInv
  <2>3. DiscoveryInv'
    BY DEF TypeOK, LauncherInv, DiscoveryInv, Ended
  <2> QED
    BY <2>1, <2>2, <2>3
<1>3. CASE StartFails(l)
  <2> USE <1>3 DEF StartFails, ProcessEnds, fileVars, clientVars
  <2>1. TypeOK'
    BY DEF TypeOK, Phases
  <2>2. LauncherInv'
    BY DEF TypeOK, LauncherInv
  <2>3. DiscoveryInv'
    BY DEF TypeOK, LauncherInv, DiscoveryInv, Ended
  <2> QED
    BY <2>1, <2>2, <2>3
<1>4. CASE StartTarget(l)
  <2> USE <1>4 DEF StartTarget, fileVars, clientVars
  <2>1. TypeOK'
    BY DEF TypeOK, Phases
  <2>2. LauncherInv'
    BY DEF TypeOK, LauncherInv
  <2>3. DiscoveryInv'
    BY DEF TypeOK, LauncherInv, DiscoveryInv, Ended
  <2> QED
    BY <2>1, <2>2, <2>3
<1>5. CASE TargetEnds(l)
  <2> USE <1>5 DEF TargetEnds, fileVars, clientVars
  <2>1. TypeOK'
    BY DEF TypeOK, Phases
  <2>2. LauncherInv'
    BY DEF TypeOK, LauncherInv
  <2>3. DiscoveryInv'
    BY DEF TypeOK, LauncherInv, DiscoveryInv, Ended
  <2> QED
    BY <2>1, <2>2, <2>3
<1>6. CASE Connected(l)
  <2> USE <1>6 DEF Connected, fileVars, clientVars
  <2>1. TypeOK'
    BY DEF TypeOK, Phases
  <2>2. LauncherInv'
    BY DEF TypeOK, LauncherInv
  <2>3. DiscoveryInv'
    BY DEF TypeOK, LauncherInv, DiscoveryInv, Ended
  <2> QED
    BY <2>1, <2>2, <2>3
<1>7. CASE WriteLauncherRegistryFiles(l)
  <2> USE <1>7 DEF WriteLauncherRegistryFiles, clientVars
  <2>1. TypeOK'
    BY DEF TypeOK, Phases
  <2>2. LauncherInv'
    BY DEF TypeOK, LauncherInv
  <2>3. DiscoveryInv'
    BY DEF TypeOK, LauncherInv, DiscoveryInv, Ended
  <2> QED
    BY <2>1, <2>2, <2>3
<1>8. CASE Finished(l)
  <2> USE <1>8 DEF Finished, InEventLoop, RemovesRecords, clientVars
  <2>1. TypeOK'
    BY DEF TypeOK, Phases
  <2>2. LauncherInv'
    BY DEF TypeOK, LauncherInv
  <2>3. DiscoveryInv'
    BY DEF TypeOK, LauncherInv, DiscoveryInv, Ended
  <2> QED
    BY <2>1, <2>2, <2>3
<1>9. CASE GiveUp(l)
  <2> USE <1>9 DEF GiveUp, RemovesRecords, clientVars
  <2>1. TypeOK'
    BY DEF TypeOK, Phases
  <2>2. LauncherInv'
    BY DEF TypeOK, LauncherInv
  <2>3. DiscoveryInv'
    BY DEF TypeOK, LauncherInv, DiscoveryInv, Ended
  <2> QED
    BY <2>1, <2>2, <2>3
<1>10. CASE PollSignal(l)
  <2> USE <1>10 DEF PollSignal, InEventLoop, fileVars, clientVars
  <2>1. TypeOK'
    BY DEF TypeOK, Phases
  <2>2. LauncherInv'
    BY DEF TypeOK, LauncherInv
  <2>3. DiscoveryInv'
    BY DEF TypeOK, LauncherInv, DiscoveryInv, Ended
  <2> QED
    BY <2>1, <2>2, <2>3
<1>11. CASE QuitIgnored(l)
  <2> USE <1>11 DEF QuitIgnored, fileVars, clientVars
  <2>1. TypeOK'
    BY DEF TypeOK, Phases
  <2>2. LauncherInv'
    BY DEF TypeOK, LauncherInv
  <2>3. DiscoveryInv'
    BY DEF TypeOK, LauncherInv, DiscoveryInv, Ended
  <2> QED
    BY <2>1, <2>2, <2>3
<1>12. CASE Quit(l)
  <2> USE <1>12 DEF Quit, RemovesRecords, clientVars
  <2>1. TypeOK'
    BY DEF TypeOK, Phases
  <2>2. LauncherInv'
    BY DEF TypeOK, LauncherInv
  <2>3. DiscoveryInv'
    BY DEF TypeOK, LauncherInv, DiscoveryInv, Ended
  <2> QED
    BY <2>1, <2>2, <2>3
<1>13. CASE RemoveRuntime(l)
  <2> USE <1>13 DEF RemoveRuntime, ProcessEnds, clientVars
  <2>1. TypeOK'
    <3>1. /\ pid[l] \in Pids /\ runtimes' \subseteq Pids
          /\ contents' \in [Pids -> SUBSET Launchers]
      BY DEF TypeOK
    <3>2. CASE At(l, "removing", "gone") /\ ProcessEnds(l)
      BY <3>1, <3>2 DEF TypeOK, Phases
    <3>3. CASE At(l, "removingConnected", "ready") /\ UNCHANGED <<holder, quit>>
      BY <3>1, <3>3 DEF TypeOK, Phases
    <3> QED
      BY <3>2, <3>3
  <2>2. LauncherInv'
    BY DEF TypeOK, LauncherInv
  <2>3. DiscoveryInv'
    BY DEF TypeOK, LauncherInv, DiscoveryInv, Ended
  <2> QED
    BY <2>1, <2>2, <2>3
<1>14. CASE Killed(l)
  <2> USE <1>14 DEF Killed, ProcessEnds, fileVars, clientVars
  <2>1. TypeOK'
    BY DEF TypeOK, Phases
  <2>2. LauncherInv'
    BY DEF TypeOK, LauncherInv
  <2>3. DiscoveryInv'
    BY DEF TypeOK, LauncherInv, DiscoveryInv, Ended
  <2> QED
    BY <2>1, <2>2, <2>3
<1> QED
  BY <1>1, <1>2, <1>3, <1>4, <1>5, <1>6, <1>7, <1>8, <1>9, <1>10, <1>11, <1>12, <1>13, <1>14 DEF LauncherStep

(* So does each step of a client.                                          *)
LEMMA ClientIInv ==
    ASSUME IInv, NEW c \in Clients, ClientStep(c)
    PROVE  IInv'
<1> USE ProcessesAssumption DEF IInv, Alive, processVars, fileVars
<1>1. ASSUME NEW l \in Launchers, Discover(c, l)
      PROVE  IInv'
  <2> USE <1>1 DEF Discover
  <2>1. TypeOK'
    BY DEF TypeOK
  <2>2. LauncherInv'
    BY DEF TypeOK, LauncherInv
  <2>3. DiscoveryInv'
    BY DEF TypeOK, LauncherInv, DiscoveryInv, Ended
  <2> QED
    BY <2>1, <2>2, <2>3
<1>2. CASE ProbeAnswered(c)
  <2> USE <1>2 DEF ProbeAnswered, Leaves
  <2>1. TypeOK'
    BY DEF TypeOK
  <2>2. LauncherInv'
    BY DEF TypeOK, LauncherInv
  <2>3. DiscoveryInv'
    BY DEF TypeOK, LauncherInv, DiscoveryInv, Ended
  <2> QED
    BY <2>1, <2>2, <2>3
<1>3. CASE ProbeFails(c)
  <2> USE <1>3 DEF ProbeFails, Goes
  <2>1. TypeOK'
    BY DEF TypeOK
  <2>2. LauncherInv'
    BY DEF TypeOK, LauncherInv
  <2>3. DiscoveryInv'
    BY DEF TypeOK, LauncherInv, DiscoveryInv, Ended
  <2> QED
    BY <2>1, <2>2, <2>3
<1>4. CASE Judge(c)
  <2> USE <1>4 DEF Judge, Goes, Leaves
  <2>1. TypeOK'
    BY DEF TypeOK, MatchingRegistryPaths, DiscoveryInv
  <2>2. LauncherInv'
    BY DEF TypeOK, LauncherInv
  <2>3. DiscoveryInv'
    BY DEF TypeOK, LauncherInv, DiscoveryInv, Ended, VerifiedStale, SeenAt
  <2> QED
    BY <2>1, <2>2, <2>3
<1>5. CASE MoveRuntime(c)
  <2> USE <1>5 DEF MoveRuntime, Goes
  <2>1. TypeOK'
    BY DEF TypeOK, MatchingRegistryPaths, DiscoveryInv
  <2>2. LauncherInv'
    BY DEF TypeOK, LauncherInv
  <2>3. DiscoveryInv'
    BY DEF TypeOK, LauncherInv, DiscoveryInv, Ended
  <2> QED
    BY <2>1, <2>2, <2>3
<1>6. CASE CannotMoveRuntime(c)
  <2> USE <1>6 DEF CannotMoveRuntime, Leaves
  <2>1. TypeOK'
    BY DEF TypeOK
  <2>2. LauncherInv'
    BY DEF TypeOK, LauncherInv
  <2>3. DiscoveryInv'
    BY DEF TypeOK, LauncherInv, DiscoveryInv, Ended
  <2> QED
    BY <2>1, <2>2, <2>3
<1>7. CASE MoveRecord(c)
  <2> USE <1>7 DEF MoveRecord
  <2>1. TypeOK'
    BY DEF TypeOK, MatchingRegistryPaths, DiscoveryInv
  <2>2. LauncherInv'
    BY DEF TypeOK, LauncherInv, DiscoveryInv
  <2>3. DiscoveryInv'
    BY DEF TypeOK, LauncherInv, DiscoveryInv, Ended
  <2> QED
    BY <2>1, <2>2, <2>3
<1>8. CASE EndDiscovery(c)
  <2> USE <1>8 DEF EndDiscovery, Leaves
  <2>1. TypeOK'
    BY DEF TypeOK
  <2>2. LauncherInv'
    BY DEF TypeOK, LauncherInv
  <2>3. DiscoveryInv'
    BY DEF TypeOK, LauncherInv, DiscoveryInv, Ended
  <2> QED
    BY <2>1, <2>2, <2>3
<1> QED
  BY <1>1, <1>2, <1>3, <1>4, <1>5, <1>6, <1>7, <1>8 DEF ClientStep

(* So does a process that is no launcher.                                  *)
LEMMA OtherIInv ==
    ASSUME IInv, (\E p \in Pids : OtherStarts(p) \/ OtherEnds(p)) \/ UNCHANGED vars
    PROVE  IInv'
<1> USE ProcessesAssumption DEF IInv, Alive, fileVars, clientVars
<1>1. ASSUME NEW p \in Pids, OtherStarts(p) \/ OtherEnds(p)
      PROVE  IInv'
  <2> USE <1>1 DEF OtherStarts, OtherEnds
  <2>1. TypeOK'
    BY DEF TypeOK
  <2>2. LauncherInv' /\ DiscoveryInv'
    BY DEF LauncherInv, DiscoveryInv, Ended
  <2> QED
    BY <2>1, <2>2
<1>2. CASE UNCHANGED vars
  BY <1>2 DEF vars, processVars, TypeOK, LauncherInv, DiscoveryInv, Ended
<1> QED
  BY <1>1, <1>2

(* Every action preserves the invariant.                                   *)
LEMMA NextIInv == IInv /\ [Next]_vars => IInv'
BY LauncherIInv, ClientIInv, OtherIInv DEF Next

-----------------------------------------------------------------------------
(* The invariant holds in every state of every behaviour.                  *)
THEOREM Invariance == Spec => []IInv
BY InitIInv, NextIInv, PTL DEF Spec

(* The variables have their types, and the PID of a living launcher is     *)
(* nobody else's.                                                          *)
THEOREM TypeCorrect == Spec => []TypeOK
<1>1. IInv => TypeOK
  BY DEF IInv
<1> QED
  BY <1>1, Invariance, PTL

(* However a launcher that started its target ends, short of being killed, *)
(* neither a record nor a file of its mailbox is left.                     *)
THEOREM CleanEnd == Spec => []NothingLeftBehind
<1>1. IInv => NothingLeftBehind
  BY DEF IInv, LauncherInv, NothingLeftBehind
<1> QED
  BY <1>1, Invariance, PTL

(* A client's cleanup takes nothing from a session that lives, but for the *)
(* mailbox of a launcher that got the dead one's PID in between.           *)
THEOREM CleanupSparesTheLiving == Spec => LivingSessionsAreKept
<1>1. ASSUME IInv, NEW c \in Clients, NEW l \in Launchers, ClientStep(c), Alive(l)
      PROVE  /\ records'[l] = records[l]
             /\ l \in contents[pid[l]] => l \in contents'[pid[l]] \/ l \in since[c]
  <2> USE <1>1 DEF IInv
  <2>1. CASE MoveRuntime(c)
    BY <2>1 DEF MoveRuntime, TypeOK, DiscoveryInv
  <2>2. CASE MoveRecord(c)
    <3>1. session[c] # l
      BY <2>2 DEF MoveRecord, DiscoveryInv, Ended, Alive
    <3> QED
      BY <2>2, <3>1 DEF MoveRecord, TypeOK
  <2>3. CASE \/ \E d \in Launchers : Discover(c, d)
             \/ ProbeAnswered(c) \/ ProbeFails(c) \/ Judge(c)
             \/ CannotMoveRuntime(c) \/ EndDiscovery(c)
    BY <2>3
       DEF Discover, ProbeAnswered, ProbeFails, Judge, CannotMoveRuntime, EndDiscovery, fileVars
  <2> QED
    BY <1>1, <2>1, <2>2, <2>3 DEF ClientStep
<1>2. IInv /\ [Next]_vars =>
        [\A c \in Clients, l \in Launchers :
            ClientStep(c) /\ Alive(l) =>
                /\ records'[l] = records[l]
                /\ l \in contents[pid[l]] => l \in contents'[pid[l]] \/ l \in since[c]]_vars
  BY <1>1
<1> QED
  BY <1>2, Invariance, PTL DEF Spec, LivingSessionsAreKept

(* The last record of a killed launcher goes only after its files went.    *)
THEOREM CleanupOrder == Spec => LeftFilesStayDiscoverable
<1>1. ASSUME IInv, [Next]_vars, NEW l \in Launchers,
             pc[l] = "killed", records[l] # {}, records'[l] = {}
      PROVE  l \notin contents'[pid[l]]
  <2> USE <1>1 DEF IInv
  <2>1. ASSUME NEW m \in Launchers, LauncherStep(m)
        PROVE  records'[l] = records[l]
    <3>1. CASE m = l
      BY <2>1, <3>1
         DEF LauncherStep, Launch, Listen, StartFails, StartTarget, TargetEnds, Connected,
             WriteLauncherRegistryFiles, Finished, GiveUp, PollSignal, QuitIgnored, Quit,
             RemoveRuntime, Killed, At, Alive, InEventLoop
    <3>2. CASE m # l
      BY <2>1, <3>2
         DEF LauncherStep, Launch, Listen, StartFails, StartTarget, TargetEnds, Connected,
             WriteLauncherRegistryFiles, Finished, GiveUp, PollSignal, QuitIgnored, Quit,
             RemoveRuntime, Killed, RemovesRecords, fileVars, TypeOK
    <3> QED
      BY <3>1, <3>2
  <2>2. ASSUME NEW c \in Clients, ClientStep(c)
        PROVE  l \notin contents'[pid[l]]
    <3>1. MoveRecord(c)
      BY <2>2
         DEF ClientStep, Discover, ProbeAnswered, ProbeFails, Judge, MoveRuntime,
             CannotMoveRuntime, EndDiscovery, fileVars
    <3>2. session[c] = l
      BY <3>1 DEF MoveRecord, TypeOK
    <3> QED
      BY <3>1, <3>2 DEF MoveRecord, DiscoveryInv
  <2> QED
    BY <2>1, <2>2 DEF Next, OtherStarts, OtherEnds, vars, fileVars
<1>2. IInv /\ [Next]_vars =>
        [\A l \in Launchers :
            pc[l] = "killed" /\ records[l] # {} /\ records'[l] = {}
                => l \notin contents'[pid[l]]]_vars
  BY <1>1
<1> QED
  BY <1>2, Invariance, PTL DEF Spec, LeftFilesStayDiscoverable

-----------------------------------------------------------------------------
(* GatewayBudget.                                                          *)

(* The ints, and what lies between two of them (a range of literals would *)
(* be enumerated).                                                         *)
Times == -(IntMax + 1)..IntMax

Between(low, x, high) == x \in Int /\ low <= x /\ x <= high

(* The methods whose time differs.                                         *)
Methods == {"UI.query", "UI.waitFor", "UI.queryMany", "Input.longPressNode", "Input.typeText",
            "Input.clickNode", "Runtime.setProperty"}

(* What a request of the model is: a parameter it has is an int.           *)
LEMMA RequestTypes ==
    ASSUME NEW r \in Requests
    PROVE  /\ r.method \in Methods
           /\ r.wait = Absent \/ r.wait \in Times
           /\ r.hold = Absent \/ r.hold \in Times
           /\ r.settle = Absent \/ r.settle \in Times
           /\ r.focusSettle = Absent \/ r.focusSettle \in Times
           /\ r.queries \in 0..IntMax
BY ParametersAssumption, IntMaxAssumption DEF Requests, Request, Methods, Times

(* The windows of input and mutation requests, in bounds.                  *)
LEMMA Windows ==
    ASSUME NEW x, x = Absent \/ x \in Times
    PROVE  Between(0, SettleMs(x), 30000) /\ Between(1, HoldMs(x), 10000)
BY IntMaxAssumption DEF Between, SettleMs, HoldMs, Bound, OrDefault, Times

(* AddReplySlack cannot overflow.                                          *)
LEMMA Slack ==
    ASSUME NEW ms \in 0..IntMax
    PROVE  AddReplySlack(ms) \in 0..IntMax /\ (ms <= 120000 => AddReplySlack(ms) = ms + 1000)
                                           /\ AddReplySlack(ms) >= 1000
BY IntMaxAssumption DEF AddReplySlack, ReplySlackMs

(* The extra budget of a request, in bounds.                               *)
LEMMA Extra ==
    ASSUME NEW r \in Requests
    PROVE  Between(0, ExtraBudgetMs(r), 120000)
<1>1. /\ Between(0, SettleMs(r.settle), 30000) /\ Between(1, HoldMs(r.hold), 10000)
      /\ Between(0, SettleMs(r.focusSettle), 30000) /\ r.queries \in 0..IntMax
  BY RequestTypes, Windows
<1>2. Between(0, WaitForBudgetMs(r), 30000)
  BY RequestTypes, IntMaxAssumption DEF Between, WaitForBudgetMs, Bound, OrDefault, Times
<1>3. Between(0, QueryManyBudgetMs(r), 12500)
  BY <1>1, IntMaxAssumption DEF Between, QueryManyBudgetMs, Bound
<1>4. Between(0, InputBudgetMs(r), 70000)
  BY <1>1 DEF Between, InputBudgetMs
<1>5. \E x : Between(0, x, 70000) /\ ExtraBudgetMs(r) = Bound(0, x, 120000)
  BY <1>1, <1>2, <1>3, <1>4 DEF ExtraBudgetMs, Between
<1> QED
  BY <1>5 DEF Between, Bound

(* The client's own estimate of the time of a request, in bounds.          *)
LEMMA Semantic ==
    ASSUME NEW r \in Requests, NEW default \in 1..IntMax
    PROVE  /\ SemanticTimeoutMs(r, default) \in Int
           /\ -1 <= SemanticTimeoutMs(r, default) /\ SemanticTimeoutMs(r, default) <= IntMax
<1>1. /\ Between(0, SettleMs(r.settle), 30000) /\ Between(1, HoldMs(r.hold), 10000)
      /\ Between(0, SettleMs(r.focusSettle), 30000)
  BY RequestTypes, Windows
<1>2. Larger(0, OrDefault(r.wait, default)) \in 0..IntMax
  BY RequestTypes, IntMaxAssumption DEF Larger, OrDefault, Times
<1> QED
  BY <1>1, <1>2, IntMaxAssumption DEF Between, SemanticTimeoutMs

(* Except for batched queries the client waits longer than the time that   *)
(* the service grants the request on top of its general budget.            *)
LEMMA ClientOutlasts ==
    ASSUME NEW r \in Requests, NEW default \in 1..IntMax
    PROVE  /\ LauncherControlTimeoutMs(r, default) \in 1..IntMax
           /\ r.method # "UI.queryMany" =>
                 LauncherControlTimeoutMs(r, default) >= ExtraBudgetMs(r)
<1> DEFINE semantic == SemanticTimeoutMs(r, default)
           extra    == ExtraBudgetMs(r)
<1>1. semantic \in Int /\ -1 <= semantic /\ semantic <= IntMax /\ Between(0, extra, 120000)
  BY Semantic, Extra
<1>2. ASSUME r.method # "UI.queryMany"
      PROVE  IF semantic < 0 THEN extra = 0 ELSE extra <= semantic \/ extra <= 1000
  <2>1. /\ Between(0, SettleMs(r.settle), 30000) /\ Between(1, HoldMs(r.hold), 10000)
        /\ Between(0, SettleMs(r.focusSettle), 30000) /\ r.method \in Methods
    BY RequestTypes, Windows
  <2>2. CASE r.method = "UI.waitFor"
    <3>1. semantic = Larger(0, OrDefault(r.wait, default))
      BY <2>2 DEF SemanticTimeoutMs
    <3>2. extra = WaitForBudgetMs(r)
      <4>1. Between(0, WaitForBudgetMs(r), 30000)
        BY RequestTypes, IntMaxAssumption DEF Between, WaitForBudgetMs, Bound, OrDefault, Times
      <4> QED
        BY <2>2, <4>1 DEF ExtraBudgetMs, IsInput, Bound, Between
    <3> HIDE DEF semantic, extra
    <3> QED
      BY <3>1, <3>2, RequestTypes, IntMaxAssumption
         DEF WaitForBudgetMs, Larger, OrDefault, Bound, Times
  <2>3. CASE r.method = "Input.longPressNode"
    BY <2>1, <2>3 DEF SemanticTimeoutMs, ExtraBudgetMs, InputBudgetMs, IsInput, Bound, Between
  <2>4. CASE r.method = "Input.typeText"
    BY <2>1, <2>4 DEF SemanticTimeoutMs, ExtraBudgetMs, InputBudgetMs, IsInput, Bound, Between
  <2>5. CASE r.method \in {"Input.clickNode", "Runtime.setProperty"}
    BY <2>1, <2>5 DEF SemanticTimeoutMs, ExtraBudgetMs, InputBudgetMs, IsInput, Bound, Between
  <2>6. CASE r.method = "UI.query"
    BY <2>6 DEF SemanticTimeoutMs, ExtraBudgetMs, IsInput, Bound, Between
  <2> QED
    BY <1>2, <2>1, <2>2, <2>3, <2>4, <2>5, <2>6 DEF Methods
<1> HIDE DEF semantic, extra
<1>3. CASE semantic < 0
  <2>1. LauncherControlTimeoutMs(r, default) = default
    BY <1>3 DEF LauncherControlTimeoutMs, semantic
  <2> QED
    BY <1>2, <1>3, <2>1 DEF extra
<1>4. CASE semantic >= 0
  <2>1. LauncherControlTimeoutMs(r, default) = Larger(default, AddReplySlack(semantic))
    BY <1>1, <1>4 DEF LauncherControlTimeoutMs, semantic
  <2>2. /\ AddReplySlack(semantic) \in 0..IntMax
        /\ semantic <= 120000 => AddReplySlack(semantic) = semantic + 1000
        /\ AddReplySlack(semantic) >= 1000
        /\ semantic > 120000 => AddReplySlack(semantic) >= 120000
    BY <1>1, <1>4, IntMaxAssumption DEF AddReplySlack, ReplySlackMs
  <2>3. LauncherControlTimeoutMs(r, default) \in 1..IntMax
    BY <2>1, <2>2, IntMaxAssumption DEF Larger
  <2>4. r.method # "UI.queryMany" => extra <= Larger(default, AddReplySlack(semantic))
    BY <1>1, <1>2, <1>4, <2>2, IntMaxAssumption DEF Between, Larger
  <2> QED
    BY <2>1, <2>3, <2>4 DEF extra
<1> QED
  BY <1>1, <1>3, <1>4

-----------------------------------------------------------------------------
(* The inductive invariant: the clock has passed the deadline of whoever   *)
(* has given up.                                                           *)
GatewayIInv ==
    /\ request \in Requests
    /\ fallback \in Fallbacks
    /\ now \in 0..IntMax
    /\ gui \in {"queued", "running", "finished", "cancelled"}
    /\ service \in {"budget", "grace", "answered"}
    /\ client \in {"waiting", "answered", "timedOut"}
    /\ client = "timedOut" => now >= ClientTimeout

(* The deadlines are times.                                                *)
LEMMA DeadlineTypes ==
    ASSUME GatewayIInv
    PROVE  /\ Budget \in 0..IntMax /\ Budget + StartedGraceMs \in 0..IntMax
           /\ ClientTimeout \in 1..IntMax
           /\ Deadlines \subseteq 0..IntMax
<1>1. Between(0, ExtraBudgetMs(request), 120000)
  BY Extra DEF GatewayIInv
<1>2. ClientTimeout \in 1..IntMax
  BY ClientOutlasts, ParametersAssumption DEF GatewayIInv, ClientTimeout
<1> QED
  BY <1>1, <1>2, IntMaxAssumption DEF Between, Budget, GuiDispatchTimeoutMs, StartedGraceMs, Deadlines

(* Every step preserves the invariant: only the clock can disturb it, and  *)
(* the clock does not go back.                                             *)
LEMMA NextGatewayIInv == GatewayIInv /\ [GatewayNext]_gatewayVars => GatewayIInv'
<1> SUFFICES ASSUME GatewayIInv, [GatewayNext]_gatewayVars PROVE GatewayIInv'
  OBVIOUS
<1>1. CASE Advance
  <2>1. now' \in 0..IntMax /\ now' > now
    BY <1>1, DeadlineTypes DEF Advance
  <2>2. ClientTimeout' = ClientTimeout
    BY <1>1 DEF Advance, ClientTimeout
  <2> QED
    BY <1>1, <2>1, <2>2, DeadlineTypes DEF Advance, GatewayIInv
<1>2. CASE ClientTimesOut
  <2>1. ClientTimeout' = ClientTimeout
    BY <1>2 DEF ClientTimesOut, ClientTimeout
  <2> QED
    BY <1>2, <2>1 DEF ClientTimesOut, GatewayIInv
<1>3. CASE GuiStarts \/ GuiFinishes \/ BudgetExpires \/ ServiceAnswers \/ ClientAnswered
  <2>1. ClientTimeout' = ClientTimeout
    BY <1>3 DEF GuiStarts, GuiFinishes, BudgetExpires, ServiceAnswers, ClientAnswered,
                ClientTimeout
  <2> QED
    BY <1>3, <2>1 DEF GuiStarts, GuiFinishes, BudgetExpires, ServiceAnswers, ClientAnswered, GatewayIInv
<1>4. CASE UNCHANGED gatewayVars
  BY <1>4 DEF gatewayVars, GatewayIInv, ClientTimeout
<1> QED
  BY <1>1, <1>2, <1>3, <1>4 DEF GatewayNext

(* The invariant holds in every state.                                     *)
THEOREM GatewayInvariance == GatewaySpec => []GatewayIInv
<1>1. GatewayInit => GatewayIInv
  BY IntMaxAssumption DEF GatewayInit, GatewayIInv
<1> QED
  BY <1>1, NextGatewayIInv, PTL DEF GatewaySpec

(* addReplySlack and the budgets never overflow an int, whatever numbers a *)
(* request carries.                                                        *)
THEOREM GatewayTypeCorrect == GatewaySpec => []GatewayTypeOK
<1>1. GatewayIInv => GatewayTypeOK
  <2> SUFFICES ASSUME GatewayIInv PROVE GatewayTypeOK
    OBVIOUS
  <2>1. Larger(0, SemanticTimeoutMs(request, fallback)) \in 0..IntMax
    BY Semantic, ParametersAssumption, IntMaxAssumption DEF GatewayIInv, Larger
  <2> QED
    BY <2>1, Slack, DeadlineTypes DEF GatewayIInv, GatewayTypeOK
<1> QED
  BY <1>1, GatewayInvariance, PTL

(* A client of a launcher does not give up while its request is within the *)
(* time it has asked for.                                                  *)
THEOREM ClientsArePatient == GatewaySpec => []OutlastsTheRequestsOwnTime
<1>1. GatewayIInv => OutlastsTheRequestsOwnTime
  <2> SUFFICES ASSUME GatewayIInv, client = "timedOut", request.method # "UI.queryMany"
               PROVE  now >= ExtraBudgetMs(request)
    BY DEF OutlastsTheRequestsOwnTime
  <2>1. ClientTimeout >= ExtraBudgetMs(request) /\ ClientTimeout \in 1..IntMax
    BY ClientOutlasts, ParametersAssumption DEF GatewayIInv, ClientTimeout
  <2>2. Between(0, ExtraBudgetMs(request), 120000)
    BY Extra DEF GatewayIInv
  <2> QED
    BY <2>1, <2>2 DEF Between, GatewayIInv
<1> QED
  BY <1>1, GatewayInvariance, PTL
=============================================================================
