--------------------------- MODULE ControlMailbox ---------------------------
(***************************************************************************)
(* The file mailbox between qmlagent clients (processes that come, wait a  *)
(* bounded time and go) and a launcher, which forwards requests to the     *)
(* target over the debug connection. A client writes a request file and    *)
(* polls for the response file it named; control.lock orders clients.      *)
(* A request is known by the client call that published it: file names are *)
(* random UUIDs, so the launcher meets the files in any order.             *)
(***************************************************************************)
EXTENDS Integers, Sequences, FiniteSets

CONSTANTS Clients, \* calls by clients, each of one request
          Mixes,   \* what the calls may ask for
          None

Kinds == {"status", "stop", "agent", "reload"}

ASSUME ClientsAssumption == IsFiniteSet(Clients)
ASSUME NoneAssumption == None \notin Clients
ASSUME MixesAssumption == Mixes \subseteq [Clients -> Kinds]

VARIABLES
    phase, kind, answer, \* of each client call
    after,               \* history: the reloads known to be done when it published
    lock,                \* the holder of control.lock
    mailbox,             \* whether the control directory exists
    requests, responses, \* files: requests by client, responses for client
    launcher,            \* whether its process is "up" or "gone"
    ready,               \* m_sessionReady
    stopRequested,       \* m_stopRequested
    batch,               \* the directory listing it works through
    reload,              \* the reload it is in the middle of, and how far it is
    pending, nextId,     \* m_pendingAgentRequests, m_nextTargetRequestId
    target, toTarget, toLauncher,
    executed, resets     \* history: requests carried out by client; resets handled

clientVars   == <<phase, kind, answer, after>>
fileVars     == <<lock, mailbox, requests, responses>>
launcherVars == <<launcher, ready, stopRequested, batch, reload, pending, nextId>>
targetVars   == <<target, toTarget, toLauncher, executed, resets>>
vars == <<clientVars, fileVars, launcherVars, targetVars>>

Answers  == {"none", "status", "stopping", "not_ready", "reload_failed", "reloaded", "result"}
Response == [what : Answers, to : Clients]
NoResponse == [what |-> "none", to |-> None]
Message  == [id : 0..Cardinality(Clients), client : Clients] \* id 0: Session.reset

Init ==
    /\ phase = [c \in Clients |-> "idle"]
    /\ kind \in Mixes
    /\ answer = [c \in Clients |-> NoResponse]
    /\ after = [c \in Clients |-> {}]
    /\ lock = None
    /\ mailbox = TRUE
    /\ requests = {}
    /\ responses = [c \in Clients |-> NoResponse]
    /\ launcher = "up"
    /\ ready = FALSE
    /\ stopRequested = FALSE
    /\ batch = {}
    /\ reload = [client |-> None, at |-> "none"]
    /\ pending = {}
    /\ nextId = 1
    /\ target = "running"
    /\ toTarget = <<>>
    /\ toLauncher = <<>>
    /\ executed = [c \in Clients |-> 0]
    /\ resets = {}

-----------------------------------------------------------------------------
(* The client: sendLauncherMailboxControlRequest.                          *)

(* The lock is released when the call returns, or its process ends: the    *)
(* system drops the lock of a process that is gone.                        *)
Leaves(c, how) ==
    /\ phase' = [phase EXCEPT ![c] = how]
    /\ lock' = IF lock = c THEN None ELSE lock

AcquireLock(c) ==
    /\ phase[c] = "idle"
    /\ mailbox
    /\ lock = None
    /\ lock' = c
    /\ phase' = [phase EXCEPT ![c] = "locked"]
    /\ UNCHANGED <<kind, answer, after, mailbox, requests, responses, launcherVars, targetVars>>

(* No mailbox, or no lock within the client's timeout.                     *)
CannotLock(c) ==
    /\ phase[c] = "idle"
    /\ phase' = [phase EXCEPT ![c] = "refused"]
    /\ UNCHANGED <<kind, answer, after, fileVars, launcherVars, targetVars>>

Published(c) ==
    /\ phase' = [phase EXCEPT ![c] = "waiting"]
    /\ requests' = requests \cup {c}
    /\ after' = [after EXCEPT ![c] =
                    {d \in Clients : phase[d] = "returned" /\ answer[d].what = "reloaded"}]

(* A request to stop gives up the lock before it waits for its response.   *)
Publish(c) ==
    /\ phase[c] = "locked"
    /\ mailbox
    /\ Published(c)
    /\ lock' = IF kind[c] = "stop" THEN None ELSE lock
    /\ UNCHANGED <<kind, answer, mailbox, responses, launcherVars, targetVars>>

CannotPublish(c) ==
    /\ phase[c] = "locked"
    /\ ~mailbox
    /\ Leaves(c, "refused")
    /\ UNCHANGED <<kind, answer, after, mailbox, requests, responses, launcherVars, targetVars>>

ReadResponse(c) ==
    /\ phase[c] = "waiting"
    /\ responses[c] # NoResponse
    /\ answer' = [answer EXCEPT ![c] = responses[c]]
    /\ responses' = [responses EXCEPT ![c] = NoResponse]
    /\ Leaves(c, "returned")
    /\ UNCHANGED <<kind, after, mailbox, requests, launcherVars, targetVars>>

(* The client gives up, or its process ends; the request file stays.       *)
ResponseTimesOut(c) ==
    /\ phase[c] \in {"locked", "waiting"}
    /\ Leaves(c, "gaveUp")
    /\ UNCHANGED <<kind, answer, after, mailbox, requests, responses, launcherVars, targetVars>>

-----------------------------------------------------------------------------
(* The launcher: LauncherControlServer.                                    *)

LauncherFree == launcher = "up" /\ reload.client = None

Write(c, what) == responses' = [responses EXCEPT ![c] = [what |-> what, to |-> c]]

(* Connected. The mailbox may be gone by now, and the target with it.      *)
SetSessionReady ==
    /\ LauncherFree
    /\ ~ready
    /\ ready' = TRUE
    /\ UNCHANGED <<clientVars, fileVars, launcher, stopRequested, batch, reload, pending, nextId,
                   targetVars>>

ListMailbox ==
    /\ LauncherFree
    /\ batch = {}
    /\ requests # {}
    /\ batch' = requests
    /\ UNCHANGED <<clientVars, fileVars, launcher, ready, stopRequested, reload, pending, nextId,
                   targetVars>>

Forward(c) ==
    /\ pending' = pending \cup {[id |-> nextId, client |-> c]}
    /\ nextId' = nextId + 1
    /\ toTarget' = Append(toTarget, [id |-> nextId, client |-> c])

AnswerStatus(c) ==
    /\ kind[c] = "status"
    /\ Write(c, "status")
    /\ UNCHANGED <<stopRequested, reload, pending, nextId, toTarget>>

(* Mutant: a stop is refused, too, until the session is ready.             *)
RequestStopWhenReady(c) ==
    /\ kind[c] = "stop"
    /\ Write(c, IF ready THEN "stopping" ELSE "not_ready")
    /\ stopRequested' = (stopRequested \/ ready)
    /\ UNCHANGED <<reload, pending, nextId, toTarget>>

(* Answered, then requestStop: SIGTERM, and SIGKILL 1500 ms later.         *)
RequestStop(c) ==
    /\ kind[c] = "stop"
    /\ Write(c, "stopping")
    /\ stopRequested' = TRUE
    /\ UNCHANGED <<reload, pending, nextId, toTarget>>

(* Mutant: the early return after the answer is missing.                   *)
RefuseFallingThrough(c) ==
    /\ kind[c] \in {"agent", "reload"}
    /\ ~ready
    /\ Write(c, "not_ready")
    /\ Forward(c)
    /\ UNCHANGED <<stopRequested, reload>>

RefuseUntilReady(c) ==
    /\ kind[c] \in {"agent", "reload"}
    /\ ~ready
    /\ Write(c, "not_ready")
    /\ UNCHANGED <<stopRequested, reload, pending, nextId, toTarget>>

ForwardToAgent(c) ==
    /\ kind[c] = "agent"
    /\ ready
    /\ Forward(c)
    /\ UNCHANGED <<responses, stopRequested, reload>>

(* handlePreviewReload up to the answer of the preview host; the session   *)
(* is no preview, or the host does not answer in time.                     *)
ReloadPreview(c) ==
    /\ kind[c] = "reload"
    /\ ready
    /\ \/ /\ Write(c, "reload_failed")
          /\ UNCHANGED reload
       \/ /\ reload' = [client |-> c, at |-> "reset"]
          /\ UNCHANGED responses
    /\ UNCHANGED <<stopRequested, pending, nextId, toTarget>>

HandleControlRequest(c) ==
    \/ AnswerStatus(c)
    \/ RequestStop(c)
    \/ RefuseUntilReady(c)
    \/ ForwardToAgent(c)
    \/ ReloadPreview(c)

(* Mutant: the request file is not removed.                                *)
ProcessKeepingFile(c) ==
    /\ LauncherFree
    /\ c \in batch \cap requests
    /\ batch' = batch \ {c}
    /\ HandleControlRequest(c)
    /\ UNCHANGED <<clientVars, lock, mailbox, requests, launcher, ready, target, toLauncher,
                   executed, resets>>

(* One file of the listing; one that is gone meanwhile is passed over.     *)
ProcessMailboxRequest(c) ==
    /\ LauncherFree
    /\ c \in batch
    /\ batch' = batch \ {c}
    /\ requests' = requests \ {c}
    /\ IF c \in requests
          THEN HandleControlRequest(c)
          ELSE UNCHANGED <<responses, stopRequested, reload, pending, nextId, toTarget>>
    /\ UNCHANGED <<clientVars, lock, mailbox, launcher, ready, target, toLauncher,
                   executed, resets>>

(* Mutant: the session is not reset after a reload.                        *)
ReloadWithoutReset ==
    /\ launcher = "up"
    /\ reload.at = "reset"
    /\ Write(reload.client, "reloaded")
    /\ reload' = [client |-> None, at |-> "none"]
    /\ UNCHANGED <<clientVars, lock, mailbox, requests, launcher, ready, stopRequested, batch,
                   pending, nextId, target, toLauncher, executed, resets, toTarget>>

(* The preview was reloaded: the session is reset, then the client told.   *)
FinishReload ==
    /\ launcher = "up"
    /\ \/ /\ reload.at = "reset"
          /\ toTarget' = Append(toTarget, [id |-> 0, client |-> reload.client])
          /\ reload' = [reload EXCEPT !.at = "answer"]
          /\ UNCHANGED responses
       \/ /\ reload.at = "answer"
          /\ Write(reload.client, "reloaded")
          /\ reload' = [client |-> None, at |-> "none"]
          /\ UNCHANGED toTarget
    /\ UNCHANGED <<clientVars, lock, mailbox, requests, launcher, ready, stopRequested, batch,
                   pending, nextId, target, toLauncher, executed, resets>>

(* Mutant: a reply goes to whichever request is pending.                   *)
ReplyToAnyPending ==
    /\ LauncherFree
    /\ toLauncher # <<>>
    /\ toLauncher' = Tail(toLauncher)
    /\ \E p \in pending :
          /\ responses' = [responses EXCEPT ![p.client] =
                              [what |-> "result", to |-> Head(toLauncher).client]]
          /\ pending' = pending \ {p}
    /\ UNCHANGED <<clientVars, lock, mailbox, requests, launcher, ready, stopRequested, batch,
                   reload, nextId, target, toTarget, executed, resets>>

(* The reply goes to the response file of the request with its id, also    *)
(* when nobody waits for that file any more.                               *)
HandleAgentMessage ==
    /\ LauncherFree
    /\ toLauncher # <<>>
    /\ toLauncher' = Tail(toLauncher)
    /\ LET reply == Head(toLauncher)
           mine  == {p \in pending : p.id = reply.id} IN
       /\ pending' = pending \ mine
       /\ responses' = [c \in Clients |->
              IF \E p \in mine : p.client = c
                THEN [what |-> "result", to |-> reply.client] ELSE responses[c]]
    /\ UNCHANGED <<clientVars, lock, mailbox, requests, launcher, ready, stopRequested, batch,
                   reload, nextId, target, toTarget, executed, resets>>

(* QProcess::finished, once: the runtime directory goes with every file in *)
(* it, and app.exit ends the launcher - unless the session is not ready:   *)
(* then app.exec has not begun, and that exit is lost. The launcher ends   *)
(* only if it finds that there is no connection.                           *)
TargetFinished ==
    /\ LauncherFree
    /\ target = "exited"
    /\ mailbox
    /\ mailbox' = FALSE
    /\ requests' = {}
    /\ launcher' = IF ready THEN "gone" ELSE "up"
    /\ UNCHANGED <<clientVars, lock, responses, ready, stopRequested, batch, reload, pending,
                   nextId, targetVars>>

(* No debug connection in time: the target is killed and waited for.       *)
StartFails ==
    /\ LauncherFree
    /\ ~ready
    /\ target' = "exited"
    /\ mailbox' = FALSE
    /\ requests' = {}
    /\ launcher' = "gone"
    /\ UNCHANGED <<clientVars, lock, responses, ready, stopRequested, batch, reload, pending,
                   nextId, toTarget, toLauncher, executed, resets>>

(* The launcher is killed: its files stay.                                 *)
LauncherDies ==
    /\ launcher = "up"
    /\ launcher' = "gone"
    /\ UNCHANGED <<clientVars, fileVars, ready, stopRequested, batch, reload, pending, nextId,
                   targetVars>>

-----------------------------------------------------------------------------
(* The target: one message at a time, in the order of the connection.      *)

TargetServes ==
    /\ target = "running"
    /\ toTarget # <<>>
    /\ toTarget' = Tail(toTarget)
    /\ LET message == Head(toTarget) IN
       IF message.id = 0
         THEN /\ resets' = resets \cup {message.client}
              /\ UNCHANGED <<toLauncher, executed>>
         ELSE /\ executed' = [executed EXCEPT ![message.client] = @ + 1]
              /\ toLauncher' = Append(toLauncher, message)
              /\ UNCHANGED resets
    /\ UNCHANGED <<clientVars, fileVars, launcherVars, target>>

TargetExits ==
    /\ target = "running"
    /\ target' = "exited"
    /\ UNCHANGED <<clientVars, fileVars, launcherVars, toTarget, toLauncher, executed, resets>>

-----------------------------------------------------------------------------
ClientStep(c) ==
    \/ AcquireLock(c) \/ CannotLock(c)
    \/ Publish(c) \/ CannotPublish(c)
    \/ ReadResponse(c) \/ ResponseTimesOut(c)

LauncherStep ==
    \/ ListMailbox
    \/ \E c \in Clients : ProcessMailboxRequest(c)
    \/ FinishReload
    \/ TargetFinished

Next ==
    \/ \E c \in Clients : ClientStep(c)
    \/ LauncherStep
    \/ SetSessionReady
    \/ HandleAgentMessage
    \/ StartFails
    \/ LauncherDies
    \/ TargetServes
    \/ TargetExits

(* Once it is ready the launcher polls its mailbox and reaps its child; a  *)
(* connection that does not come times out; SIGKILL ends a target that was *)
(* asked to stop.                                                          *)
Fairness ==
    /\ WF_vars(ready /\ LauncherStep)
    /\ WF_vars(SetSessionReady \/ StartFails)
    /\ WF_vars(stopRequested /\ TargetExits)

Spec == Init /\ [][Next]_vars /\ Fairness

-----------------------------------------------------------------------------
(* The variables have their types: a file of the mailbox is of a known     *)
(* client, and an id was given to a request.                               *)
TypeOK ==
    /\ phase \in [Clients -> {"idle", "locked", "waiting", "returned", "refused", "gaveUp"}]
    /\ kind \in Mixes
    /\ answer \in [Clients -> Response \cup {NoResponse}]
    /\ after \in [Clients -> SUBSET Clients]
    /\ lock \in Clients \cup {None}
    /\ mailbox \in BOOLEAN
    /\ requests \subseteq Clients
    /\ responses \in [Clients -> Response \cup {NoResponse}]
    /\ launcher \in {"up", "gone"}
    /\ ready \in BOOLEAN
    /\ stopRequested \in BOOLEAN
    /\ batch \subseteq Clients
    /\ reload \in [client : Clients, at : {"reset", "answer"}] \cup [client : {None}, at : {"none"}]
    /\ pending \subseteq [id : 1..Cardinality(Clients), client : Clients]
    /\ nextId \in 1..(Cardinality(Clients) + 1)
    /\ target \in {"running", "exited"}
    /\ toTarget \in Seq(Message)
    /\ toLauncher \in Seq(Message)
    /\ executed \in [Clients -> Nat]
    /\ resets \subseteq Clients

(* A client is given the answer to its own request, whatever calls gave up *)
(* before it and however late their replies come.                          *)
AnswersOwnRequest ==
    \A c \in Clients :
        phase[c] = "returned" =>
            /\ answer[c].to = c
            /\ answer[c].what = "result" => kind[c] = "agent" /\ executed[c] > 0

(* A request that was turned away (no lock, no mailbox, session not ready) *)
(* is never carried out, now or later: it is safe to repeat.               *)
RefusedIsNotExecuted ==
    \A c \in Clients :
        (phase[c] = "refused" \/ answer[c].what = "not_ready") => executed[c] = 0

(* Whoever sees that a preview was reloaded talks to a service that has    *)
(* dropped the subscriptions and logs of the scene before.                 *)
ResetBeforeNextRequest ==
    \A c \in Clients : executed[c] > 0 => after[c] \subseteq resets

(* The target ended before the launcher was ready, and the launcher became *)
(* ready nevertheless: its connection was made in the same pass.           *)
OutlivesItsTarget == launcher = "up" /\ ready /\ target = "exited" /\ ~mailbox

(* A stop that was published ends the session, even before the session is  *)
(* ready and when its client did not wait; only a launcher that has lost   *)
(* the end of its target remains.                                          *)
StopEndsSession ==
    \A c \in Clients :
        (kind[c] = "stop" /\ c \in requests) ~> (launcher = "gone" \/ OutlivesItsTarget)

(* Clients, launcher and target together are a service that carries out a  *)
(* request at most once - although the poll timer and the directory        *)
(* watcher may both see its file -, and tells clients the truth: the files *)
(* and messages implement RequestService.                                  *)
Said(c) == IF phase[c] = "returned" THEN answer[c].what ELSE responses[c].what

Standing == [c \in Clients |->
    IF phase[c] = "idle" THEN "new"
    ELSE IF phase[c] = "refused" \/ Said(c) = "not_ready" THEN "refused"
    ELSE IF Said(c) \in {"none", "result"} THEN "open" ELSE "served"]

Verdict == [c \in Clients |->
    CASE phase[c] = "refused"  -> "refused"
      [] phase[c] = "gaveUp"   -> "unknown"
      [] phase[c] = "returned" -> IF Said(c) = "result" THEN "result" ELSE Standing[c]
      [] OTHER -> "none"]

Service == INSTANCE RequestService WITH standing <- Standing, verdict <- Verdict

ImplementsService == Service!Spec

=============================================================================
