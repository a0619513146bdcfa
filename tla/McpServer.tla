----------------------------- MODULE McpServer -----------------------------
(***************************************************************************)
(* The MCP server of tools/qmlagent/main.cpp while it is attached to a     *)
(* target: one event loop that reads tools/call lines, queues them, sends  *)
(* one request at a time over the debug connection and matches responses   *)
(* by id, with one timer. Some calls are workflows of several requests     *)
(* that subscribe to UI events for their own duration.                     *)
(*                                                                         *)
(* Handlers call each other, so the server is one record, a handler is an  *)
(* operator from a server to a server, and an action is one event of the   *)
(* loop. Calls that never touch the queue or the connection (status,       *)
(* tools/list, the launcher controls) are left out.                        *)
(***************************************************************************)
EXTENDS Naturals, Sequences, SequencesExt

CONSTANTS Calls,      \* the tools/call lines a client sends
          KindOf(_),
          None,       \* no call, no workflow
          MaxConnects \* bound: connections made

Kinds == {"command", "subscribe", "unsubscribe", "verify", "wait", "disconnect"}

(* "wait" stands for click-and-wait and long-press-and-wait, "verify" for  *)
(* click and key.                                                          *)
Workflows == {"verify", "wait"}

ASSUME CallsAssumption == None \notin Calls /\ \A c \in Calls : KindOf(c) \in Kinds
ASSUME MaxConnectsAssumption == MaxConnects \in Nat

VARIABLES
    server,   \* QmlAgentMcpServer, with the connection's two directions
    observed, \* the target has a UI subscription of this connection
    \* History.
    received, \* the calls read so far
    connects, \* the connections made so far
    troubled  \* a request of this connection timed out, failed in the target's
              \* GUI thread, or was an unsubscribe that was refused

vars == <<server, observed, received, connects, troubled>>

Phases == {"TargetQuery", "BeforeQuery", "Subscribe", "Input", "Wait", "AfterQuery",
           "Unsubscribe"}

Command  == [call : Calls, id : Nat]
Workflow == [call : Calls, phase : Phases, id : Nat, subscribedBefore : BOOLEAN,
             temporary : BOOLEAN, failing : BOOLEAN]
Request  == [id : Nat, method : {"command", "subscribe", "unsubscribe"}, call : Calls \cup {None}]
Response == [id : Nat, ok : BOOLEAN, call : Calls \cup {None}]
Answer   == [what : {"status", "gateway", "result", "error"}, from : Calls \cup {None}]

Server == [connection : {"none", "up", "lost"}, queue : Seq(Calls),
           current : Command \cup {None}, workflow : Workflow \cup {None},
           timer : BOOLEAN, lastId : Nat, uiSubscribed : BOOLEAN,
           inputClosed : BOOLEAN, quit : BOOLEAN,
           outbox : Seq(Request), inbox : Seq(Response),
           replies : [Calls -> Seq(Answer)], dropped : SUBSET Calls, wanted : BOOLEAN]

ASSUME NoneAssumption == None \notin Command /\ None \notin Workflow

Init ==
    /\ server = [connection   |-> "none", \* m_connection and m_client
                 queue        |-> <<>>,
                 current      |-> None,
                 workflow     |-> None,
                 timer        |-> FALSE,  \* m_commandTimeout is running
                 lastId       |-> 0,
                 uiSubscribed |-> FALSE,
                 inputClosed  |-> FALSE,
                 quit         |-> FALSE,
                 outbox       |-> <<>>,   \* requests on their way to the target
                 inbox        |-> <<>>,   \* responses on their way back
                 replies      |-> [c \in Calls |-> <<>>],
                 dropped      |-> {},     \* history: calls a disconnect has cleared
                 wanted       |-> FALSE]  \* history: the client was told it is subscribed
    /\ observed = FALSE
    /\ received = {}
    /\ connects = 0
    /\ troubled = FALSE

-----------------------------------------------------------------------------
(* The handlers.                                                           *)

(* An answer, and the call whose response it was made from.                *)
Reply(s, call, what, from) ==
    [s EXCEPT !.replies[call] = Append(@, [what |-> what, from |-> from])]

Busy(s) == s.current # None \/ s.workflow # None

Idle(s) == ~Busy(s) /\ s.queue = <<>>

(* Mutant: a running workflow does not keep the server alive.              *)
QuitBetweenCalls(s) ==
    [s EXCEPT !.quit = @ \/ (s.inputClosed /\ s.current = None /\ s.queue = <<>>)]

QuitIfInputClosedAndIdle(s) ==
    [s EXCEPT !.quit = @ \/ (s.inputClosed /\ Idle(s))]

DisconnectTarget(s) ==
    [s EXCEPT !.connection = "none", !.current = None, !.workflow = None, !.timer = FALSE,
              !.uiSubscribed = FALSE, !.wanted = FALSE, !.outbox = <<>>, !.inbox = <<>>,
              !.queue = <<>>, !.dropped = @ \cup ToSet(s.queue)]

(* A dead connection swallows what is written to it.                       *)
SendMessage(s, call, method) ==
    [s EXCEPT !.lastId = @ + 1,
              !.outbox = IF s.connection # "up" THEN @
                         ELSE Append(@, [id |-> s.lastId + 1, method |-> method, call |-> call])]

StartCommand(s, call) ==
    [SendMessage(s, call, KindOf(call)) EXCEPT
        !.current = [call |-> call, id |-> s.lastId + 1],
        !.timer = TRUE]

MethodOf(phase) == CASE phase = "Subscribe"   -> "subscribe"
                     [] phase = "Unsubscribe" -> "unsubscribe"
                     [] OTHER                 -> "command"

(* Mutant: only the first request of a workflow starts the timer.          *)
SendWorkflowUntimed(s, phase) ==
    [SendMessage(s, s.workflow.call, MethodOf(phase)) EXCEPT
        !.workflow.phase = phase,
        !.workflow.id = s.lastId + 1,
        !.timer = (phase = "TargetQuery")]

SendWorkflowRequest(s, phase) ==
    [SendMessage(s, s.workflow.call, MethodOf(phase)) EXCEPT
        !.workflow.phase = phase,
        !.workflow.id = s.lastId + 1,
        !.timer = TRUE]

StartWorkflow(s, call) ==
    SendWorkflowRequest(
        [s EXCEPT !.workflow = [call             |-> call,
                                phase            |-> "TargetQuery",
                                id               |-> 0,
                                subscribedBefore |-> s.uiSubscribed,
                                temporary        |-> FALSE,
                                failing          |-> FALSE]],
        "TargetQuery")

(* Mutant: the next call is sent although one is outstanding.              *)
DispatchWhileBusy(s) ==
    LET call == Head(s.queue)
        rest == [s EXCEPT !.queue = Tail(@)]
    IN CASE s.queue = <<>>              -> QuitIfInputClosedAndIdle(s)
         [] OTHER -> IF KindOf(call) \in Workflows THEN StartWorkflow(rest, call)
                                                   ELSE StartCommand(rest, call)

DispatchNextTargetCommand(s) ==
    LET call == Head(s.queue)
        rest == [s EXCEPT !.queue = Tail(@)]
    IN CASE Busy(s)                    -> s
         [] Idle(s)                    -> QuitIfInputClosedAndIdle(s)
         [] OTHER ->
            CASE KindOf(call) = "disconnect" ->
                    QuitIfInputClosedAndIdle(Reply(DisconnectTarget(rest), call, "status", call))
              [] KindOf(call) \in Workflows  -> StartWorkflow(rest, call)
              [] OTHER                       -> StartCommand(rest, call)

(* finishWorkflow and finishWorkflowWithErrorPayload.                      *)
FinishWorkflow(s, what, from) ==
    DispatchNextTargetCommand(
        Reply([s EXCEPT !.workflow = None], s.workflow.call, what, from))

(* Mutant: a workflow that fails leaves its temporary subscription behind. *)
FinishWithErrorAtOnce(s, cleanup) == FinishWorkflow(s, "error", s.workflow.call)

FinishWorkflowWithError(s, cleanup) ==
    IF cleanup /\ s.workflow.temporary /\ ~s.workflow.failing /\ s.workflow.phase # "Unsubscribe"
    THEN SendWorkflowRequest([s EXCEPT !.workflow.failing = TRUE], "Unsubscribe")
    ELSE FinishWorkflow(s, "error", s.workflow.call)

(* The phase that follows w's, or "Finished".                              *)
PhaseAfter(w) ==
    LET input  == IF w.subscribedBefore THEN "Input" ELSE "Subscribe"
        finish == IF w.subscribedBefore THEN "Finished" ELSE "Unsubscribe"
        waits  == KindOf(w.call) = "wait"
    IN CASE w.phase = "TargetQuery"           -> IF waits THEN input ELSE "BeforeQuery"
         [] w.phase = "BeforeQuery"           -> input
         [] w.phase = "Subscribe"             -> "Input"
         [] w.phase = "Input"                 -> IF waits THEN "Wait" ELSE "AfterQuery"
         [] w.phase \in {"Wait", "AfterQuery"} -> finish
         [] w.phase = "Unsubscribe"           -> "Finished"

AdvanceWorkflow(s, response) ==
    LET noted == [s EXCEPT
            !.uiSubscribed = s.workflow.phase = "Subscribe"
                                \/ (@ /\ s.workflow.phase # "Unsubscribe"),
            !.workflow.temporary = @ \/ s.workflow.phase = "Subscribe"]
        next == PhaseAfter(s.workflow)
    IN IF next = "Finished" THEN FinishWorkflow(noted, "result", response.call)
                            ELSE SendWorkflowRequest(noted, next)

HandleWorkflowResponse(s, response) ==
    CASE s.workflow.failing ->
            FinishWorkflow([s EXCEPT !.uiSubscribed = @ /\ ~response.ok], "error", response.call)
      [] ~s.workflow.failing /\ ~response.ok -> FinishWorkflowWithError(s, TRUE)
      [] ~s.workflow.failing /\ response.ok  -> AdvanceWorkflow(s, response)

SubscriptionAfter(call, response, before) ==
    IF response.ok /\ KindOf(call) \in {"subscribe", "unsubscribe"}
    THEN KindOf(call) = "subscribe"
    ELSE before

AnswerCurrent(s, response) ==
    DispatchNextTargetCommand(
        Reply([s EXCEPT !.uiSubscribed = SubscriptionAfter(s.current.call, response, @),
                        !.wanted = SubscriptionAfter(s.current.call, response, @),
                        !.current = None],
              s.current.call, "result", response.call))

(* Mutant: a response is taken for the answer to whatever is outstanding.  *)
HandleAnyMessage(s, response) ==
    LET stopped == [s EXCEPT !.timer = FALSE] IN
    CASE s.workflow # None -> HandleWorkflowResponse(stopped, response)
      [] s.current # None  -> AnswerCurrent(stopped, response)
      [] OTHER             -> s

HandleTargetMessage(s, response) ==
    LET stopped == [s EXCEPT !.timer = FALSE] IN
    CASE s.workflow # None /\ s.workflow.id = response.id ->
            HandleWorkflowResponse(stopped, response)
      [] s.current # None /\ s.current.id = response.id   -> AnswerCurrent(stopped, response)
      [] OTHER                                            -> s

TargetCommandTimedOut(s) ==
    CASE s.workflow # None -> FinishWorkflowWithError(s, FALSE)
      [] s.current # None  -> DispatchNextTargetCommand(
                                Reply([s EXCEPT !.current = None],
                                      s.current.call, "error", s.current.call))
      [] OTHER             -> s

(* The connection's disconnected signal. The queue and the timer stay.     *)
AnswerOutstanding(s) ==
    CASE s.workflow # None -> Reply([s EXCEPT !.workflow = None],
                                    s.workflow.call, "error", s.workflow.call)
      [] s.current # None  -> Reply([s EXCEPT !.current = None],
                                    s.current.call, "error", s.current.call)
      [] OTHER             -> s

-----------------------------------------------------------------------------
(* The events of the loop.                                                 *)

Listening == ~server.quit /\ ~server.inputClosed

(* Mutant: a disconnect does not wait for the outstanding call.            *)
DisconnectsAtOnce(call) ==
    /\ KindOf(call) = "disconnect"
    /\ server' = Reply(DisconnectTarget(server), call, "status", call)
    /\ observed' = FALSE

(* qmlagent_disconnect: at once when nothing is outstanding.               *)
DisconnectCalled(call) ==
    /\ KindOf(call) = "disconnect"
    /\ IF Idle(server)
       THEN /\ server' = Reply(DisconnectTarget(server), call, "status", call)
            /\ observed' = FALSE
       ELSE /\ server' = DispatchNextTargetCommand([server EXCEPT !.queue = Append(@, call)])
            /\ UNCHANGED observed

(* Without a target the call goes through a launcher, which answers while  *)
(* the loop is blocked.                                                    *)
RoutedViaLauncher(call) ==
    /\ KindOf(call) # "disconnect"
    /\ server.connection # "up"
    /\ server' = Reply(server, call, "gateway", call)
    /\ UNCHANGED observed

Enqueued(call) ==
    /\ KindOf(call) # "disconnect"
    /\ server.connection = "up"
    /\ server' = DispatchNextTargetCommand([server EXCEPT !.queue = Append(@, call)])
    /\ UNCHANGED observed

ToolCall(call) ==
    /\ Listening
    /\ call \notin received
    /\ received' = received \cup {call}
    /\ \/ DisconnectCalled(call)
       \/ RoutedViaLauncher(call)
       \/ Enqueued(call)
    /\ UNCHANGED <<connects, troubled>>

(* qmlagent_connect_tcp and _local_socket: refused while calls are         *)
(* outstanding. Two requests are sent outside the queue; the server waits  *)
(* a second for the answer to the first and not at all for the second's.   *)
Connect ==
    /\ Listening
    /\ Idle(server)
    /\ connects < MaxConnects
    /\ connects' = connects + 1
    /\ \/ server' = DisconnectTarget(server)
       \/ LET info   == SendMessage([DisconnectTarget(server) EXCEPT !.connection = "up"],
                                    None, "command")
              enable == SendMessage(info, None, "command")
          IN \/ server' = enable
             \/ server' = [enable EXCEPT !.outbox = Tail(@)]
    /\ observed' = FALSE
    /\ troubled' = FALSE
    /\ UNCHANGED received

TargetMessage ==
    /\ ~server.quit
    /\ server.inbox # <<>>
    /\ server' = HandleTargetMessage([server EXCEPT !.inbox = Tail(@)], Head(server.inbox))
    /\ observed' = (observed /\ server'.connection = "up")
    /\ UNCHANGED <<received, connects, troubled>>

TimerFires ==
    /\ ~server.quit
    /\ server.timer
    /\ server' = TargetCommandTimedOut([server EXCEPT !.timer = FALSE])
    /\ observed' = (observed /\ server'.connection = "up")
    /\ troubled' = TRUE
    /\ UNCHANGED <<received, connects>>

Disconnected ==
    /\ ~server.quit
    /\ server.connection = "up"
    /\ server' = [AnswerOutstanding(server) EXCEPT !.connection = "lost",
                     !.uiSubscribed = FALSE, !.wanted = FALSE, !.outbox = <<>>, !.inbox = <<>>]
    /\ observed' = FALSE
    /\ UNCHANGED <<received, connects, troubled>>

InputClosed ==
    /\ Listening
    /\ server' = QuitIfInputClosedAndIdle([server EXCEPT !.inputClosed = TRUE])
    /\ UNCHANGED <<observed, received, connects, troubled>>

(* notifications/exit.                                                     *)
Exit ==
    /\ Listening
    /\ server' = [server EXCEPT !.quit = TRUE]
    /\ UNCHANGED <<observed, received, connects, troubled>>

(* The target answers requests in their order: it executes one, refuses it *)
(* with a JSON-RPC error, or reports in an ordinary result that its GUI    *)
(* thread did not take it.                                                 *)
TargetAnswers(ok, executed) ==
    /\ server.outbox # <<>>
    /\ executed => ok
    /\ LET request == Head(server.outbox) IN
       /\ server' = [server EXCEPT
             !.outbox = Tail(@),
             !.inbox = Append(@, [id |-> request.id, ok |-> ok, call |-> request.call])]
       /\ observed' = CASE executed /\ request.method = "subscribe"   -> TRUE
                        [] executed /\ request.method = "unsubscribe" -> FALSE
                        [] OTHER -> observed
    /\ troubled' = (troubled \/ (ok /\ ~executed)
                             \/ (~ok /\ Head(server.outbox).method = "unsubscribe"))
    /\ UNCHANGED <<received, connects>>

Next ==
    \/ \E call \in Calls : ToolCall(call)
    \/ Connect
    \/ TargetMessage
    \/ TimerFires
    \/ Disconnected
    \/ InputClosed
    \/ Exit
    \/ \E ok, executed \in BOOLEAN : TargetAnswers(ok, executed)

(* A running timer fires. The target may stay silent for ever.             *)
Fairness == WF_vars(TimerFires)

Spec == Init /\ [][Next]_vars /\ Fairness

-----------------------------------------------------------------------------
Outstanding(call) == call \in received /\ server.replies[call] = <<>>

(* The server works on one thing at a time: a command of its own right or  *)
(* a workflow.                                                             *)
TypeOK ==
    /\ server \in Server
    /\ server.current = None \/ server.workflow = None
    /\ observed \in BOOLEAN
    /\ received \subseteq Calls
    /\ connects \in 0..MaxConnects
    /\ troubled \in BOOLEAN

(* No call is answered twice, and none is answered with the response to    *)
(* another call's request, however late responses arrive.                  *)
OwnAnswerOnce ==
    \A call \in Calls :
        /\ Len(server.replies[call]) <= 1
        /\ \A i \in DOMAIN server.replies[call] : server.replies[call][i].from = call

(* A call that has not been answered is queued or being worked on, or the  *)
(* client itself has disconnected the target in front of it.               *)
NoCallForgotten ==
    \A call \in Calls : Outstanding(call) =>
        \/ call \in ToSet(server.queue) \cup server.dropped
        \/ server.current # None /\ server.current.call = call
        \/ server.workflow # None /\ server.workflow.call = call

(* Between calls the target has a UI subscription just when the client was *)
(* told that its own subscribe succeeded, and the server knows: what a     *)
(* workflow subscribes to ends with it, also when a step fails. (Not so    *)
(* once a request has timed out, the target's GUI thread has failed, or    *)
(* the target has refused to unsubscribe.)                                 *)
TemporarySubscriptionEnds ==
    server.connection = "up" /\ ~Busy(server) /\ ~troubled =>
        observed = server.wanted /\ server.uiSubscribed = server.wanted

(* At the end of input the server stays until the last call is answered.   *)
QuitsAfterLastAnswer ==
    server.quit /\ server.inputClosed =>
        \A call \in Calls : Outstanding(call) => call \in server.dropped

(* Each call is answered in the end, if the target stays connected.        *)
EveryCallAnswered ==
    \A call \in Calls :
        Outstanding(call) ~>
            \/ ~Outstanding(call) \/ call \in server.dropped
            \/ server.connection = "lost" \/ server.quit

(* After the end of input the server quits, if the target stays connected. *)
QuitsAtEndOfInput ==
    server.inputClosed ~> server.quit \/ server.connection = "lost"

=============================================================================
