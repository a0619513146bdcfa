--------------------------- MODULE McpServerProofs ---------------------------
(***************************************************************************)
(* Proofs about McpServer for every set of calls, of whatever kinds, and   *)
(* any number of connections. The handlers are operators from a server to  *)
(* a server and call each other; each is shown to keep a server Sound,     *)
(* with the call it holds in its hands as a parameter.                     *)
(***************************************************************************)
EXTENDS McpServer, TLAPS

(* The calls in hand are those of H: taken off the queue, or just read,    *)
(* and neither started nor answered yet. Between events there are none.    *)

(* A response with the id of what the server works on answers its request. *)
Owned(s, work) ==
    /\ work.id <= s.lastId
    /\ \A i \in 1..Len(s.outbox) : s.outbox[i].id = work.id => s.outbox[i].call = work.call
    /\ \A i \in 1..Len(s.inbox) : s.inbox[i].id = work.id => s.inbox[i].call = work.call

(* The call is read, not answered, and at no second place.                 *)
Once(s, R, H, call) ==
    /\ call \in R
    /\ s.replies[call] = <<>>
    /\ call \notin H
    /\ \A i \in 1..Len(s.queue) : s.queue[i] # call

Held(s, call) ==
    \/ \E i \in 1..Len(s.queue) : s.queue[i] = call
    \/ call \in s.dropped
    \/ s.current # None /\ s.current.call = call
    \/ s.workflow # None /\ s.workflow.call = call

OneThing(s, R, H) ==
    /\ s.current = None \/ s.workflow = None
    /\ s.current # None => Once(s, R, H, s.current.call) /\ Owned(s, s.current)
    /\ s.workflow # None => Once(s, R, H, s.workflow.call) /\ Owned(s, s.workflow)

Queued(s, R, H) ==
    /\ \A i \in 1..Len(s.queue) :
          s.queue[i] \in R /\ s.replies[s.queue[i]] = <<>> /\ s.queue[i] \notin H
    /\ \A i, j \in 1..Len(s.queue) : s.queue[i] = s.queue[j] => i = j

Numbered(s) ==
    /\ \A i \in 1..Len(s.outbox) : s.outbox[i].id \in 1..s.lastId
    /\ \A i \in 1..Len(s.inbox) : s.inbox[i].id \in 1..s.lastId

Answered(s, R, H) ==
    \A call \in Calls :
        /\ Len(s.replies[call]) <= 1
        /\ \A i \in 1..Len(s.replies[call]) : s.replies[call][i].from = call
        /\ call \notin R => s.replies[call] = <<>>
        /\ call \in R /\ s.replies[call] = <<>> => call \in H \/ Held(s, call)
        /\ call \in H => call \in R /\ s.replies[call] = <<>>

Sound(s, R, H) ==
    /\ s \in Server
    /\ OneThing(s, R, H)
    /\ Queued(s, R, H)
    /\ Numbered(s)
    /\ Answered(s, R, H)
    /\ s.quit /\ s.inputClosed => Idle(s)

IInv ==
    /\ Sound(server, received, {})
    /\ observed \in BOOLEAN
    /\ received \subseteq Calls
    /\ connects \in 0..MaxConnects
    /\ troubled \in BOOLEAN

-----------------------------------------------------------------------------
(* What the two record-building helpers leave as it was.                   *)
LEMMA SendMessageFields ==
    ASSUME NEW s \in Server, NEW call \in Calls \cup {None},
           NEW method \in {"command", "subscribe", "unsubscribe"}
    PROVE  LET t == SendMessage(s, call, method) IN
           /\ t \in Server
           /\ t.lastId = s.lastId + 1
           /\ t.outbox = IF s.connection # "up" THEN s.outbox
                         ELSE Append(s.outbox, [id |-> s.lastId + 1, method |-> method, call |-> call])
           /\ t.connection = s.connection /\ t.queue = s.queue /\ t.current = s.current
           /\ t.workflow = s.workflow /\ t.timer = s.timer /\ t.uiSubscribed = s.uiSubscribed
           /\ t.inputClosed = s.inputClosed /\ t.quit = s.quit /\ t.inbox = s.inbox
           /\ t.replies = s.replies /\ t.dropped = s.dropped /\ t.wanted = s.wanted
<1> DEFINE m == [id |-> s.lastId + 1, method |-> method, call |-> call]
<1>1. m \in Request /\ s.lastId + 1 \in Nat
  BY DEF Server, Request
<1>2. s.outbox \in Seq(Request) /\ Append(s.outbox, m) \in Seq(Request)
  BY <1>1 DEF Server
<1> HIDE DEF m
<1>3. SendMessage(s, call, method) =
        [s EXCEPT !.lastId = s.lastId + 1,
                  !.outbox = IF s.connection # "up" THEN s.outbox ELSE Append(s.outbox, m)]
  BY DEF Server, SendMessage, m
<1> QED
  BY <1>1, <1>2, <1>3 DEF Server, m

(* An answer changes the answers of its call and nothing else.             *)
LEMMA ReplyFields ==
    ASSUME NEW s \in Server, NEW call \in Calls,
           NEW what \in {"status", "gateway", "result", "error"}, NEW from \in Calls \cup {None}
    PROVE  LET t == Reply(s, call, what, from) IN
           /\ t \in Server
           /\ t.replies[call] = Append(s.replies[call], [what |-> what, from |-> from])
           /\ \A c \in Calls \ {call} : t.replies[c] = s.replies[c]
           /\ t.lastId = s.lastId /\ t.outbox = s.outbox
           /\ t.connection = s.connection /\ t.queue = s.queue /\ t.current = s.current
           /\ t.workflow = s.workflow /\ t.timer = s.timer /\ t.uiSubscribed = s.uiSubscribed
           /\ t.inputClosed = s.inputClosed /\ t.quit = s.quit /\ t.inbox = s.inbox
           /\ t.dropped = s.dropped /\ t.wanted = s.wanted
<1> DEFINE a == [what |-> what, from |-> from]
<1>1. a \in Answer
  BY DEF Answer
<1>2. s.replies[call] \in Seq(Answer) /\ Append(s.replies[call], a) \in Seq(Answer)
  BY <1>1 DEF Server
<1> HIDE DEF a
<1>3. Reply(s, call, what, from) =
        [s EXCEPT !.replies = [s.replies EXCEPT ![call] = Append(s.replies[call], a)]]
  BY DEF Server, Reply, a
<1>4. [s.replies EXCEPT ![call] = Append(s.replies[call], a)] \in [Calls -> Seq(Answer)]
  BY <1>2 DEF Server
<1> QED
  BY <1>2, <1>3, <1>4 DEF Server, a

(* Soundness does not look at the timer or at the subscription flags, nor  *)
(* at more of a workflow than its call and the id it waits for.            *)
LEMMA SameSound ==
    ASSUME NEW s \in Server, NEW t \in Server, NEW R, NEW H, Sound(s, R, H),
           t.queue = s.queue, t.current = s.current, t.lastId = s.lastId,
           t.inputClosed = s.inputClosed, t.quit = s.quit, t.outbox = s.outbox,
           t.inbox = s.inbox, t.replies = s.replies, t.dropped = s.dropped,
           t.workflow = None <=> s.workflow = None,
           s.workflow # None => t.workflow.call = s.workflow.call /\ t.workflow.id = s.workflow.id
    PROVE  Sound(t, R, H)
BY SMTT(30) DEF Sound, OneThing, Once, Owned, Queued, Numbered, Answered, Held, Idle, Busy

(* Taking the first call off the queue.                                    *)
LEMMA TakeSound ==
    ASSUME NEW s \in Server, NEW R, Sound(s, R, {}), ~s.quit, s.queue # <<>>
    PROVE  LET t == [s EXCEPT !.queue = Tail(@)] IN
           /\ Sound(t, R, {Head(s.queue)}) /\ t \in Server
           /\ Head(s.queue) \in Calls
           /\ t.current = s.current /\ t.workflow = s.workflow /\ ~t.quit
<1> DEFINE t == [s EXCEPT !.queue = Tail(@)]
           h == Head(s.queue)
<1>1. /\ s.queue \in Seq(Calls) /\ Len(s.queue) \in Nat /\ 1 \in 1..Len(s.queue)
      /\ h = s.queue[1] /\ h \in Calls
      /\ Tail(s.queue) \in Seq(Calls) /\ Len(Tail(s.queue)) = Len(s.queue) - 1
      /\ \A i \in 1..(Len(s.queue) - 1) : Tail(s.queue)[i] = s.queue[i + 1]
  BY DEF Server
<1>2. /\ t \in Server /\ t.queue = Tail(s.queue)
      /\ t.current = s.current /\ t.workflow = s.workflow /\ t.lastId = s.lastId
      /\ t.quit = s.quit /\ t.outbox = s.outbox /\ t.inbox = s.inbox
      /\ t.replies = s.replies /\ t.dropped = s.dropped
  BY <1>1 DEF Server
<1> HIDE DEF t
<1>3. \A i \in 1..Len(t.queue) : t.queue[i] = s.queue[i + 1] /\ i + 1 \in 1..Len(s.queue)
  BY <1>1, <1>2
<1>4. \A i \in 1..Len(t.queue) : t.queue[i] # h
  BY <1>1, <1>3 DEF Sound, Queued
<1>5. OneThing(t, R, {h})
  BY <1>1, <1>2, <1>3 DEF Sound, OneThing, Once, Owned
<1>6. Queued(t, R, {h})
  BY <1>1, <1>2, <1>3, <1>4, SMTT(30) DEF Sound, Queued
<1>7. Answered(t, R, {h})
  <2>1. ASSUME NEW c \in Calls, Held(s, c)
        PROVE  c = h \/ Held(t, c)
    <3>1. CASE \E i \in 1..Len(s.queue) : s.queue[i] = c
      <4>1. PICK i \in 1..Len(s.queue) : s.queue[i] = c
        BY <3>1
      <4>2. CASE i = 1
        BY <1>1, <4>1, <4>2
      <4>3. CASE i # 1
        <5>1. i - 1 \in 1..Len(t.queue) /\ t.queue[i - 1] = c
          BY <1>1, <1>2, <4>1, <4>3
        <5> QED
          BY <5>1 DEF Held
      <4> QED
        BY <4>2, <4>3
    <3> QED
      BY <1>2, <2>1, <3>1 DEF Held
  <2> QED
    BY <1>1, <1>2, <2>1 DEF Sound, Answered, Queued
<1> QED
  BY <1>1, <1>2, <1>5, <1>6, <1>7 DEF Sound, Numbered, t

(* Answering the call in hand.                                             *)
LEMMA ReplySound ==
    ASSUME NEW s \in Server, NEW R, NEW h \in Calls, Sound(s, R, {h}), ~s.quit,
           NEW what \in {"status", "gateway", "result", "error"}
    PROVE  LET t == Reply(s, h, what, h) IN
           /\ t \in Server /\ Sound(t, R, {})
           /\ t.current = s.current /\ t.workflow = s.workflow /\ ~t.quit
<1> DEFINE t == Reply(s, h, what, h)
<1>1. /\ t \in Server
      /\ t.replies[h] = Append(s.replies[h], [what |-> what, from |-> h])
      /\ \A c \in Calls \ {h} : t.replies[c] = s.replies[c]
      /\ t.lastId = s.lastId /\ t.outbox = s.outbox /\ t.queue = s.queue
      /\ t.current = s.current /\ t.workflow = s.workflow /\ t.inputClosed = s.inputClosed
      /\ t.quit = s.quit /\ t.inbox = s.inbox /\ t.dropped = s.dropped
  BY ReplyFields, SMTT(30)
<1> HIDE DEF t
<1>2. h \in R /\ s.replies[h] = <<>>
  BY DEF Sound, Answered
<1>3. Len(t.replies[h]) = 1 /\ t.replies[h][1].from = h /\ t.replies[h] # <<>>
  BY <1>1, <1>2
<1>4. /\ s.current # None => s.current.call # h /\ s.current.call \in Calls
      /\ s.workflow # None => s.workflow.call # h /\ s.workflow.call \in Calls
  BY DEF Sound, OneThing, Once, Server, Command, Workflow
<1>5. OneThing(t, R, {})
  BY <1>1, <1>4 DEF Sound, OneThing, Once, Owned
<1>6. Queued(t, R, {})
  <2>1. \A i \in 1..Len(s.queue) : s.queue[i] \in Calls /\ s.queue[i] # h
    BY DEF Sound, Queued, Server
  <2> QED
    BY <1>1, <2>1 DEF Sound, Queued
<1>7. Answered(t, R, {})
  <2> SUFFICES ASSUME NEW c \in Calls
               PROVE  /\ Len(t.replies[c]) <= 1
                      /\ \A i \in 1..Len(t.replies[c]) : t.replies[c][i].from = c
                      /\ c \notin R => t.replies[c] = <<>>
                      /\ c \in R /\ t.replies[c] = <<>> => Held(t, c)
    BY DEF Answered
  <2>1. CASE c = h
    <3>1. /\ Len(t.replies[c]) = 1 /\ t.replies[c][1].from = c /\ t.replies[c] # <<>>
          /\ c \in R
      BY <1>2, <1>3, <2>1
    <3>2. \A i \in 1..1 : i = 1
      OBVIOUS
    <3> QED
      BY <3>1, <3>2
  <2>2. CASE c # h
    BY <1>1, <2>2 DEF Sound, Answered, Held
  <2> QED
    BY <2>1, <2>2
<1> QED
  BY <1>1, <1>5, <1>6, <1>7 DEF Sound, Numbered, t

(* Queuing the call in hand.                                               *)
LEMMA QueueSound ==
    ASSUME NEW s \in Server, NEW R, NEW h \in Calls, Sound(s, R, {h}), ~s.quit
    PROVE  LET t == [s EXCEPT !.queue = Append(@, h)] IN
           t \in Server /\ Sound(t, R, {}) /\ ~t.quit
<1> DEFINE t == [s EXCEPT !.queue = Append(@, h)]
<1>1. /\ s.queue \in Seq(Calls) /\ Len(s.queue) \in Nat
      /\ Append(s.queue, h) \in Seq(Calls) /\ Len(Append(s.queue, h)) = Len(s.queue) + 1
      /\ \A i \in 1..Len(s.queue) : Append(s.queue, h)[i] = s.queue[i]
      /\ Append(s.queue, h)[Len(s.queue) + 1] = h
  BY DEF Server
<1>2. /\ t \in Server /\ t.queue = Append(s.queue, h)
      /\ t.current = s.current /\ t.workflow = s.workflow /\ t.lastId = s.lastId
      /\ t.quit = s.quit /\ t.outbox = s.outbox /\ t.inbox = s.inbox
      /\ t.replies = s.replies /\ t.dropped = s.dropped
  BY <1>1 DEF Server
<1> HIDE DEF t
<1>3. OneThing(t, R, {})
  BY <1>1, <1>2 DEF Sound, OneThing, Once, Owned
<1>4. Queued(t, R, {})
  BY <1>1, <1>2 DEF Sound, Queued, Answered
<1>5. Answered(t, R, {})
  BY <1>1, <1>2 DEF Sound, Answered, Held
<1> QED
  BY <1>2, <1>3, <1>4, <1>5 DEF Sound, Numbered, t

(* Sending a request. Its id is higher than those of all messages before.  *)
LEMMA SendSound ==
    ASSUME NEW s \in Server, NEW R, NEW H, Sound(s, R, H),
           NEW call \in Calls \cup {None}, NEW method \in {"command", "subscribe", "unsubscribe"}
    PROVE  LET t == SendMessage(s, call, method) IN
           /\ t \in Server /\ Sound(t, R, H)
           /\ \A work : work.call = call /\ work.id = t.lastId => Owned(t, work)
<1> DEFINE t == SendMessage(s, call, method)
           m == [id |-> s.lastId + 1, method |-> method, call |-> call]
<1>1. /\ t \in Server
      /\ t.lastId = s.lastId + 1
      /\ t.outbox = IF s.connection # "up" THEN s.outbox ELSE Append(s.outbox, m)
      /\ t.queue = s.queue /\ t.current = s.current /\ t.workflow = s.workflow
      /\ t.inputClosed = s.inputClosed /\ t.quit = s.quit /\ t.inbox = s.inbox
      /\ t.replies = s.replies /\ t.dropped = s.dropped
  BY SendMessageFields
<1>2. /\ m \in Request /\ m.id = s.lastId + 1 /\ m.call = call /\ s.lastId \in Nat
      /\ s.outbox \in Seq(Request) /\ Len(s.outbox) \in Nat
  BY DEF Request, Server
<1> HIDE DEF t, m
<1>3. \A i \in 1..Len(t.outbox) :
         \/ i \in 1..Len(s.outbox) /\ t.outbox[i] = s.outbox[i]
         \/ t.outbox[i] = m
  BY <1>1, <1>2
<1>4. Numbered(t)
  BY <1>1, <1>2, <1>3 DEF Sound, Numbered
<1>5. ASSUME NEW work, work.id \in Nat, Owned(s, work)
      PROVE  Owned(t, work)
  BY <1>1, <1>2, <1>3, <1>5 DEF Owned
<1>6. OneThing(t, R, H)
  <2>1. /\ s.current # None => s.current.id \in Nat
        /\ s.workflow # None => s.workflow.id \in Nat
    BY DEF Server, Command, Workflow
  <2> QED
    BY <1>1, <1>5, <2>1 DEF Sound, OneThing, Once
<1>7. Queued(t, R, H) /\ Answered(t, R, H) /\ (t.quit /\ t.inputClosed => Idle(t))
  BY <1>1 DEF Sound, Queued, Answered, Held, Idle, Busy
<1>8. ASSUME NEW work, work.call = call, work.id = t.lastId
      PROVE  Owned(t, work)
  <2>1. \A i \in 1..Len(s.outbox) : s.outbox[i].id \in 1..s.lastId
    BY DEF Sound, Numbered
  <2>2. \A i \in 1..Len(s.inbox) : s.inbox[i].id \in 1..s.lastId
    BY DEF Sound, Numbered
  <2> QED
    BY <1>1, <1>2, <1>3, <1>8, <2>1, <2>2 DEF Owned
<1> QED
  BY <1>1, <1>4, <1>6, <1>7, <1>8 DEF Sound, t

(* The next request of the workflow.                                       *)
LEMMA SendWorkflowSound ==
    ASSUME NEW s \in Server, NEW R, Sound(s, R, {}), ~s.quit, s.workflow # None,
           NEW phase \in Phases
    PROVE  LET t == SendWorkflowRequest(s, phase) IN t \in Server /\ Sound(t, R, {})
<1> DEFINE u == SendMessage(s, s.workflow.call, MethodOf(phase))
           t == SendWorkflowRequest(s, phase)
<1>1. s.workflow \in Workflow /\ s.workflow.call \in Calls
  BY DEF Server, Workflow
<1>2. MethodOf(phase) \in {"command", "subscribe", "unsubscribe"}
  BY DEF MethodOf
<1>3. /\ u \in Server /\ Sound(u, R, {})
      /\ \A work : work.call = s.workflow.call /\ work.id = u.lastId => Owned(u, work)
  BY <1>1, <1>2, SendSound
<1>4. /\ u.lastId = s.lastId + 1 /\ u.workflow = s.workflow /\ u.quit = s.quit
      /\ s.lastId \in Nat /\ s.lastId + 1 \in Nat
  <2>1. u.lastId = s.lastId + 1 /\ u.workflow = s.workflow /\ u.quit = s.quit
    BY <1>1, <1>2, SendMessageFields
  <2> QED
    BY <2>1 DEF Server
<1>5. t = [u EXCEPT !.workflow.phase = phase, !.workflow.id = s.lastId + 1, !.timer = TRUE]
  BY DEF SendWorkflowRequest
<1> HIDE DEF u, t
<1> DEFINE w == [s.workflow EXCEPT !.phase = phase, !.id = s.lastId + 1]
<1>6. /\ w \in Workflow /\ w.call = s.workflow.call /\ w.id = s.lastId + 1
      /\ w # None
  BY <1>1, <1>4, NoneAssumption DEF Workflow
<1>7. t = [u EXCEPT !.workflow = w, !.timer = TRUE]
  BY <1>1, <1>3, <1>4, <1>5 DEF Server, Workflow
<1> HIDE DEF w
<1>8. /\ t \in Server /\ t.workflow = w
      /\ t.queue = u.queue /\ t.current = u.current /\ t.lastId = u.lastId
      /\ t.inputClosed = u.inputClosed /\ t.quit = u.quit /\ t.outbox = u.outbox
      /\ t.inbox = u.inbox /\ t.replies = u.replies /\ t.dropped = u.dropped
  BY <1>3, <1>6, <1>7 DEF Server
<1>9. Owned(u, w)
  BY <1>3, <1>4, <1>6
<1>10. OneThing(t, R, {})
  BY <1>3, <1>4, <1>6, <1>8, <1>9 DEF Sound, OneThing, Once, Owned
<1>11. Queued(t, R, {}) /\ Numbered(t) /\ Answered(t, R, {}) /\ ~t.quit
  BY <1>3, <1>4, <1>6, <1>8 DEF Sound, Queued, Numbered, Answered, Held
<1> QED
  BY <1>8, <1>10, <1>11 DEF Sound, t

(* Starting the call in hand, as a command or as a workflow.               *)
LEMMA StartCommandSound ==
    ASSUME NEW s \in Server, NEW R, NEW h \in Calls, Sound(s, R, {h}), ~Busy(s), ~s.quit,
           KindOf(h) \in {"command", "subscribe", "unsubscribe"}
    PROVE  StartCommand(s, h) \in Server /\ Sound(StartCommand(s, h), R, {})
<1> DEFINE u == SendMessage(s, h, KindOf(h))
           t == StartCommand(s, h)
           w == [call |-> h, id |-> s.lastId + 1]
<1>1. /\ u \in Server /\ Sound(u, R, {h})
      /\ \A work : work.call = h /\ work.id = u.lastId => Owned(u, work)
  BY SendSound
<1>2. /\ u.lastId = s.lastId + 1 /\ u.workflow = s.workflow /\ u.quit = s.quit
      /\ u.current = s.current
  BY SendMessageFields
<1>3. t = [u EXCEPT !.current = w, !.timer = TRUE]
  BY DEF StartCommand
<1>4. w \in Command /\ w.call = h /\ w.id = u.lastId /\ w # None
  <2>1. s.lastId + 1 \in Nat
    BY DEF Server
  <2> QED
    BY <1>2, <2>1, NoneAssumption DEF Command
<1> HIDE DEF u, t, w
<1>5. /\ t \in Server /\ t.current = w
      /\ t.queue = u.queue /\ t.workflow = u.workflow /\ t.lastId = u.lastId
      /\ t.inputClosed = u.inputClosed /\ t.quit = u.quit /\ t.outbox = u.outbox
      /\ t.inbox = u.inbox /\ t.replies = u.replies /\ t.dropped = u.dropped
  BY <1>1, <1>3, <1>4 DEF Server
<1>6. u.current = None /\ u.workflow = None /\ ~u.quit
  BY <1>2 DEF Busy
<1>7. OneThing(t, R, {}) /\ Queued(t, R, {}) /\ Numbered(t)
  BY <1>1, <1>4, <1>5, <1>6 DEF Sound, OneThing, Once, Owned, Queued, Numbered, Answered
<1>8. Answered(t, R, {})
  BY <1>1, <1>4, <1>5, <1>6 DEF Sound, Answered, Held
<1> QED
  BY <1>5, <1>6, <1>7, <1>8 DEF Sound, t

(* startClickAndVerify and its siblings put a call in hand to work and send*)
(* its first request.                                                      *)
LEMMA StartWorkflowSound ==
    ASSUME NEW s \in Server, NEW R, NEW h \in Calls, Sound(s, R, {h}), ~Busy(s), ~s.quit
    PROVE  StartWorkflow(s, h) \in Server /\ Sound(StartWorkflow(s, h), R, {})
<1> DEFINE w == [call |-> h, phase |-> "TargetQuery", id |-> 0,
                 subscribedBefore |-> s.uiSubscribed, temporary |-> FALSE, failing |-> FALSE]
           u == [s EXCEPT !.workflow = w]
<1>1. w \in Workflow /\ w.call = h /\ w.id = 0 /\ w # None
  <2>1. s.uiSubscribed \in BOOLEAN
    BY DEF Server
  <2>2. w \in Workflow
    BY <2>1 DEF Workflow, Phases
  <2> QED
    BY <2>2, NoneAssumption
<1>2. StartWorkflow(s, h) = SendWorkflowRequest(u, "TargetQuery")
  BY DEF StartWorkflow
<1> HIDE DEF w
<1>3. /\ u \in Server /\ u.workflow = w
      /\ u.queue = s.queue /\ u.current = s.current /\ u.lastId = s.lastId
      /\ u.inputClosed = s.inputClosed /\ u.quit = s.quit /\ u.outbox = s.outbox
      /\ u.inbox = s.inbox /\ u.replies = s.replies /\ u.dropped = s.dropped
  BY <1>1 DEF Server
<1> HIDE DEF u
<1>4. s.current = None /\ s.workflow = None /\ h \in R /\ s.replies[h] = <<>>
  BY DEF Busy, Sound, Answered
<1>5. OneThing(u, R, {})
  <2>1. Owned(u, w)
    BY <1>1, <1>3 DEF Sound, Numbered, Owned, Server
  <2> QED
    BY <1>1, <1>3, <1>4, <2>1 DEF Sound, OneThing, Once, Queued
<1>6. Queued(u, R, {}) /\ Numbered(u) /\ Answered(u, R, {})
  BY <1>1, <1>3, <1>4 DEF Sound, Queued, Numbered, Answered, Held
<1>7. Sound(u, R, {}) /\ ~u.quit /\ u.workflow # None
  BY <1>1, <1>3, <1>5, <1>6 DEF Sound
<1> QED
  BY <1>2, <1>3, <1>7, SendWorkflowSound DEF Phases

(* Dropping the connection, with nothing outstanding but what is queued.   *)
LEMMA DisconnectSound ==
    ASSUME NEW s \in Server, NEW R \in SUBSET Calls, NEW H, Sound(s, R, H), ~Busy(s)
    PROVE  LET t == DisconnectTarget(s) IN
           /\ t \in Server /\ Sound(t, R, H) /\ t.quit = s.quit
           /\ t.current = None /\ t.workflow = None /\ t.queue = <<>>
           /\ t.outbox = <<>> /\ t.inbox = <<>> /\ ~t.uiSubscribed /\ ~t.wanted
           /\ t.connection = "none"
<1> DEFINE t == DisconnectTarget(s)
<1>1. ToSet(s.queue) = {s.queue[i] : i \in 1..Len(s.queue)} /\ ToSet(s.queue) \subseteq Calls
  <2>1. s.queue \in Seq(Calls)
    BY DEF Server
  <2> QED
    BY <2>1 DEF ToSet
<1>2. /\ t \in Server /\ t.queue = <<>> /\ t.current = None /\ t.workflow = None
      /\ t.lastId = s.lastId /\ t.inputClosed = s.inputClosed /\ t.quit = s.quit
      /\ t.outbox = <<>> /\ t.inbox = <<>> /\ t.replies = s.replies
      /\ t.dropped = s.dropped \cup ToSet(s.queue)
      /\ ~t.uiSubscribed /\ ~t.wanted /\ t.connection = "none"
  <2> DEFINE d == s.dropped \cup ToSet(s.queue)
  <2>1. d \subseteq Calls
    BY <1>1 DEF Server
  <2>2. t = [s EXCEPT !.connection = "none", !.current = None, !.workflow = None, !.timer = FALSE,
                      !.uiSubscribed = FALSE, !.wanted = FALSE, !.outbox = <<>>, !.inbox = <<>>,
                      !.queue = <<>>, !.dropped = d]
    BY DEF DisconnectTarget, Server
  <2> HIDE DEF d, t
  <2>3. t \in Server
    <3>1. <<>> \in Seq(Calls) /\ <<>> \in Seq(Request) /\ <<>> \in Seq(Response)
      OBVIOUS
    <3> QED
      BY <2>1, <2>2, <3>1 DEF Server
  <2> QED
    BY <2>2, <2>3, ZenonT(60) DEF Server, d
<1> HIDE DEF t
<1>3. OneThing(t, R, H) /\ Queued(t, R, H) /\ Numbered(t)
  BY <1>2 DEF OneThing, Queued, Numbered
<1>4. Answered(t, R, H)
  BY <1>1, <1>2 DEF Sound, Answered, Held, Busy
<1> QED
  BY <1>2, <1>3, <1>4 DEF Sound, Idle, Busy, t

(* The server quits only when nothing is left to answer.                   *)
LEMMA QuitSound ==
    ASSUME NEW s \in Server, NEW R, Sound(s, R, {})
    PROVE  LET t == QuitIfInputClosedAndIdle(s) IN
           /\ t \in Server /\ Sound(t, R, {})
           /\ t.connection = s.connection /\ t.uiSubscribed = s.uiSubscribed
           /\ t.wanted = s.wanted /\ t.current = s.current /\ t.workflow = s.workflow
           /\ t.outbox = s.outbox /\ t.inbox = s.inbox
<1> DEFINE t == QuitIfInputClosedAndIdle(s)
<1>1. /\ t \in Server
      /\ t.quit <=> s.quit \/ (s.inputClosed /\ Idle(s))
      /\ t.queue = s.queue /\ t.current = s.current /\ t.workflow = s.workflow
      /\ t.lastId = s.lastId /\ t.inputClosed = s.inputClosed /\ t.outbox = s.outbox
      /\ t.inbox = s.inbox /\ t.replies = s.replies /\ t.dropped = s.dropped
      /\ t.connection = s.connection /\ t.uiSubscribed = s.uiSubscribed /\ t.wanted = s.wanted
  BY DEF QuitIfInputClosedAndIdle, Server
<1> HIDE DEF t
<1> QED
  BY <1>1
     DEF Sound, OneThing, Once, Owned, Queued, Numbered, Answered, Held, Idle, Busy, t

(* dispatchNextTargetCommand, whatever is queued.                          *)
LEMMA DispatchSound ==
    ASSUME NEW s \in Server, NEW R \in SUBSET Calls, Sound(s, R, {}), ~s.quit
    PROVE  LET t == DispatchNextTargetCommand(s) IN t \in Server /\ Sound(t, R, {})
<1> DEFINE h == Head(s.queue)
           rest == [s EXCEPT !.queue = Tail(@)]
<1>1. CASE Busy(s)
  BY <1>1 DEF DispatchNextTargetCommand, Idle
<1>2. CASE ~Busy(s) /\ Idle(s)
  BY <1>2, QuitSound DEF DispatchNextTargetCommand
<1>3. CASE ~Busy(s) /\ ~Idle(s)
  <2>1. s.queue # <<>>
    BY <1>3 DEF Idle
  <2>2. /\ rest \in Server /\ Sound(rest, R, {h}) /\ h \in Calls
        /\ ~Busy(rest) /\ ~rest.quit
    BY <1>3, <2>1, TakeSound DEF Busy
  <2>3. CASE KindOf(h) = "disconnect"
    <3> DEFINE d == DisconnectTarget(rest)
               a == Reply(d, h, "status", h)
    <3>1. d \in Server /\ Sound(d, R, {h}) /\ ~d.quit
      BY <2>2, DisconnectSound
    <3>2. a \in Server /\ Sound(a, R, {})
      BY <2>2, <3>1, ReplySound
    <3>3. DispatchNextTargetCommand(s) = QuitIfInputClosedAndIdle(a)
      BY <1>3, <2>3 DEF DispatchNextTargetCommand, Workflows
    <3> HIDE DEF a
    <3> QED
      BY <3>2, <3>3, QuitSound
  <2>4. CASE KindOf(h) \in Workflows
    <3>1. DispatchNextTargetCommand(s) = StartWorkflow(rest, h)
      BY <1>3, <2>4 DEF DispatchNextTargetCommand, Workflows
    <3> QED
      BY <2>2, <3>1, StartWorkflowSound
  <2>5. CASE KindOf(h) \notin Workflows /\ KindOf(h) # "disconnect"
    <3>1. DispatchNextTargetCommand(s) = StartCommand(rest, h)
      BY <1>3, <2>5 DEF DispatchNextTargetCommand
    <3>2. KindOf(h) \in {"command", "subscribe", "unsubscribe"}
      BY <2>2, <2>5, CallsAssumption DEF Kinds, Workflows
    <3> QED
      BY <2>2, <3>1, <3>2, StartCommandSound
  <2> QED
    BY <2>3, <2>4, <2>5
<1> QED
  BY <1>1, <1>2, <1>3

(* What the server worked on comes into its hands again: the current       *)
(* command, or the workflow.                                               *)
LEMMA ReleaseSound ==
    ASSUME NEW s \in Server, NEW R, Sound(s, R, {}), ~s.quit, NEW t \in Server,
           t.queue = s.queue, t.lastId = s.lastId, t.quit = s.quit,
           t.inputClosed = s.inputClosed, t.outbox = s.outbox,
           t.inbox = s.inbox, t.replies = s.replies, t.dropped = s.dropped,
           t.current = None, t.workflow = None
    PROVE  /\ s.workflow # None => s.workflow.call \in Calls /\ Sound(t, R, {s.workflow.call})
           /\ s.current # None => s.current.call \in Calls /\ Sound(t, R, {s.current.call})
<1>1. OneThing(t, R, {}) /\ Numbered(t)
  BY DEF Sound, OneThing, Numbered
<1>2. CASE s.workflow # None
  <2>1. s.workflow.call \in Calls /\ s.current = None /\ Once(s, R, {}, s.workflow.call)
    BY <1>2 DEF Server, Workflow, Sound, OneThing
  <2>2. Queued(t, R, {s.workflow.call}) /\ Answered(t, R, {s.workflow.call})
    BY <1>2, <2>1 DEF Sound, Queued, Answered, Held, Once
  <2> QED
    BY <1>1, <1>2, <2>1, <2>2 DEF Sound, OneThing
<1>3. CASE s.current # None
  <2>1. s.current.call \in Calls /\ s.workflow = None /\ Once(s, R, {}, s.current.call)
    BY <1>3 DEF Server, Command, Sound, OneThing
  <2>2. Queued(t, R, {s.current.call}) /\ Answered(t, R, {s.current.call})
    BY <1>3, <2>1 DEF Sound, Queued, Answered, Held, Once
  <2> QED
    BY <1>1, <1>3, <2>1, <2>2 DEF Sound, OneThing
<1> QED
  BY <1>2, <1>3

(* A workflow that is through, with or without an error, and the next call.*)
LEMMA FinishWorkflowSound ==
    ASSUME NEW s \in Server, NEW R \in SUBSET Calls, Sound(s, R, {}), ~s.quit,
           s.workflow # None, NEW what \in {"result", "error"}
    PROVE  LET t == FinishWorkflow(s, what, s.workflow.call) IN t \in Server /\ Sound(t, R, {})
<1> DEFINE h == s.workflow.call
           u == [s EXCEPT !.workflow = None]
           a == Reply(u, h, what, h)
<1>1. /\ u \in Server /\ u.current = None /\ u.workflow = None
      /\ u.queue = s.queue /\ u.lastId = s.lastId /\ u.quit = s.quit
      /\ u.inputClosed = s.inputClosed /\ u.outbox = s.outbox /\ u.inbox = s.inbox
      /\ u.replies = s.replies /\ u.dropped = s.dropped
  BY DEF Server, Sound, OneThing
<1>2. FinishWorkflow(s, what, h) = DispatchNextTargetCommand(a)
  BY DEF FinishWorkflow
<1> HIDE DEF u
<1>3. Sound(u, R, {h}) /\ h \in Calls /\ ~u.quit
  BY <1>1, ReleaseSound
<1> HIDE DEF h
<1>4. a \in Server /\ Sound(a, R, {}) /\ ~a.quit
  BY <1>1, <1>3, ReplySound
<1> HIDE DEF a
<1>5. DispatchNextTargetCommand(a) \in Server /\ Sound(DispatchNextTargetCommand(a), R, {})
  BY <1>4, DispatchSound
<1> QED
  BY <1>2, <1>5 DEF h

(* finishWorkflowWithErrorPayload: a failed workflow is answered, or first *)
(* unsubscribes.                                                           *)
LEMMA FinishWorkflowWithErrorSound ==
    ASSUME NEW s \in Server, NEW R \in SUBSET Calls, Sound(s, R, {}), ~s.quit,
           s.workflow # None, NEW cleanup \in BOOLEAN
    PROVE  LET t == FinishWorkflowWithError(s, cleanup) IN t \in Server /\ Sound(t, R, {})
<1> DEFINE unsubscribes ==
        cleanup /\ s.workflow.temporary /\ ~s.workflow.failing /\ s.workflow.phase # "Unsubscribe"
<1>1. CASE unsubscribes
  <2> DEFINE w == [s.workflow EXCEPT !.failing = TRUE]
             u == [s EXCEPT !.workflow = w]
  <2>1. w \in Workflow /\ w.call = s.workflow.call /\ w.id = s.workflow.id /\ w # None
    BY NoneAssumption DEF Server, Workflow
  <2>2. FinishWorkflowWithError(s, cleanup) = SendWorkflowRequest(u, "Unsubscribe")
    BY <1>1 DEF FinishWorkflowWithError, Server
  <2> HIDE DEF w
  <2>3. /\ u \in Server /\ u.current = s.current /\ u.workflow = w
        /\ u.queue = s.queue /\ u.lastId = s.lastId /\ u.quit = s.quit
        /\ u.inputClosed = s.inputClosed /\ u.outbox = s.outbox /\ u.inbox = s.inbox
        /\ u.replies = s.replies /\ u.dropped = s.dropped
    BY <2>1 DEF Server
  <2> HIDE DEF u
  <2>4. Sound(u, R, {})
    BY <2>1, <2>3, SameSound
  <2> QED
    BY <2>1, <2>2, <2>3, <2>4, SendWorkflowSound DEF Phases
<1>2. CASE ~unsubscribes
  <2>1. FinishWorkflowWithError(s, cleanup) = FinishWorkflow(s, "error", s.workflow.call)
    BY <1>2 DEF FinishWorkflowWithError
  <2> QED
    BY <2>1, FinishWorkflowSound
<1> QED
  BY <1>1, <1>2

(* A workflow has a phase after each of its phases.                        *)
LEMMA PhaseAfterType ==
    ASSUME NEW w \in Workflow
    PROVE  PhaseAfter(w) \in Phases \cup {"Finished"}
BY DEF PhaseAfter, Phases, Workflow

(* advanceWorkflow: the next request of the workflow, or its answer.       *)
LEMMA AdvanceSound ==
    ASSUME NEW s \in Server, NEW R \in SUBSET Calls, Sound(s, R, {}), ~s.quit,
           s.workflow # None, NEW response, response.call = s.workflow.call
    PROVE  LET t == AdvanceWorkflow(s, response) IN t \in Server /\ Sound(t, R, {})
<1> DEFINE subscribed == s.workflow.phase = "Subscribe"
                            \/ (s.uiSubscribed /\ s.workflow.phase # "Unsubscribe")
           temporary == s.workflow.temporary \/ s.workflow.phase = "Subscribe"
           w == [s.workflow EXCEPT !.temporary = temporary]
           noted == [s EXCEPT !.uiSubscribed = subscribed, !.workflow = w]
           next == PhaseAfter(s.workflow)
<1>1. s.workflow \in Workflow /\ subscribed \in BOOLEAN /\ temporary \in BOOLEAN
  BY DEF Server
<1>2. w \in Workflow /\ w.call = s.workflow.call /\ w.id = s.workflow.id /\ w # None
  BY <1>1, NoneAssumption DEF Workflow
<1>3. AdvanceWorkflow(s, response) =
        IF next = "Finished" THEN FinishWorkflow(noted, "result", response.call)
                             ELSE SendWorkflowRequest(noted, next)
  BY DEF AdvanceWorkflow, Server
<1> HIDE DEF w, subscribed, temporary
<1>4. /\ noted \in Server /\ noted.current = s.current /\ noted.workflow = w
      /\ noted.queue = s.queue /\ noted.lastId = s.lastId /\ noted.quit = s.quit
      /\ noted.inputClosed = s.inputClosed /\ noted.outbox = s.outbox /\ noted.inbox = s.inbox
      /\ noted.replies = s.replies /\ noted.dropped = s.dropped
  BY <1>1, <1>2 DEF Server
<1> HIDE DEF noted
<1>5. Sound(noted, R, {})
  BY <1>2, <1>4, SameSound
<1>6. next \in Phases \cup {"Finished"}
  BY <1>1, PhaseAfterType
<1> HIDE DEF next
<1>7. CASE next = "Finished"
  BY <1>2, <1>3, <1>4, <1>5, <1>7, FinishWorkflowSound
<1>8. CASE next # "Finished"
  BY <1>2, <1>3, <1>4, <1>5, <1>6, <1>8, SendWorkflowSound
<1> QED
  BY <1>7, <1>8

(* A response to the workflow's request.                                   *)
LEMMA WorkflowResponseSound ==
    ASSUME NEW s \in Server, NEW R \in SUBSET Calls, Sound(s, R, {}), ~s.quit,
           s.workflow # None, NEW response \in Response, response.call = s.workflow.call
    PROVE  LET t == HandleWorkflowResponse(s, response) IN t \in Server /\ Sound(t, R, {})
<1>1. CASE s.workflow.failing
  <2> DEFINE u == [s EXCEPT !.uiSubscribed = s.uiSubscribed /\ ~response.ok]
  <2>1. (s.uiSubscribed /\ ~response.ok) \in BOOLEAN
    OBVIOUS
  <2>2. /\ u \in Server /\ u.current = s.current /\ u.workflow = s.workflow
        /\ u.queue = s.queue /\ u.lastId = s.lastId /\ u.quit = s.quit
        /\ u.inputClosed = s.inputClosed /\ u.outbox = s.outbox /\ u.inbox = s.inbox
        /\ u.replies = s.replies /\ u.dropped = s.dropped
    BY <2>1 DEF Server
  <2>3. HandleWorkflowResponse(s, response) = FinishWorkflow(u, "error", response.call)
    BY <1>1 DEF HandleWorkflowResponse
  <2> HIDE DEF u
  <2>4. Sound(u, R, {})
    BY <2>2, SameSound
  <2> QED
    BY <2>2, <2>3, <2>4, FinishWorkflowSound
<1>2. CASE ~s.workflow.failing /\ ~response.ok
  <2>1. HandleWorkflowResponse(s, response) = FinishWorkflowWithError(s, TRUE)
    BY <1>2 DEF HandleWorkflowResponse
  <2> QED
    BY <2>1, FinishWorkflowWithErrorSound
<1>3. CASE ~s.workflow.failing /\ response.ok
  <2>1. HandleWorkflowResponse(s, response) = AdvanceWorkflow(s, response)
    BY <1>3 DEF HandleWorkflowResponse
  <2> QED
    BY <2>1, AdvanceSound
<1> QED
  BY <1>1, <1>2, <1>3

(* A response to the current command.                                      *)
LEMMA AnswerCurrentSound ==
    ASSUME NEW s \in Server, NEW R \in SUBSET Calls, Sound(s, R, {}), ~s.quit,
           s.current # None, NEW response \in Response, response.call = s.current.call
    PROVE  LET t == AnswerCurrent(s, response) IN t \in Server /\ Sound(t, R, {})
<1> DEFINE h == s.current.call
           ui == SubscriptionAfter(h, response, s.uiSubscribed)
           wants == SubscriptionAfter(h, response, s.wanted)
           u == [s EXCEPT !.uiSubscribed = ui, !.wanted = wants, !.current = None]
           a == Reply(u, h, "result", h)
<1>1. ui \in BOOLEAN /\ wants \in BOOLEAN
  BY DEF Server, SubscriptionAfter
<1>2. AnswerCurrent(s, response) = DispatchNextTargetCommand(a)
  BY DEF AnswerCurrent, Server
<1> HIDE DEF ui, wants
<1>3. /\ u \in Server /\ u.current = None /\ u.workflow = None
      /\ u.queue = s.queue /\ u.lastId = s.lastId /\ u.quit = s.quit
      /\ u.inputClosed = s.inputClosed /\ u.outbox = s.outbox /\ u.inbox = s.inbox
      /\ u.replies = s.replies /\ u.dropped = s.dropped
  BY <1>1 DEF Server, Sound, OneThing
<1> HIDE DEF u
<1>4. Sound(u, R, {h}) /\ h \in Calls /\ ~u.quit
  BY <1>3, ReleaseSound
<1> HIDE DEF h
<1>5. a \in Server /\ Sound(a, R, {}) /\ ~a.quit
  BY <1>3, <1>4, ReplySound
<1> HIDE DEF a
<1> QED
  BY <1>2, <1>5, DispatchSound

(* Any response: one nobody waits for any more is dropped.                 *)
LEMMA TargetMessageSound ==
    ASSUME NEW s \in Server, NEW R \in SUBSET Calls, Sound(s, R, {}), ~s.quit,
           NEW response \in Response,
           s.workflow # None /\ s.workflow.id = response.id => response.call = s.workflow.call,
           s.current # None /\ s.current.id = response.id => response.call = s.current.call
    PROVE  LET t == HandleTargetMessage(s, response) IN t \in Server /\ Sound(t, R, {})
<1> DEFINE u == [s EXCEPT !.timer = FALSE]
<1>1. /\ u \in Server /\ u.current = s.current /\ u.workflow = s.workflow
      /\ u.queue = s.queue /\ u.lastId = s.lastId /\ u.quit = s.quit
      /\ u.inputClosed = s.inputClosed /\ u.outbox = s.outbox /\ u.inbox = s.inbox
      /\ u.replies = s.replies /\ u.dropped = s.dropped
  BY DEF Server
<1>2. CASE s.workflow # None /\ s.workflow.id = response.id
  <2>1. HandleTargetMessage(s, response) = HandleWorkflowResponse(u, response)
    BY <1>2, CallsAssumption DEF HandleTargetMessage, Sound, OneThing
  <2> HIDE DEF u
  <2>2. Sound(u, R, {})
    BY <1>1, SameSound
  <2> QED
    BY <1>1, <1>2, <2>1, <2>2, WorkflowResponseSound
<1>3. CASE ~(s.workflow # None /\ s.workflow.id = response.id)
           /\ s.current # None /\ s.current.id = response.id
  <2>1. HandleTargetMessage(s, response) = AnswerCurrent(u, response)
    BY <1>3 DEF HandleTargetMessage
  <2> HIDE DEF u
  <2>2. Sound(u, R, {})
    BY <1>1, SameSound
  <2> QED
    BY <1>1, <1>3, <2>1, <2>2, AnswerCurrentSound
<1>4. CASE /\ ~(s.workflow # None /\ s.workflow.id = response.id)
           /\ ~(s.current # None /\ s.current.id = response.id)
  BY <1>4 DEF HandleTargetMessage
<1> QED
  BY <1>2, <1>3, <1>4

(* The timer: what is outstanding is answered with an error.               *)
LEMMA TimedOutSound ==
    ASSUME NEW s \in Server, NEW R \in SUBSET Calls, Sound(s, R, {}), ~s.quit
    PROVE  LET t == TargetCommandTimedOut(s) IN t \in Server /\ Sound(t, R, {})
<1>1. CASE s.workflow # None
  <2>1. TargetCommandTimedOut(s) = FinishWorkflowWithError(s, FALSE)
    BY <1>1 DEF TargetCommandTimedOut, Sound, OneThing
  <2> QED
    BY <1>1, <2>1, FinishWorkflowWithErrorSound
<1>2. CASE s.workflow = None /\ s.current # None
  <2> DEFINE h == s.current.call
             u == [s EXCEPT !.current = None]
             a == Reply(u, h, "error", h)
  <2>1. TargetCommandTimedOut(s) = DispatchNextTargetCommand(a)
    BY <1>2 DEF TargetCommandTimedOut
  <2>2. /\ u \in Server /\ u.current = None /\ u.workflow = None
        /\ u.queue = s.queue /\ u.lastId = s.lastId /\ u.quit = s.quit
        /\ u.inputClosed = s.inputClosed /\ u.outbox = s.outbox /\ u.inbox = s.inbox
        /\ u.replies = s.replies /\ u.dropped = s.dropped
    BY <1>2 DEF Server
  <2> HIDE DEF u
  <2>3. Sound(u, R, {h}) /\ h \in Calls /\ ~u.quit
    BY <1>2, <2>2, ReleaseSound
  <2> HIDE DEF h
  <2>4. a \in Server /\ Sound(a, R, {}) /\ ~a.quit
    BY <2>2, <2>3, ReplySound
  <2> HIDE DEF a
  <2> QED
    BY <2>1, <2>4, DispatchSound
<1>3. CASE s.workflow = None /\ s.current = None
  BY <1>3 DEF TargetCommandTimedOut
<1> QED
  BY <1>1, <1>2, <1>3

(* The disconnected signal: the same, but nothing is dispatched.           *)
LEMMA AnswerOutstandingSound ==
    ASSUME NEW s \in Server, NEW R \in SUBSET Calls, Sound(s, R, {}), ~s.quit
    PROVE  LET t == AnswerOutstanding(s) IN t \in Server /\ Sound(t, R, {}) /\ ~Busy(t) /\ ~t.quit
<1>1. CASE s.workflow # None
  <2> DEFINE h == s.workflow.call
             u == [s EXCEPT !.workflow = None]
  <2>1. AnswerOutstanding(s) = Reply(u, h, "error", h)
    BY <1>1 DEF AnswerOutstanding, Sound, OneThing
  <2>2. /\ u \in Server /\ u.current = None /\ u.workflow = None
        /\ u.queue = s.queue /\ u.lastId = s.lastId /\ u.quit = s.quit
        /\ u.inputClosed = s.inputClosed /\ u.outbox = s.outbox /\ u.inbox = s.inbox
        /\ u.replies = s.replies /\ u.dropped = s.dropped
    BY <1>1 DEF Server, Sound, OneThing
  <2> HIDE DEF u
  <2>3. Sound(u, R, {h}) /\ h \in Calls /\ ~u.quit
    BY <1>1, <2>2, ReleaseSound
  <2> HIDE DEF h
  <2> QED
    BY <2>1, <2>2, <2>3, ReplySound DEF Busy
<1>2. CASE s.workflow = None /\ s.current # None
  <2> DEFINE h == s.current.call
             u == [s EXCEPT !.current = None]
  <2>1. AnswerOutstanding(s) = Reply(u, h, "error", h)
    BY <1>2 DEF AnswerOutstanding
  <2>2. /\ u \in Server /\ u.current = None /\ u.workflow = None
        /\ u.queue = s.queue /\ u.lastId = s.lastId /\ u.quit = s.quit
        /\ u.inputClosed = s.inputClosed /\ u.outbox = s.outbox /\ u.inbox = s.inbox
        /\ u.replies = s.replies /\ u.dropped = s.dropped
    BY <1>2 DEF Server
  <2> HIDE DEF u
  <2>3. Sound(u, R, {h}) /\ h \in Calls /\ ~u.quit
    BY <1>2, <2>2, ReleaseSound
  <2> HIDE DEF h
  <2> QED
    BY <2>1, <2>2, <2>3, ReplySound DEF Busy
<1>3. CASE s.workflow = None /\ s.current = None
  BY <1>3 DEF AnswerOutstanding, Busy
<1> QED
  BY <1>1, <1>2, <1>3

-----------------------------------------------------------------------------
(* The invariant holds before the first line is read.                      *)
LEMMA InitIInv == Init => IInv
<1> SUFFICES ASSUME Init PROVE IInv
  OBVIOUS
<1> USE CallsAssumption, MaxConnectsAssumption DEF Init
<1>1. server \in Server
  <2>1. <<>> \in Seq(Calls) /\ <<>> \in Seq(Request) /\ <<>> \in Seq(Response) /\ <<>> \in Seq(Answer)
    OBVIOUS
  <2>2. [c \in Calls |-> <<>>] \in [Calls -> Seq(Answer)]
    BY <2>1
  <2> QED
    BY <2>1, <2>2 DEF Server
<1>2. Sound(server, received, {})
  BY <1>1 DEF Sound, OneThing, Queued, Numbered, Answered
<1>3. observed \in BOOLEAN /\ troubled \in BOOLEAN
  BY Zenon
<1>4. received \subseteq Calls /\ connects \in 0..MaxConnects
  OBVIOUS
<1> QED
  BY <1>2, <1>3, <1>4 DEF IInv

(* A call comes into the hands of the server when its line is read.        *)
LEMMA ReceiveSound ==
    ASSUME NEW s \in Server, NEW R, Sound(s, R, {}), ~s.quit, NEW h \in Calls, h \notin R
    PROVE  Sound(s, R \cup {h}, {h})
BY DEF Sound, OneThing, Once, Owned, Queued, Answered, Held

(* A tools/call line is answered at once, queued, or started.              *)
LEMMA ToolCallIInv ==
    ASSUME IInv, NEW call \in Calls, ToolCall(call)
    PROVE  IInv'
<1> USE DEF IInv, ToolCall, Listening
<1> DEFINE R == received \cup {call}
<1>1. /\ server \in Server /\ ~server.quit /\ R \in SUBSET Calls
      /\ Sound(server, R, {call}) /\ received' = R
  BY ReceiveSound DEF Sound
<1>2. DispatchNextTargetCommand([server EXCEPT !.queue = Append(@, call)]) \in Server
      /\ Sound(DispatchNextTargetCommand([server EXCEPT !.queue = Append(@, call)]), R, {})
  <2> DEFINE q == [server EXCEPT !.queue = Append(@, call)]
  <2>1. q \in Server /\ Sound(q, R, {}) /\ ~q.quit
    BY <1>1, QueueSound
  <2> HIDE DEF q, R
  <2>2. DispatchNextTargetCommand(q) \in Server /\ Sound(DispatchNextTargetCommand(q), R, {})
    BY <1>1, <2>1, DispatchSound
  <2> QED
    BY <2>2 DEF q
<1>3. CASE DisconnectCalled(call)
  <2>1. CASE Idle(server)
    <3> DEFINE d == DisconnectTarget(server)
    <3>1. d \in Server /\ Sound(d, R, {call}) /\ ~d.quit
      BY <1>1, <2>1, DisconnectSound DEF Idle
    <3>2. server' = Reply(d, call, "status", call) /\ observed' = FALSE
      BY <1>3, <2>1 DEF DisconnectCalled
    <3> HIDE DEF d, R
    <3>3. Sound(server', R, {})
      BY <3>1, <3>2, ReplySound
    <3> QED
      BY <1>1, <3>2, <3>3
  <2>2. CASE ~Idle(server)
    BY <1>1, <1>2, <1>3, <2>2 DEF DisconnectCalled
  <2> QED
    BY <2>1, <2>2
<1>4. CASE RoutedViaLauncher(call)
  <2>1. Sound(server', R, {})
    BY <1>1, <1>4, ReplySound DEF RoutedViaLauncher
  <2> QED
    BY <1>1, <1>4, <2>1 DEF RoutedViaLauncher
<1>5. CASE Enqueued(call)
  BY <1>1, <1>2, <1>5 DEF Enqueued
<1> QED
  BY <1>3, <1>4, <1>5

(* A new connection starts from an idle server.                            *)
LEMMA ConnectIInv == IInv /\ Connect => IInv'
<1> SUFFICES ASSUME IInv, Connect PROVE IInv'
  OBVIOUS
<1> USE MaxConnectsAssumption DEF IInv, Connect
<1> DEFINE d == DisconnectTarget(server)
           up == [d EXCEPT !.connection = "up"]
           info == SendMessage(up, None, "command")
           enable == SendMessage(info, None, "command")
           lost == [enable EXCEPT !.outbox = Tail(@)]
<1>1. d \in Server /\ Sound(d, received, {})
  BY DisconnectSound DEF Idle, Sound
<1> HIDE DEF d
<1>2. up \in Server /\ Sound(up, received, {})
  <2>1. /\ up \in Server /\ up.current = d.current /\ up.workflow = d.workflow
        /\ up.queue = d.queue /\ up.lastId = d.lastId /\ up.quit = d.quit
        /\ up.inputClosed = d.inputClosed /\ up.outbox = d.outbox /\ up.inbox = d.inbox
        /\ up.replies = d.replies /\ up.dropped = d.dropped
    BY <1>1 DEF Server
  <2> QED
    BY <1>1, <2>1, SameSound
<1> HIDE DEF up
<1>3. info \in Server /\ Sound(info, received, {})
  BY <1>2, SendSound
<1> HIDE DEF info
<1>4. enable \in Server /\ Sound(enable, received, {})
  BY <1>3, SendSound
<1> HIDE DEF enable
<1>5. ASSUME enable.outbox # <<>>
      PROVE  lost \in Server /\ Sound(lost, received, {})
  <2>1. /\ enable.outbox \in Seq(Request) /\ Tail(enable.outbox) \in Seq(Request)
        /\ Len(enable.outbox) \in Nat /\ Len(Tail(enable.outbox)) = Len(enable.outbox) - 1
        /\ \A i \in 1..Len(Tail(enable.outbox)) : Tail(enable.outbox)[i] = enable.outbox[i + 1]
    BY <1>4, <1>5 DEF Server
  <2>2. /\ lost \in Server /\ lost.current = enable.current /\ lost.workflow = enable.workflow
        /\ lost.queue = enable.queue /\ lost.lastId = enable.lastId /\ lost.quit = enable.quit
        /\ lost.inputClosed = enable.inputClosed /\ lost.outbox = Tail(enable.outbox)
        /\ lost.inbox = enable.inbox
        /\ lost.replies = enable.replies /\ lost.dropped = enable.dropped
    BY <1>4, <2>1 DEF Server
  <2> HIDE DEF lost
  <2>3. \A i \in 1..Len(lost.outbox) :
           i + 1 \in 1..Len(enable.outbox) /\ lost.outbox[i] = enable.outbox[i + 1]
    BY <2>1, <2>2
  <2> QED
    BY <1>4, <2>2, <2>3
       DEF Sound, OneThing, Once, Owned, Queued, Numbered, Answered, Held, Idle, Busy
<1>6. enable.outbox # <<>>
  <2>1. info.connection = "up" /\ info.outbox \in Seq(Request) /\ info.lastId + 1 \in Nat
    <3>1. up.connection = "up"
      BY <1>1 DEF up, Server
    <3>2. info.connection = "up"
      BY <1>2, <3>1, SendMessageFields DEF info
    <3> QED
      BY <1>3, <3>2 DEF Server
  <2>2. enable.outbox = Append(info.outbox, [id |-> info.lastId + 1, method |-> "command", call |-> None])
    BY <1>3, <2>1, SendMessageFields DEF enable
  <2>3. [id |-> info.lastId + 1, method |-> "command", call |-> None] \in Request
    BY <2>1 DEF Request
  <2> HIDE DEF enable
  <2> QED
    BY <2>1, <2>2, <2>3, SMTT(30)
<1>7. server' = d \/ server' = enable \/ server' = lost
  BY DEF d, up, info, enable, lost
<1>8. Sound(server', received', {})
  BY <1>1, <1>4, <1>5, <1>6, <1>7
<1> HIDE DEF lost
<1>9. observed' \in BOOLEAN /\ troubled' \in BOOLEAN
  BY Zenon
<1>10. (received \subseteq Calls)' /\ (connects \in 0..MaxConnects)'
  BY MaxConnectsAssumption
<1> QED
  BY <1>8, <1>9, <1>10 DEF IInv

(* A response answers the call whose request it belongs to, or none.       *)
LEMMA TargetMessageIInv == IInv /\ TargetMessage => IInv'
<1> SUFFICES ASSUME IInv, TargetMessage PROVE IInv'
  OBVIOUS
<1> USE DEF IInv, TargetMessage
<1> DEFINE response == Head(server.inbox)
           u == [server EXCEPT !.inbox = Tail(@)]
<1>1. /\ server \in Server
      /\ server.inbox \in Seq(Response) /\ Tail(server.inbox) \in Seq(Response)
      /\ Len(server.inbox) \in Nat /\ 1 \in 1..Len(server.inbox)
      /\ response = server.inbox[1] /\ response \in Response
      /\ Len(Tail(server.inbox)) = Len(server.inbox) - 1
      /\ \A i \in 1..Len(Tail(server.inbox)) : Tail(server.inbox)[i] = server.inbox[i + 1]
  BY DEF Sound, Server
<1>2. /\ u \in Server /\ u.current = server.current /\ u.workflow = server.workflow
      /\ u.queue = server.queue /\ u.lastId = server.lastId /\ u.quit = server.quit
      /\ u.inputClosed = server.inputClosed /\ u.outbox = server.outbox
      /\ u.inbox = Tail(server.inbox)
      /\ u.replies = server.replies /\ u.dropped = server.dropped
  BY <1>1 DEF Server
<1>3. server' = HandleTargetMessage(u, response)
  OBVIOUS
<1> HIDE DEF u
<1>4. \A i \in 1..Len(u.inbox) :
         i + 1 \in 1..Len(server.inbox) /\ u.inbox[i] = server.inbox[i + 1]
  BY <1>1, <1>2
<1>5. Sound(u, received, {})
  BY <1>2, <1>4
     DEF Sound, OneThing, Once, Owned, Queued, Numbered, Answered, Held, Idle, Busy
<1>6. /\ u.workflow # None /\ u.workflow.id = response.id => response.call = u.workflow.call
      /\ u.current # None /\ u.current.id = response.id => response.call = u.current.call
  BY <1>1, <1>2 DEF Sound, OneThing, Owned
<1> HIDE DEF response
<1>7. Sound(server', received, {})
  BY <1>1, <1>2, <1>3, <1>5, <1>6, TargetMessageSound
<1> QED
  BY <1>7

(* A timeout answers or retires the outstanding request.                   *)
LEMMA TimerIInv == IInv /\ TimerFires => IInv'
<1> SUFFICES ASSUME IInv, TimerFires PROVE IInv'
  OBVIOUS
<1> USE DEF IInv, TimerFires
<1> DEFINE u == [server EXCEPT !.timer = FALSE]
<1>1. /\ u \in Server /\ u.current = server.current /\ u.workflow = server.workflow
      /\ u.queue = server.queue /\ u.lastId = server.lastId /\ u.quit = server.quit
      /\ u.inputClosed = server.inputClosed /\ u.outbox = server.outbox /\ u.inbox = server.inbox
      /\ u.replies = server.replies /\ u.dropped = server.dropped
  BY DEF Sound, Server
<1>2. server' = TargetCommandTimedOut(u)
  OBVIOUS
<1> HIDE DEF u
<1>3. Sound(u, received, {})
  BY <1>1, SameSound DEF Sound
<1>4. Sound(server', received, {})
  BY <1>1, <1>2, <1>3, TimedOutSound
<1> QED
  BY <1>4

(* A lost connection answers the outstanding call and keeps the queue.     *)
LEMMA DisconnectedIInv == IInv /\ Disconnected => IInv'
<1> SUFFICES ASSUME IInv, Disconnected PROVE IInv'
  OBVIOUS
<1> USE DEF IInv, Disconnected
<1> DEFINE a == AnswerOutstanding(server)
<1>1. a \in Server /\ Sound(a, received, {}) /\ ~Busy(a) /\ ~a.quit
  BY AnswerOutstandingSound DEF Sound
<1> HIDE DEF a
<1>2. server' = [a EXCEPT !.connection = "lost", !.uiSubscribed = FALSE, !.wanted = FALSE,
                          !.outbox = <<>>, !.inbox = <<>>]
  BY DEF a
<1>3. <<>> \in Seq(Request) /\ <<>> \in Seq(Response)
  OBVIOUS
<1>4. /\ server' \in Server /\ server'.current = a.current /\ server'.workflow = a.workflow
      /\ server'.queue = a.queue /\ server'.lastId = a.lastId /\ server'.quit = a.quit
      /\ server'.inputClosed = a.inputClosed /\ server'.outbox = <<>> /\ server'.inbox = <<>>
      /\ server'.replies = a.replies /\ server'.dropped = a.dropped
  BY <1>1, <1>2, <1>3 DEF Server
<1>5. Sound(server', received, {})
  BY <1>1, <1>4 DEF Sound, OneThing, Queued, Numbered, Answered, Held, Busy
<1> QED
  BY <1>5

(* The end of input and notifications/exit change no call.                 *)
LEMMA InputIInv == IInv /\ (InputClosed \/ Exit) => IInv'
<1> SUFFICES ASSUME IInv, InputClosed \/ Exit PROVE IInv'
  OBVIOUS
<1> USE DEF IInv, Listening
<1>1. CASE InputClosed
  <2> DEFINE u == [server EXCEPT !.inputClosed = TRUE]
  <2>1. /\ u \in Server /\ u.current = server.current /\ u.workflow = server.workflow
        /\ u.queue = server.queue /\ u.lastId = server.lastId /\ ~u.quit
        /\ u.outbox = server.outbox /\ u.inbox = server.inbox
        /\ u.replies = server.replies /\ u.dropped = server.dropped
    BY <1>1 DEF InputClosed, Sound, Server
  <2>2. server' = QuitIfInputClosedAndIdle(u)
    BY <1>1 DEF InputClosed
  <2> HIDE DEF u
  <2>3. Sound(u, received, {})
    BY <2>1 DEF Sound, OneThing, Once, Owned, Queued, Numbered, Answered, Held
  <2>4. Sound(server', received, {})
    BY <2>1, <2>2, <2>3, QuitSound
  <2> QED
    BY <1>1, <2>4 DEF InputClosed
<1>2. CASE Exit
  <2>1. /\ server' \in Server /\ server'.current = server.current /\ server'.workflow = server.workflow
        /\ server'.queue = server.queue /\ server'.lastId = server.lastId
        /\ ~server'.inputClosed
        /\ server'.outbox = server.outbox /\ server'.inbox = server.inbox
        /\ server'.replies = server.replies /\ server'.dropped = server.dropped
    BY <1>2 DEF Exit, Sound, Server
  <2>2. Sound(server', received, {})
    BY <2>1 DEF Sound, OneThing, Once, Owned, Queued, Numbered, Answered, Held
  <2> QED
    BY <1>2, <2>2 DEF Exit
<1> QED
  BY <1>1, <1>2

(* A response carries the id and the call of its request.                  *)
LEMMA TargetAnswersIInv ==
    ASSUME IInv, NEW ok \in BOOLEAN, NEW executed \in BOOLEAN, TargetAnswers(ok, executed)
    PROVE  IInv'
<1> USE DEF IInv, TargetAnswers
<1> DEFINE request == Head(server.outbox)
           r == [id |-> request.id, ok |-> ok, call |-> request.call]
<1>1. /\ server \in Server
      /\ server.outbox \in Seq(Request) /\ Tail(server.outbox) \in Seq(Request)
      /\ Len(server.outbox) \in Nat /\ 1 \in 1..Len(server.outbox)
      /\ request = server.outbox[1] /\ request \in Request
      /\ Len(Tail(server.outbox)) = Len(server.outbox) - 1
      /\ \A i \in 1..Len(Tail(server.outbox)) : Tail(server.outbox)[i] = server.outbox[i + 1]
  BY DEF Sound, Server
<1>2. r \in Response /\ r.id = request.id /\ r.call = request.call
  BY <1>1 DEF Request, Response
<1> HIDE DEF r
<1>3. /\ server.inbox \in Seq(Response) /\ Append(server.inbox, r) \in Seq(Response)
      /\ Len(server.inbox) \in Nat /\ Len(Append(server.inbox, r)) = Len(server.inbox) + 1
      /\ \A i \in 1..Len(server.inbox) : Append(server.inbox, r)[i] = server.inbox[i]
      /\ Append(server.inbox, r)[Len(server.inbox) + 1] = r
  BY <1>1, <1>2 DEF Server
<1>4. server' = [server EXCEPT !.outbox = Tail(server.outbox), !.inbox = Append(server.inbox, r)]
  BY <1>1 DEF r, Server
<1> HIDE DEF request
<1>5. /\ server' \in Server /\ server'.current = server.current /\ server'.workflow = server.workflow
      /\ server'.queue = server.queue /\ server'.lastId = server.lastId /\ server'.quit = server.quit
      /\ server'.inputClosed = server.inputClosed
      /\ server'.outbox = Tail(server.outbox) /\ server'.inbox = Append(server.inbox, r)
      /\ server'.replies = server.replies /\ server'.dropped = server.dropped
  BY <1>1, <1>3, <1>4 DEF Server
<1>6. /\ \A i \in 1..Len(server'.outbox) :
            i + 1 \in 1..Len(server.outbox) /\ server'.outbox[i] = server.outbox[i + 1]
      /\ \A i \in 1..Len(server'.inbox) :
            \/ i \in 1..Len(server.inbox) /\ server'.inbox[i] = server.inbox[i]
            \/ server'.inbox[i] = r
  BY <1>1, <1>3, <1>5
<1>7. Numbered(server')
  BY <1>1, <1>2, <1>5, <1>6 DEF Sound, Numbered
<1>8. OneThing(server', received, {})
  <2>1. ASSUME NEW work, Owned(server, work)
        PROVE  Owned(server', work)
    BY <1>1, <1>2, <1>5, <1>6, <2>1 DEF Owned
  <2> QED
    BY <1>5, <2>1 DEF Sound, OneThing, Once
<1>9. Queued(server', received, {}) /\ Answered(server', received, {})
      /\ (server'.quit /\ server'.inputClosed => Idle(server'))
  BY <1>5 DEF Sound, Queued, Answered, Held, Idle, Busy
<1>10. Sound(server', received, {})
  BY <1>5, <1>7, <1>8, <1>9 DEF Sound
<1>11. observed' \in BOOLEAN /\ troubled' \in BOOLEAN
  <2>1. observed' \in {TRUE, FALSE, observed}
    OBVIOUS
  <2> QED
    BY <2>1
<1> QED
  BY <1>10, <1>11

(* Every event of the loop preserves the invariant.                        *)
LEMMA NextIInv == IInv /\ [Next]_vars => IInv'
<1>1. IInv /\ UNCHANGED vars => IInv'
  BY DEF vars, IInv
<1> QED
  BY <1>1, ToolCallIInv, ConnectIInv, TargetMessageIInv, TimerIInv, DisconnectedIInv, InputIInv,
     TargetAnswersIInv
     DEF Next

-----------------------------------------------------------------------------
(* The invariant holds in every state of every behaviour.                  *)
THEOREM Invariance == Spec => []IInv
BY InitIInv, NextIInv, PTL DEF Spec

(* The server is a record of the right shape in every state, and works on  *)
(* one thing at a time.                                                    *)
THEOREM TypeCorrect == Spec => []TypeOK
<1>1. IInv => TypeOK
  BY DEF IInv, Sound, OneThing, TypeOK
<1> QED
  BY <1>1, Invariance, PTL

(* handleTargetMessage and the timer answer a call once, with its own      *)
(* response or an error.                                                   *)
THEOREM AnswersAreOwnAndSingle == Spec => []OwnAnswerOnce
<1>1. IInv => OwnAnswerOnce
  <2> SUFFICES ASSUME IInv, NEW call \in Calls
               PROVE  /\ Len(server.replies[call]) <= 1
                      /\ \A i \in DOMAIN server.replies[call] : server.replies[call][i].from = call
    BY DEF OwnAnswerOnce
  <2>1. server.replies[call] \in Seq(Answer)
    BY DEF IInv, Sound, Server
  <2> QED
    BY <2>1 DEF IInv, Sound, Answered
<1> QED
  BY <1>1, Invariance, PTL

(* A call the server has read is queued, worked on, answered, or was       *)
(* cleared by the client's own disconnect.                                 *)
THEOREM CallsAreKept == Spec => []NoCallForgotten
<1>1. IInv => NoCallForgotten
  <2> SUFFICES ASSUME IInv, NEW call \in Calls, Outstanding(call)
               PROVE  \/ call \in ToSet(server.queue) \cup server.dropped
                      \/ server.current # None /\ server.current.call = call
                      \/ server.workflow # None /\ server.workflow.call = call
    BY DEF NoCallForgotten
  <2>1. Held(server, call)
    BY DEF IInv, Sound, Answered, Outstanding
  <2>2. server.queue \in Seq(Calls)
    BY DEF IInv, Sound, Server
  <2> QED
    BY <2>1, <2>2 DEF Held, ToSet
<1> QED
  BY <1>1, Invariance, PTL

(* The server that quits at the end of input has answered what it read.    *)
THEOREM QuitsWhenDone == Spec => []QuitsAfterLastAnswer
<1>1. IInv => QuitsAfterLastAnswer
  <2> SUFFICES ASSUME IInv, server.quit, server.inputClosed, NEW call \in Calls, Outstanding(call)
               PROVE  call \in server.dropped
    BY DEF QuitsAfterLastAnswer
  <2>1. Held(server, call) /\ Idle(server)
    BY DEF IInv, Sound, Answered, Outstanding
  <2> QED
    BY <2>1 DEF Held, Idle, Busy
<1> QED
  BY <1>1, Invariance, PTL

-----------------------------------------------------------------------------
(* What the server knows of the target's subscription. The requests that   *)
(* change it are sent one at a time, so the one that is outstanding, or    *)
(* its response, tells what it is: SubscriptionInv follows it on its way   *)
(* to the target and back.                                                 *)

(* A connection with nothing but commands on its way to the target.        *)
Silent(s) == \A i \in 1..Len(s.outbox) : s.outbox[i].method = "command"

(* The subscription after the target's answer to a request.                *)
After(method, ok, before) ==
    IF ok /\ method \in {"subscribe", "unsubscribe"} THEN method = "subscribe" ELSE before

(* The request with the id is on its way to the target, or its response on *)
(* its way back: that alone tells what the target's subscription is.       *)
Awaits(s, subscription, id, method, before) ==
    /\ \A i \in 1..Len(s.outbox) : s.outbox[i].method # "command" => s.outbox[i].id = id
    /\ \A i \in 1..Len(s.outbox) : s.outbox[i].id = id => s.outbox[i].method = method
    /\ \A i, j \in 1..Len(s.outbox) : s.outbox[i].id = id /\ s.outbox[j].id = id => i = j
    /\ \A j \in 1..Len(s.inbox) : s.inbox[j].id = id =>
          /\ \A i \in 1..Len(s.outbox) : s.outbox[i].id # id
          /\ subscription = After(method, s.inbox[j].ok, before)
          /\ method = "unsubscribe" => s.inbox[j].ok
    /\ (\A j \in 1..Len(s.inbox) : s.inbox[j].id # id) => subscription = before

(* The phases of a workflow before a temporary subscription.               *)
Early(phase) == phase \in {"TargetQuery", "BeforeQuery", "Subscribe"}

Staged(w, wanted) ==
    /\ w.subscribedBefore = wanted
    /\ Early(w.phase) => ~w.temporary
    /\ ~Early(w.phase) => w.temporary = ~w.subscribedBefore
    /\ w.failing => w.phase = "Unsubscribe"
    /\ w.phase \in {"Subscribe", "Unsubscribe"} => ~w.subscribedBefore

(* What the subscription is while a request of the phase is outstanding.   *)
During(phase, wanted) == wanted \/ ~Early(phase)

(* Between calls nothing that could change the subscription is under way.  *)
Settled(s, subscription) ==
    Silent(s) /\ subscription = s.wanted /\ s.uiSubscribed = s.wanted

(* While the connection lasts and nothing has gone wrong, the server knows *)
(* what the target's subscription is.                                      *)
Tracks(s, subscription) ==
    s.connection = "up" =>
        /\ ~Busy(s) => Settled(s, subscription)
        /\ s.current # None =>
              /\ Awaits(s, subscription, s.current.id, KindOf(s.current.call), s.wanted)
              /\ s.uiSubscribed = s.wanted
        /\ s.workflow # None =>
              /\ Awaits(s, subscription, s.workflow.id, MethodOf(s.workflow.phase),
                        During(s.workflow.phase, s.wanted))
              /\ s.uiSubscribed = During(s.workflow.phase, s.wanted)
              /\ Staged(s.workflow, s.wanted)

SubscriptionInv == ~troubled => Tracks(server, observed)

(* A disconnect clears the connection and what the server knows of it.     *)
LEMMA DisconnectFields ==
    ASSUME NEW s \in Server
    PROVE  LET t == DisconnectTarget(s) IN
           /\ t \in Server /\ t.connection = "none" /\ t.current = None /\ t.workflow = None
           /\ t.outbox = <<>> /\ t.inbox = <<>> /\ ~t.uiSubscribed /\ ~t.wanted
<1> DEFINE d == s.dropped \cup ToSet(s.queue)
<1>1. s.queue \in Seq(Calls) /\ ToSet(s.queue) = {s.queue[i] : i \in 1..Len(s.queue)}
  BY DEF Server, ToSet
<1>2. d \in SUBSET Calls
  BY <1>1 DEF Server
<1>3. <<>> \in Seq(Calls) /\ <<>> \in Seq(Request) /\ <<>> \in Seq(Response)
  OBVIOUS
<1> HIDE DEF d
<1>4. DisconnectTarget(s) =
        [s EXCEPT !.connection = "none", !.current = None, !.workflow = None, !.timer = FALSE,
                  !.uiSubscribed = FALSE, !.wanted = FALSE, !.outbox = <<>>, !.inbox = <<>>,
                  !.queue = <<>>, !.dropped = d]
  BY DEF DisconnectTarget, Server, d
<1> QED
  BY <1>2, <1>3, <1>4, ZenonT(60) DEF Server

(* An answer leaves everything alone that tells of the subscription.       *)
LEMMA ReplyKeeps ==
    ASSUME NEW s \in Server, NEW call \in Calls,
           NEW what \in {"status", "gateway", "result", "error"}, NEW from \in Calls \cup {None}
    PROVE  LET t == Reply(s, call, what, from) IN
           /\ t \in Server /\ t.current = s.current /\ t.workflow = s.workflow
           /\ t.connection = s.connection /\ t.lastId = s.lastId
           /\ t.outbox = s.outbox /\ t.inbox = s.inbox
           /\ t.uiSubscribed = s.uiSubscribed /\ t.wanted = s.wanted
BY ReplyFields, ZenonT(60)

(* A command of the server's own.                                          *)
LEMMA SendOwnCommand ==
    ASSUME NEW s \in Server, s.connection = "up"
    PROVE  LET t == SendMessage(s, None, "command") IN
           /\ t \in Server /\ t.current = s.current /\ t.workflow = s.workflow
           /\ t.connection = "up" /\ t.uiSubscribed = s.uiSubscribed /\ t.wanted = s.wanted
           /\ Len(t.outbox) = Len(s.outbox) + 1
           /\ \A i \in 1..Len(s.outbox) : t.outbox[i] = s.outbox[i]
           /\ t.outbox[Len(s.outbox) + 1].method = "command"
<1> DEFINE t == SendMessage(s, None, "command")
           m == [id |-> s.lastId + 1, method |-> "command", call |-> None]
<1>1. None \in Calls \cup {None} /\ "command" \in {"command", "subscribe", "unsubscribe"}
  OBVIOUS
<1>2. /\ t \in Server /\ t.current = s.current /\ t.workflow = s.workflow
      /\ t.connection = "up" /\ t.uiSubscribed = s.uiSubscribed /\ t.wanted = s.wanted
      /\ t.outbox = Append(s.outbox, m)
  BY <1>1, SendMessageFields
<1>3. m.method = "command" /\ s.outbox \in Seq(Request)
  BY DEF Server
<1> HIDE DEF m, t
<1> QED
  BY <1>2, <1>3 DEF t

(* Sending a request when none that matters is outstanding.                *)
LEMMA SendAwaits ==
    ASSUME NEW s \in Server, Numbered(s), Silent(s), s.connection = "up", NEW subscription,
           NEW call \in Calls \cup {None}, NEW method \in {"command", "subscribe", "unsubscribe"}
    PROVE  Awaits(SendMessage(s, call, method), subscription, s.lastId + 1, method, subscription)
<1> DEFINE t == SendMessage(s, call, method)
           m == [id |-> s.lastId + 1, method |-> method, call |-> call]
<1>1. t.outbox = Append(s.outbox, m) /\ t.inbox = s.inbox
  BY SendMessageFields
<1>2. /\ m \in Request /\ m.id = s.lastId + 1 /\ m.method = method
      /\ s.outbox \in Seq(Request) /\ Len(s.outbox) \in Nat /\ s.lastId \in Nat
  BY DEF Server, Request
<1> HIDE DEF t, m
<1>3. /\ Len(t.outbox) = Len(s.outbox) + 1
      /\ \A i \in 1..Len(s.outbox) : t.outbox[i] = s.outbox[i]
      /\ t.outbox[Len(s.outbox) + 1] = m
  BY <1>1, <1>2
<1>4. \A i \in 1..Len(t.outbox) :
         \/ i = Len(s.outbox) + 1 /\ t.outbox[i] = m
         \/ i \in 1..Len(s.outbox) /\ t.outbox[i].method = "command" /\ t.outbox[i].id # s.lastId + 1
  BY <1>2, <1>3 DEF Silent, Numbered
<1>5. \A j \in 1..Len(t.inbox) : t.inbox[j].id # s.lastId + 1
  BY <1>1, <1>2 DEF Numbered
<1> QED
  BY <1>2, <1>4, <1>5 DEF Awaits, t

(* A command is started.                                                   *)
LEMMA StartCommandTracks ==
    ASSUME NEW s \in Server, Numbered(s), ~Busy(s), NEW subscription, NEW h \in Calls,
           KindOf(h) \in {"command", "subscribe", "unsubscribe"},
           s.connection = "up" => Settled(s, subscription)
    PROVE  Tracks(StartCommand(s, h), subscription)
<1> DEFINE u == SendMessage(s, h, KindOf(h))
           t == StartCommand(s, h)
           w == [call |-> h, id |-> s.lastId + 1]
<1>1. /\ u \in Server /\ u.connection = s.connection /\ u.workflow = None
      /\ u.uiSubscribed = s.uiSubscribed /\ u.wanted = s.wanted
  BY SendMessageFields DEF Busy
<1>2. s.connection = "up" => Awaits(u, subscription, w.id, KindOf(w.call), subscription)
  BY SendAwaits DEF Settled
<1>3. t = [u EXCEPT !.current = w, !.timer = TRUE]
  BY DEF StartCommand
<1>4. w \in Command /\ w # None
  BY NoneAssumption DEF Server, Command
<1> HIDE DEF u, t, w
<1>5. /\ t.current = w /\ t.workflow = u.workflow /\ t.connection = u.connection
      /\ t.outbox = u.outbox /\ t.inbox = u.inbox
      /\ t.uiSubscribed = u.uiSubscribed /\ t.wanted = u.wanted
  BY <1>1, <1>3 DEF Server
<1> QED
  BY <1>1, <1>2, <1>4, <1>5 DEF Tracks, Settled, Awaits, Busy, t

(* The workflow sends the request of a phase.                              *)
LEMMA SendWorkflowTracks ==
    ASSUME NEW s \in Server, Numbered(s), s.workflow # None, s.current = None,
           NEW phase \in Phases, NEW subscription,
           s.connection = "up" =>
              /\ Silent(s)
              /\ subscription = During(phase, s.wanted) /\ s.uiSubscribed = subscription
              /\ Staged([s.workflow EXCEPT !.phase = phase], s.wanted)
    PROVE  Tracks(SendWorkflowRequest(s, phase), subscription)
<1> DEFINE u == SendMessage(s, s.workflow.call, MethodOf(phase))
           t == SendWorkflowRequest(s, phase)
           w == [s.workflow EXCEPT !.phase = phase, !.id = s.lastId + 1]
<1>1. /\ s.workflow \in Workflow /\ s.workflow.call \in Calls
      /\ MethodOf(phase) \in {"command", "subscribe", "unsubscribe"}
  BY DEF Server, Workflow, MethodOf
<1>2. /\ u \in Server /\ u.connection = s.connection /\ u.current = None
      /\ u.workflow = s.workflow
      /\ u.uiSubscribed = s.uiSubscribed /\ u.wanted = s.wanted
  BY <1>1, SendMessageFields, ZenonT(60)
<1>3. s.connection = "up" =>
         Awaits(u, subscription, s.lastId + 1, MethodOf(phase), subscription)
  BY <1>1, SendAwaits
<1>4. t = [u EXCEPT !.workflow.phase = phase, !.workflow.id = s.lastId + 1, !.timer = TRUE]
  BY DEF SendWorkflowRequest
<1>5. /\ w \in Workflow /\ w # None /\ w.phase = phase /\ w.id = s.lastId + 1
      /\ s.connection = "up" => Staged(w, s.wanted)
  <2>1. s.lastId + 1 \in Nat
    BY DEF Server
  <2> QED
    BY <1>1, <2>1, NoneAssumption DEF Workflow, Staged
<1> HIDE DEF u, t
<1>6. t = [u EXCEPT !.workflow = w, !.timer = TRUE]
  BY <1>1, <1>2, <1>4 DEF Server, Workflow
<1> HIDE DEF w
<1>7. /\ t.current = None /\ t.workflow = w /\ t.connection = u.connection
      /\ t.outbox = u.outbox /\ t.inbox = u.inbox
      /\ t.uiSubscribed = u.uiSubscribed /\ t.wanted = u.wanted
  BY <1>2, <1>6 DEF Server
<1> QED
  BY <1>2, <1>3, <1>5, <1>7 DEF Tracks, Awaits, Busy, t

(* A workflow is started: it looks the target up first.                    *)
LEMMA StartWorkflowTracks ==
    ASSUME NEW s \in Server, Numbered(s), ~Busy(s), NEW subscription, NEW h \in Calls,
           s.connection = "up" => Settled(s, subscription)
    PROVE  Tracks(StartWorkflow(s, h), subscription)
<1> DEFINE w == [call |-> h, phase |-> "TargetQuery", id |-> 0,
                 subscribedBefore |-> s.uiSubscribed, temporary |-> FALSE, failing |-> FALSE]
           u == [s EXCEPT !.workflow = w]
<1>1. StartWorkflow(s, h) = SendWorkflowRequest(u, "TargetQuery")
  BY DEF StartWorkflow
<1>2. w \in Workflow /\ w # None
  <2>1. s.uiSubscribed \in BOOLEAN /\ "TargetQuery" \in Phases /\ 0 \in Nat
    BY DEF Server, Phases
  <2>2. w \in Workflow
    BY <2>1 DEF Workflow
  <2> HIDE DEF w
  <2> QED
    BY <2>2, NoneAssumption
<1>3. s.connection = "up" => Staged([w EXCEPT !.phase = "TargetQuery"], s.wanted)
  BY DEF Staged, Early, Settled
<1> HIDE DEF w
<1>4. /\ u \in Server /\ u.current = None /\ u.workflow = w /\ u.connection = s.connection
      /\ u.outbox = s.outbox /\ u.inbox = s.inbox /\ u.lastId = s.lastId
      /\ u.uiSubscribed = s.uiSubscribed /\ u.wanted = s.wanted
  BY <1>2 DEF Server, Busy
<1> HIDE DEF u
<1>5. Numbered(u) /\ (u.connection = "up" => Silent(u)) /\ "TargetQuery" \in Phases
  BY <1>4 DEF Numbered, Silent, Settled, Phases
<1>6. s.connection = "up" => subscription = During("TargetQuery", u.wanted)
                             /\ u.uiSubscribed = subscription
  BY <1>4 DEF Settled, During, Early, Server
<1> QED
  BY <1>1, <1>2, <1>3, <1>4, <1>5, <1>6, SendWorkflowTracks

(* The next call is started, or a disconnect ends the connection.          *)
LEMMA DispatchTracks ==
    ASSUME NEW s \in Server, Numbered(s), ~Busy(s), NEW subscription, Tracks(s, subscription)
    PROVE  Tracks(DispatchNextTargetCommand(s), subscription)
<1> DEFINE h == Head(s.queue)
           rest == [s EXCEPT !.queue = Tail(@)]
<1>1. CASE Idle(s)
  <2> DEFINE t == QuitIfInputClosedAndIdle(s)
  <2>1. DispatchNextTargetCommand(s) = t
    BY <1>1 DEF DispatchNextTargetCommand
  <2>2. /\ t.current = s.current /\ t.workflow = s.workflow /\ t.connection = s.connection
        /\ t.outbox = s.outbox /\ t.inbox = s.inbox
        /\ t.uiSubscribed = s.uiSubscribed /\ t.wanted = s.wanted
    BY DEF QuitIfInputClosedAndIdle, Server
  <2> HIDE DEF t
  <2> QED
    BY <2>1, <2>2 DEF Tracks, Settled, Silent, Awaits, Busy
<1>2. CASE ~Idle(s)
  <2>1. s.queue # <<>>
    BY <1>2 DEF Idle
  <2>2. /\ rest \in Server /\ h \in Calls /\ ~Busy(rest) /\ rest.connection = s.connection
        /\ rest.outbox = s.outbox /\ rest.inbox = s.inbox /\ rest.lastId = s.lastId
        /\ rest.uiSubscribed = s.uiSubscribed /\ rest.wanted = s.wanted
    <3>1. s.queue \in Seq(Calls) /\ h \in Calls /\ Tail(s.queue) \in Seq(Calls)
      BY <2>1 DEF Server
    <3> QED
      BY <3>1 DEF Server, Busy
  <2>3. DispatchNextTargetCommand(s) =
          CASE KindOf(h) = "disconnect" ->
                  QuitIfInputClosedAndIdle(Reply(DisconnectTarget(rest), h, "status", h))
            [] KindOf(h) \in Workflows  -> StartWorkflow(rest, h)
            [] OTHER                    -> StartCommand(rest, h)
    BY <1>2 DEF DispatchNextTargetCommand
  <2> HIDE DEF rest, h
  <2>4. Numbered(rest) /\ (rest.connection = "up" => Settled(rest, subscription))
    BY <2>2 DEF Numbered, Tracks, Settled, Silent
  <2>5. CASE KindOf(h) = "disconnect"
    <3> DEFINE d == DisconnectTarget(rest)
               a == Reply(d, h, "status", h)
               t == QuitIfInputClosedAndIdle(a)
    <3>1. d \in Server /\ d.connection = "none"
      BY <2>2, DisconnectFields
    <3> HIDE DEF d
    <3>2. a \in Server /\ a.connection = "none"
      BY <2>2, <3>1, ReplyKeeps
    <3> HIDE DEF a
    <3>3. t.connection = "none"
      BY <3>2 DEF QuitIfInputClosedAndIdle, Server
    <3>4. DispatchNextTargetCommand(s) = t
      BY <2>3, <2>5 DEF a, d, Workflows
    <3> QED
      BY <3>3, <3>4 DEF Tracks
  <2>6. CASE KindOf(h) \in Workflows
    <3>1. DispatchNextTargetCommand(s) = StartWorkflow(rest, h)
      BY <2>3, <2>6 DEF Workflows
    <3> QED
      BY <2>2, <2>4, <3>1, StartWorkflowTracks
  <2>7. CASE KindOf(h) \notin Workflows /\ KindOf(h) # "disconnect"
    <3>1. DispatchNextTargetCommand(s) = StartCommand(rest, h)
      BY <2>3, <2>7
    <3>2. KindOf(h) \in {"command", "subscribe", "unsubscribe"}
      BY <2>2, <2>7, CallsAssumption DEF Kinds, Workflows
    <3> QED
      BY <2>2, <2>4, <3>1, <3>2, StartCommandTracks
  <2> QED
    BY <2>5, <2>6, <2>7
<1> QED
  BY <1>1, <1>2

(* A workflow is answered when the subscription is the client's own again. *)
LEMMA FinishTracks ==
    ASSUME NEW s \in Server, Numbered(s), s.workflow # None, s.current = None,
           NEW subscription, NEW what \in {"result", "error"}, NEW from \in Calls \cup {None},
           s.connection = "up" => Settled(s, subscription)
    PROVE  Tracks(FinishWorkflow(s, what, from), subscription)
<1> DEFINE h == s.workflow.call
           u == [s EXCEPT !.workflow = None]
           a == Reply(u, h, what, from)
<1>1. FinishWorkflow(s, what, from) = DispatchNextTargetCommand(a)
  BY DEF FinishWorkflow
<1>2. /\ u \in Server /\ u.current = None /\ u.workflow = None /\ h \in Calls
      /\ u.connection = s.connection /\ u.lastId = s.lastId
      /\ u.outbox = s.outbox /\ u.inbox = s.inbox
      /\ u.uiSubscribed = s.uiSubscribed /\ u.wanted = s.wanted
  BY DEF Server, Workflow
<1> HIDE DEF u, h
<1> what \in {"status", "gateway", "result", "error"}
  OBVIOUS
<1>3. /\ a \in Server /\ a.current = u.current /\ a.workflow = u.workflow
      /\ a.connection = u.connection /\ a.lastId = u.lastId
      /\ a.outbox = u.outbox /\ a.inbox = u.inbox
      /\ a.uiSubscribed = u.uiSubscribed /\ a.wanted = u.wanted
  BY <1>2, ReplyKeeps
<1> HIDE DEF a
<1>4. Numbered(a) /\ ~Busy(a) /\ Tracks(a, subscription)
  BY <1>2, <1>3 DEF Numbered, Busy, Tracks, Settled, Silent
<1> QED
  BY <1>1, <1>3, <1>4, DispatchTracks

(* What the server knows when the response to its request has been taken   *)
(* off the connection.                                                     *)
Heard(s, subscription, ok, before, method) ==
    /\ Silent(s)
    /\ subscription = After(method, ok, before)
    /\ method = "unsubscribe" => ok
    /\ s.uiSubscribed = before

(* A response to the current command.                                      *)
LEMMA AnswerCurrentTracks ==
    ASSUME NEW s \in Server, Numbered(s), s.current # None, s.workflow = None,
           NEW response \in Response, NEW subscription,
           s.connection = "up" =>
              Heard(s, subscription, response.ok, s.wanted, KindOf(s.current.call))
    PROVE  Tracks(AnswerCurrent(s, response), subscription)
<1> DEFINE h == s.current.call
           ui == SubscriptionAfter(h, response, s.uiSubscribed)
           wants == SubscriptionAfter(h, response, s.wanted)
           u == [s EXCEPT !.uiSubscribed = ui, !.wanted = wants, !.current = None]
           a == Reply(u, h, "result", response.call)
<1>1. AnswerCurrent(s, response) = DispatchNextTargetCommand(a)
  BY DEF AnswerCurrent, Server
<1>2. /\ ui \in BOOLEAN /\ wants \in BOOLEAN
      /\ s.connection = "up" => subscription = wants /\ ui = wants /\ Silent(s)
  <2>1. ui \in BOOLEAN /\ wants \in BOOLEAN
    BY DEF Server, SubscriptionAfter
  <2>2. wants = After(KindOf(h), response.ok, s.wanted)
    BY DEF SubscriptionAfter, After
  <2>3. s.connection = "up" => s.uiSubscribed = s.wanted /\ Silent(s)
                               /\ subscription = After(KindOf(h), response.ok, s.wanted)
    BY DEF Heard
  <2> QED
    BY <2>1, <2>2, <2>3
<1> HIDE DEF ui, wants
<1>3. /\ u \in Server /\ u.current = None /\ u.workflow = None /\ h \in Calls
      /\ u.connection = s.connection /\ u.lastId = s.lastId
      /\ u.outbox = s.outbox /\ u.inbox = s.inbox
      /\ u.uiSubscribed = ui /\ u.wanted = wants /\ response.call \in Calls \cup {None}
  BY <1>2, ZenonT(60) DEF Server, Command, Response
<1> HIDE DEF u, h
<1>4. /\ a \in Server /\ a.current = None /\ a.workflow = None
      /\ a.connection = s.connection /\ a.lastId = s.lastId
      /\ a.outbox = s.outbox /\ a.inbox = s.inbox
      /\ a.uiSubscribed = ui /\ a.wanted = wants
  BY <1>3, ReplyKeeps, ZenonT(60)
<1> HIDE DEF a
<1>5. Numbered(a) /\ ~Busy(a) /\ Tracks(a, subscription)
  BY <1>2, <1>4 DEF Numbered, Busy, Tracks, Settled, Silent
<1> QED
  BY <1>1, <1>4, <1>5, DispatchTracks

(* A workflow that fails unsubscribes before it is answered, if it has     *)
(* subscribed.                                                             *)
LEMMA ErrorTracks ==
    ASSUME NEW s \in Server, Numbered(s), s.workflow # None, s.current = None, NEW subscription,
           s.connection = "up" =>
              /\ Heard(s, subscription, FALSE, During(s.workflow.phase, s.wanted),
                       MethodOf(s.workflow.phase))
              /\ Staged(s.workflow, s.wanted)
    PROVE  Tracks(FinishWorkflowWithError(s, TRUE), subscription)
<1> DEFINE unsubscribes ==
        s.workflow.temporary /\ ~s.workflow.failing /\ s.workflow.phase # "Unsubscribe"
<1>1. s.workflow \in Workflow /\ s.wanted \in BOOLEAN
  BY DEF Server
<1>2. CASE unsubscribes
  <2> DEFINE w == [s.workflow EXCEPT !.failing = TRUE]
             u == [s EXCEPT !.workflow = w]
  <2>1. FinishWorkflowWithError(s, TRUE) = SendWorkflowRequest(u, "Unsubscribe")
    BY <1>2 DEF FinishWorkflowWithError, Server
  <2>2. w \in Workflow /\ w # None
    BY <1>1, NoneAssumption DEF Workflow
  <2>3. s.connection = "up" =>
           /\ Staged([w EXCEPT !.phase = "Unsubscribe"], s.wanted)
           /\ Silent(s) /\ subscription = TRUE /\ s.uiSubscribed = TRUE
    BY <1>1, <1>2 DEF Staged, Early, Heard, After, During, Workflow
  <2> HIDE DEF w
  <2>4. /\ u \in Server /\ u.workflow = w /\ u.current = None /\ u.connection = s.connection
        /\ u.outbox = s.outbox /\ u.inbox = s.inbox /\ u.lastId = s.lastId
        /\ u.uiSubscribed = s.uiSubscribed /\ u.wanted = s.wanted
    BY <2>2 DEF Server
  <2> HIDE DEF u
  <2>5. Numbered(u) /\ (u.connection = "up" => Silent(u)) /\ "Unsubscribe" \in Phases
        /\ During("Unsubscribe", u.wanted) = TRUE
    BY <2>3, <2>4 DEF Numbered, Silent, Phases, During, Early
  <2> QED
    BY <2>1, <2>2, <2>3, <2>4, <2>5, SendWorkflowTracks
<1>3. CASE ~unsubscribes
  <2>1. FinishWorkflowWithError(s, TRUE) = FinishWorkflow(s, "error", s.workflow.call)
    BY <1>3 DEF FinishWorkflowWithError
  <2>2. s.connection = "up" => Settled(s, subscription)
    BY <1>1, <1>3 DEF Staged, Early, Heard, After, During, Workflow, Settled, MethodOf, Phases
  <2>3. s.workflow.call \in Calls
    BY <1>1 DEF Workflow
  <2> QED
    BY <2>1, <2>2, <2>3, FinishTracks
<1> QED
  BY <1>2, <1>3

(* A workflow goes on after a successful response.                         *)
LEMMA AdvanceTracks ==
    ASSUME NEW s \in Server, Numbered(s), s.workflow # None, s.current = None, NEW subscription,
           NEW response \in Response, response.ok, ~s.workflow.failing,
           s.connection = "up" =>
              /\ Heard(s, subscription, TRUE, During(s.workflow.phase, s.wanted),
                       MethodOf(s.workflow.phase))
              /\ Staged(s.workflow, s.wanted)
    PROVE  Tracks(AdvanceWorkflow(s, response), subscription)
<1> DEFINE subscribed == s.workflow.phase = "Subscribe"
                            \/ (s.uiSubscribed /\ s.workflow.phase # "Unsubscribe")
           temporary == s.workflow.temporary \/ s.workflow.phase = "Subscribe"
           w == [s.workflow EXCEPT !.temporary = temporary]
           noted == [s EXCEPT !.uiSubscribed = subscribed, !.workflow = w]
           next == PhaseAfter(s.workflow)
<1>1. /\ s.workflow \in Workflow /\ subscribed \in BOOLEAN /\ temporary \in BOOLEAN
      /\ s.wanted \in BOOLEAN /\ response.call \in Calls \cup {None}
  BY DEF Server, Response
<1>2. w \in Workflow /\ w # None
  BY <1>1, NoneAssumption DEF Workflow
<1>3. AdvanceWorkflow(s, response) =
        IF next = "Finished" THEN FinishWorkflow(noted, "result", response.call)
                             ELSE SendWorkflowRequest(noted, next)
  BY DEF AdvanceWorkflow, Server
<1>4. next \in Phases \cup {"Finished"}
  BY <1>1, PhaseAfterType
<1>5. ASSUME s.connection = "up"
      PROVE  /\ subscription = subscribed
             /\ next = "Finished" => subscribed = s.wanted
             /\ next # "Finished" => /\ subscribed = During(next, s.wanted)
                                     /\ Staged([w EXCEPT !.phase = next], s.wanted)
  <2>1. /\ s.workflow.subscribedBefore = s.wanted
        /\ subscription = After(MethodOf(s.workflow.phase), TRUE, During(s.workflow.phase, s.wanted))
        /\ s.uiSubscribed = During(s.workflow.phase, s.wanted)
    BY <1>5 DEF Heard, Staged
  <2>2. subscription = subscribed
    BY <1>1, <2>1 DEF MethodOf, After, During, Early
  <2>3. CASE s.workflow.phase \in {"TargetQuery", "BeforeQuery"}
    BY <1>1, <1>5, <2>1, <2>2, <2>3 DEF PhaseAfter, During, Early, Staged, Workflow
  <2>4. CASE s.workflow.phase = "Subscribe"
    BY <1>1, <1>5, <2>1, <2>2, <2>4 DEF PhaseAfter, During, Early, Staged, Workflow
  <2>5. CASE s.workflow.phase = "Input"
    BY <1>1, <1>5, <2>1, <2>2, <2>5 DEF PhaseAfter, During, Early, Staged, Workflow
  <2>6. CASE s.workflow.phase \in {"Wait", "AfterQuery"}
    BY <1>1, <1>5, <2>1, <2>2, <2>6 DEF PhaseAfter, During, Early, Staged, Workflow
  <2>7. CASE s.workflow.phase = "Unsubscribe"
    BY <1>1, <1>5, <2>1, <2>2, <2>7 DEF PhaseAfter, During, Early, Staged, Workflow
  <2> QED
    BY <1>1, <2>3, <2>4, <2>5, <2>6, <2>7 DEF Workflow, Phases
<1> HIDE DEF w, subscribed, temporary
<1>6. /\ noted \in Server /\ noted.current = None /\ noted.workflow = w
      /\ noted.connection = s.connection /\ noted.lastId = s.lastId
      /\ noted.outbox = s.outbox /\ noted.inbox = s.inbox
      /\ noted.uiSubscribed = subscribed /\ noted.wanted = s.wanted
  BY <1>1, <1>2 DEF Server
<1> HIDE DEF noted, next
<1>7. Numbered(noted) /\ (noted.connection = "up" => Silent(noted))
  BY <1>6 DEF Numbered, Silent, Heard
<1>8. CASE next = "Finished"
  BY <1>1, <1>2, <1>3, <1>5, <1>6, <1>7, <1>8, FinishTracks DEF Settled
<1>9. CASE next # "Finished"
  BY <1>2, <1>3, <1>4, <1>5, <1>6, <1>7, <1>9, SendWorkflowTracks
<1> QED
  BY <1>8, <1>9

(* A response to the workflow's request.                                   *)
LEMMA WorkflowResponseTracks ==
    ASSUME NEW s \in Server, Numbered(s), s.workflow # None, s.current = None, NEW subscription,
           NEW response \in Response,
           s.connection = "up" =>
              /\ Heard(s, subscription, response.ok, During(s.workflow.phase, s.wanted),
                       MethodOf(s.workflow.phase))
              /\ Staged(s.workflow, s.wanted)
    PROVE  Tracks(HandleWorkflowResponse(s, response), subscription)
<1>1. CASE s.workflow.failing
  <2> DEFINE u == [s EXCEPT !.uiSubscribed = s.uiSubscribed /\ ~response.ok]
  <2>1. (s.uiSubscribed /\ ~response.ok) \in BOOLEAN
    OBVIOUS
  <2>2. /\ u \in Server /\ u.current = s.current /\ u.workflow = s.workflow
        /\ u.connection = s.connection /\ u.lastId = s.lastId
        /\ u.outbox = s.outbox /\ u.inbox = s.inbox
        /\ u.uiSubscribed = (s.uiSubscribed /\ ~response.ok) /\ u.wanted = s.wanted
    BY <2>1 DEF Server
  <2>3. HandleWorkflowResponse(s, response) = FinishWorkflow(u, "error", response.call)
    BY <1>1 DEF HandleWorkflowResponse
  <2> HIDE DEF u
  <2>4. Numbered(u) /\ response.call \in Calls \cup {None}
    BY <2>2 DEF Numbered, Response
  <2>5. ASSUME s.connection = "up"
        PROVE  Settled(u, subscription)
    <3>1. /\ s.workflow.phase = "Unsubscribe" /\ ~s.wanted /\ s.wanted \in BOOLEAN
          /\ Heard(s, subscription, response.ok, During(s.workflow.phase, s.wanted), "unsubscribe")
      BY <1>1, <2>5 DEF Staged, Server, MethodOf
    <3>2. response.ok /\ subscription = FALSE /\ Silent(s)
      BY <3>1 DEF Heard, After
    <3> QED
      BY <2>2, <3>1, <3>2 DEF Settled, Silent
  <2> QED
    BY <2>2, <2>3, <2>4, <2>5, FinishTracks
<1>2. CASE ~s.workflow.failing /\ ~response.ok
  <2>1. HandleWorkflowResponse(s, response) = FinishWorkflowWithError(s, TRUE)
    BY <1>2 DEF HandleWorkflowResponse
  <2>2. response.ok = FALSE
    BY <1>2 DEF Response
  <2> QED
    BY <2>1, <2>2, ErrorTracks
<1>3. CASE ~s.workflow.failing /\ response.ok
  <2>1. HandleWorkflowResponse(s, response) = AdvanceWorkflow(s, response)
    BY <1>3 DEF HandleWorkflowResponse
  <2>2. response.ok = TRUE
    BY <1>3 DEF Response
  <2> QED
    BY <1>3, <2>1, <2>2, AdvanceTracks
<1> QED
  BY <1>1, <1>2, <1>3

(* A call is appended to the queue: nothing that is tracked changes.       *)
LEMMA TracksQueue ==
    ASSUME NEW s \in Server, NEW h \in Calls, NEW subscription, Tracks(s, subscription),
           Numbered(s)
    PROVE  LET t == [s EXCEPT !.queue = Append(@, h)] IN
           Tracks(DispatchNextTargetCommand(t), subscription)
<1> DEFINE t == [s EXCEPT !.queue = Append(@, h)]
<1>1. Append(s.queue, h) \in Seq(Calls)
  BY DEF Server
<1>2. /\ t \in Server /\ t.current = s.current /\ t.workflow = s.workflow
      /\ t.connection = s.connection /\ t.lastId = s.lastId
      /\ t.outbox = s.outbox /\ t.inbox = s.inbox
      /\ t.uiSubscribed = s.uiSubscribed /\ t.wanted = s.wanted
  BY <1>1 DEF Server
<1> HIDE DEF t
<1>3. Numbered(t) /\ Tracks(t, subscription)
  BY <1>2 DEF Numbered, Tracks, Settled, Silent, Awaits, Busy
<1>4. CASE Busy(t)
  <2>1. DispatchNextTargetCommand(t) = t
    BY <1>4 DEF DispatchNextTargetCommand, Idle
  <2> QED
    BY <1>3, <2>1 DEF t
<1>5. CASE ~Busy(t)
  <2>1. Tracks(DispatchNextTargetCommand(t), subscription)
    BY <1>2, <1>3, <1>5, DispatchTracks
  <2> QED
    BY <2>1 DEF t
<1> QED
  BY <1>4, <1>5

(* A call by the client changes nothing but starts work at most.           *)
LEMMA ToolCallTracks ==
    ASSUME IInv, SubscriptionInv, NEW call \in Calls, ToolCall(call)
    PROVE  SubscriptionInv'
<1> SUFFICES ASSUME ~troubled PROVE Tracks(server', observed')
  BY DEF SubscriptionInv, ToolCall
<1>1. server \in Server /\ Numbered(server) /\ Tracks(server, observed)
  BY DEF IInv, Sound, SubscriptionInv
<1>2. Tracks(DispatchNextTargetCommand([server EXCEPT !.queue = Append(@, call)]), observed)
  BY <1>1, TracksQueue
<1>3. CASE DisconnectCalled(call)
  <2>1. CASE Idle(server)
    <3> DEFINE d == DisconnectTarget(server)
    <3>1. d \in Server /\ d.connection = "none"
      BY <1>1, DisconnectFields
    <3>2. server' = Reply(d, call, "status", call)
      BY <1>3, <2>1 DEF DisconnectCalled
    <3> HIDE DEF d
    <3>3. server'.connection = "none"
      BY <3>1, <3>2, ReplyKeeps
    <3> QED
      BY <3>3 DEF Tracks
  <2>2. CASE ~Idle(server)
    BY <1>2, <1>3, <2>2 DEF DisconnectCalled
  <2> QED
    BY <2>1, <2>2
<1>4. CASE RoutedViaLauncher(call)
  <2>1. server'.connection = server.connection
    BY <1>1, <1>4, ReplyKeeps DEF RoutedViaLauncher
  <2> QED
    BY <1>4, <2>1 DEF RoutedViaLauncher, Tracks
<1>5. CASE Enqueued(call)
  BY <1>2, <1>5 DEF Enqueued
<1> QED
  BY <1>3, <1>4, <1>5 DEF ToolCall

(* A new connection begins with two commands and no subscription.          *)
LEMMA ConnectTracks == IInv /\ Connect => Tracks(server', observed')
<1> SUFFICES ASSUME IInv, Connect PROVE Tracks(server', observed')
  OBVIOUS
<1> DEFINE d == DisconnectTarget(server)
           up == [d EXCEPT !.connection = "up"]
           info == SendMessage(up, None, "command")
           enable == SendMessage(info, None, "command")
           lost == [enable EXCEPT !.outbox = Tail(@)]
<1>1. /\ d \in Server /\ d.connection = "none" /\ d.current = None /\ d.workflow = None
      /\ d.outbox = <<>> /\ ~d.uiSubscribed /\ ~d.wanted
  BY DisconnectFields DEF IInv, Sound
<1>2. server' = d \/ server' = enable \/ server' = lost
  BY DEF Connect
<1> HIDE DEF d
<1>3. /\ up \in Server /\ up.connection = "up" /\ up.current = None /\ up.workflow = None
      /\ Len(up.outbox) = 0 /\ ~up.uiSubscribed /\ ~up.wanted
  BY <1>1 DEF Server
<1> HIDE DEF up
<1>4. /\ info \in Server /\ info.connection = "up" /\ info.current = None /\ info.workflow = None
      /\ ~info.uiSubscribed /\ ~info.wanted
      /\ Len(info.outbox) = Len(up.outbox) + 1
      /\ info.outbox[Len(up.outbox) + 1].method = "command"
  BY <1>3, SendOwnCommand
<1> HIDE DEF info
<1>5. /\ enable \in Server /\ enable.connection = "up" /\ enable.current = None
      /\ enable.workflow = None /\ ~enable.uiSubscribed /\ ~enable.wanted
      /\ Len(enable.outbox) = Len(info.outbox) + 1
      /\ \A i \in 1..Len(info.outbox) : enable.outbox[i] = info.outbox[i]
      /\ enable.outbox[Len(info.outbox) + 1].method = "command"
  BY <1>4, SendOwnCommand
<1>6. /\ Len(enable.outbox) = 2
      /\ enable.outbox[1].method = "command" /\ enable.outbox[2].method = "command"
  BY <1>3, <1>4, <1>5
<1>7. /\ enable.outbox \in Seq(Request)
      /\ enable.uiSubscribed \in BOOLEAN /\ enable.wanted \in BOOLEAN
  BY <1>5 DEF Server
<1>8. \A i \in 1..2 : enable.outbox[i].method = "command"
  BY <1>6
<1> HIDE DEF enable
<1>9. Silent(enable)
  BY <1>6, <1>8 DEF Silent
<1>10. /\ lost.connection = "up" /\ lost.current = None /\ lost.workflow = None
       /\ lost.uiSubscribed = FALSE /\ lost.wanted = FALSE /\ lost.outbox = Tail(enable.outbox)
  BY <1>5, <1>7 DEF Server
<1>11. Len(Tail(enable.outbox)) = 1 /\ Tail(enable.outbox)[1].method = "command"
  BY <1>6, <1>7, <1>8
<1> HIDE DEF lost
<1>12. Silent(lost)
  BY <1>10, <1>11 DEF Silent
<1>13. observed' = FALSE
  BY DEF Connect
<1> QED
  BY <1>1, <1>2, <1>5, <1>7, <1>9, <1>10, <1>12, <1>13 DEF Tracks, Settled, Busy

(* A response the server waits for tells it the subscription; another one  *)
(* changes nothing.                                                        *)
LEMMA MessageTracks ==
    ASSUME IInv, SubscriptionInv, TargetMessage
    PROVE  SubscriptionInv'
<1> SUFFICES ASSUME ~troubled PROVE Tracks(server', observed')
  BY DEF SubscriptionInv, TargetMessage
<1> DEFINE response == Head(server.inbox)
           s == [server EXCEPT !.inbox = Tail(@)]
           u == [s EXCEPT !.timer = FALSE]
<1>1. /\ server \in Server /\ Numbered(server) /\ Tracks(server, observed)
      /\ server.current = None \/ server.workflow = None
  BY DEF IInv, Sound, OneThing, SubscriptionInv
<1>2. /\ server.inbox \in Seq(Response) /\ Tail(server.inbox) \in Seq(Response)
      /\ Len(server.inbox) \in Nat /\ 1 \in 1..Len(server.inbox)
      /\ response = server.inbox[1] /\ response \in Response
      /\ Len(Tail(server.inbox)) = Len(server.inbox) - 1
      /\ \A i \in 1..Len(Tail(server.inbox)) : Tail(server.inbox)[i] = server.inbox[i + 1]
  BY <1>1 DEF TargetMessage, Server
<1>3. /\ s \in Server /\ s.current = server.current /\ s.workflow = server.workflow
      /\ s.connection = server.connection /\ s.lastId = server.lastId
      /\ s.outbox = server.outbox /\ s.inbox = Tail(server.inbox)
      /\ s.uiSubscribed = server.uiSubscribed /\ s.wanted = server.wanted
  BY <1>1, <1>2 DEF Server
<1>4. server' = HandleTargetMessage(s, response)
      /\ observed' = (observed /\ server'.connection = "up") /\ observed \in BOOLEAN
  BY DEF TargetMessage, IInv
<1>5. HandleTargetMessage(s, response) =
        CASE s.workflow # None /\ s.workflow.id = response.id -> HandleWorkflowResponse(u, response)
          [] s.current # None /\ s.current.id = response.id   -> AnswerCurrent(u, response)
          [] OTHER                                            -> s
  BY DEF HandleTargetMessage
<1> HIDE DEF s, response
<1>6. /\ u \in Server /\ u.current = s.current /\ u.workflow = s.workflow
      /\ u.connection = s.connection /\ u.lastId = s.lastId
      /\ u.outbox = s.outbox /\ u.inbox = s.inbox
      /\ u.uiSubscribed = s.uiSubscribed /\ u.wanted = s.wanted
  BY <1>3 DEF Server
<1> HIDE DEF u
<1>7. \A i \in 1..Len(s.inbox) : i + 1 \in 1..Len(server.inbox) /\ s.inbox[i] = server.inbox[i + 1]
  BY <1>2, <1>3
<1>8. Numbered(s) /\ Numbered(u)
  BY <1>1, <1>3, <1>6, <1>7 DEF Numbered
<1>9. ASSUME NEW id, NEW method, NEW before, Awaits(server, observed, id, method, before),
             id = response.id, server.uiSubscribed = before
      PROVE  Heard(u, observed, response.ok, before, method)
  <2>1. \A i \in 1..Len(server.outbox) : server.outbox[i].id # id
    BY <1>2, <1>9 DEF Awaits
  <2>2. Silent(u)
    BY <1>3, <1>6, <1>9, <2>1 DEF Awaits, Silent
  <2> QED
    BY <1>2, <1>3, <1>6, <1>9, <2>2 DEF Awaits, Heard
<1>10. ASSUME NEW id, NEW method, NEW before, Awaits(server, observed, id, method, before),
              id # response.id
       PROVE  Awaits(s, observed, id, method, before)
  <2>1. (\A j \in 1..Len(s.inbox) : s.inbox[j].id # id)
           => \A j \in 1..Len(server.inbox) : server.inbox[j].id # id
    <3> SUFFICES ASSUME \A j \in 1..Len(s.inbox) : s.inbox[j].id # id,
                        NEW j \in 1..Len(server.inbox)
                 PROVE  server.inbox[j].id # id
      OBVIOUS
    <3>1. CASE j = 1
      BY <1>2, <1>10, <3>1
    <3>2. CASE j # 1
      <4>1. j - 1 \in 1..Len(s.inbox) /\ s.inbox[j - 1] = server.inbox[j]
        BY <1>2, <1>3, <3>2
      <4> QED
        BY <4>1
    <3> QED
      BY <3>1, <3>2
  <2> QED
    BY <1>3, <1>7, <1>10, <2>1 DEF Awaits
<1>11. CASE s.workflow # None /\ s.workflow.id = response.id
  <2>1. server' = HandleWorkflowResponse(u, response)
    BY <1>1, <1>3, <1>4, <1>5, <1>11
  <2>2. u.connection = "up" =>
           /\ Heard(u, observed, response.ok, During(u.workflow.phase, u.wanted),
                    MethodOf(u.workflow.phase))
           /\ Staged(u.workflow, u.wanted)
    BY <1>1, <1>3, <1>6, <1>9, <1>11 DEF Tracks
  <2>3. u.current = None
    BY <1>1, <1>3, <1>6, <1>11
  <2>4. Tracks(server', observed)
    BY <1>2, <1>6, <1>8, <1>11, <2>1, <2>2, <2>3, WorkflowResponseTracks
  <2> QED
    BY <1>4, <2>4 DEF Tracks
<1>12. CASE ~(s.workflow # None /\ s.workflow.id = response.id)
            /\ s.current # None /\ s.current.id = response.id
  <2>1. server' = AnswerCurrent(u, response)
    BY <1>4, <1>5, <1>12
  <2>2. u.connection = "up" =>
           Heard(u, observed, response.ok, u.wanted, KindOf(u.current.call))
    BY <1>1, <1>3, <1>6, <1>9, <1>12 DEF Tracks
  <2>3. u.workflow = None
    BY <1>1, <1>3, <1>6, <1>12
  <2>4. Tracks(server', observed)
    BY <1>2, <1>6, <1>8, <1>12, <2>1, <2>2, <2>3, AnswerCurrentTracks
  <2> QED
    BY <1>4, <2>4 DEF Tracks
<1>13. CASE /\ ~(s.workflow # None /\ s.workflow.id = response.id)
            /\ ~(s.current # None /\ s.current.id = response.id)
  <2>1. server' = s
    BY <1>4, <1>5, <1>13
  <2>2. Tracks(s, observed)
    BY <1>1, <1>3, <1>10, <1>13 DEF Tracks, Settled, Silent, Busy
  <2> QED
    BY <1>4, <2>1, <2>2 DEF Tracks
<1> QED
  BY <1>11, <1>12, <1>13

(* The target answers: unless it refuses or fails, its subscription is     *)
(* what the response will tell.                                            *)
LEMMA TargetAnswersTracks ==
    ASSUME IInv, SubscriptionInv, NEW ok \in BOOLEAN, NEW executed \in BOOLEAN,
           TargetAnswers(ok, executed)
    PROVE  SubscriptionInv'
<1> SUFFICES ASSUME ~troubled' PROVE Tracks(server', observed')
  BY DEF SubscriptionInv
<1> DEFINE request == Head(server.outbox)
           r == [id |-> request.id, ok |-> ok, call |-> request.call]
<1>1. /\ server \in Server /\ ~troubled /\ Tracks(server, observed)
      /\ ok = executed
      /\ ok \/ request.method # "unsubscribe"
  BY DEF IInv, Sound, SubscriptionInv, TargetAnswers
<1>2. /\ server.outbox \in Seq(Request) /\ Tail(server.outbox) \in Seq(Request)
      /\ Len(server.outbox) \in Nat /\ 1 \in 1..Len(server.outbox)
      /\ request = server.outbox[1] /\ request \in Request
      /\ Len(Tail(server.outbox)) = Len(server.outbox) - 1
      /\ \A i \in 1..Len(Tail(server.outbox)) : Tail(server.outbox)[i] = server.outbox[i + 1]
  BY <1>1 DEF TargetAnswers, Server
<1>3. r \in Response /\ r.id = request.id /\ r.ok = ok
  BY <1>2 DEF Request, Response
<1>4. server' = [server EXCEPT !.outbox = Tail(server.outbox), !.inbox = Append(server.inbox, r)]
  BY <1>1 DEF TargetAnswers, Server
<1>5. observed' = After(request.method, ok, observed)
  BY <1>1, <1>2 DEF TargetAnswers, After, Request
<1> HIDE DEF r, request
<1>6. /\ server.inbox \in Seq(Response) /\ Append(server.inbox, r) \in Seq(Response)
      /\ Len(server.inbox) \in Nat /\ Len(Append(server.inbox, r)) = Len(server.inbox) + 1
      /\ \A i \in 1..Len(server.inbox) : Append(server.inbox, r)[i] = server.inbox[i]
      /\ Append(server.inbox, r)[Len(server.inbox) + 1] = r
  BY <1>1, <1>3 DEF Server
<1>7. /\ server'.current = server.current /\ server'.workflow = server.workflow
      /\ server'.connection = server.connection
      /\ server'.outbox = Tail(server.outbox) /\ server'.inbox = Append(server.inbox, r)
      /\ server'.uiSubscribed = server.uiSubscribed /\ server'.wanted = server.wanted
  BY <1>1, <1>2, <1>4, <1>6 DEF Server
<1>8. /\ \A i \in 1..Len(server'.outbox) :
            i + 1 \in 1..Len(server.outbox) /\ server'.outbox[i] = server.outbox[i + 1]
      /\ \A i \in 1..Len(server'.inbox) :
            \/ i \in 1..Len(server.inbox) /\ server'.inbox[i] = server.inbox[i]
            \/ i = Len(server.inbox) + 1 /\ server'.inbox[i] = r
      /\ \A i \in 1..Len(server.inbox) :
            i \in 1..Len(server'.inbox) /\ server'.inbox[i] = server.inbox[i]
      /\ Len(server.inbox) + 1 \in 1..Len(server'.inbox)
      /\ server'.inbox[Len(server.inbox) + 1] = r
  BY <1>2, <1>6, <1>7
<1>9. ASSUME NEW id, NEW method, NEW before, Awaits(server, observed, id, method, before)
      PROVE  Awaits(server', observed', id, method, before)
  <2>1. /\ \A i \in 1..Len(server.outbox) : server.outbox[i].method # "command" => server.outbox[i].id = id
        /\ \A i \in 1..Len(server.outbox) : server.outbox[i].id = id => server.outbox[i].method = method
        /\ \A i, j \in 1..Len(server.outbox) :
              server.outbox[i].id = id /\ server.outbox[j].id = id => i = j
    BY <1>9 DEF Awaits
  <2>2. /\ \A j \in 1..Len(server.inbox) : server.inbox[j].id = id =>
              /\ \A i \in 1..Len(server.outbox) : server.outbox[i].id # id
              /\ observed = After(method, server.inbox[j].ok, before)
              /\ method = "unsubscribe" => server.inbox[j].ok
        /\ (\A j \in 1..Len(server.inbox) : server.inbox[j].id # id) => observed = before
    BY <1>9 DEF Awaits
  <2>3. /\ \A i \in 1..Len(server'.outbox) :
              server'.outbox[i].method # "command" => server'.outbox[i].id = id
        /\ \A i \in 1..Len(server'.outbox) :
              server'.outbox[i].id = id => server'.outbox[i].method = method
    <3> SUFFICES ASSUME NEW i \in 1..Len(server'.outbox)
                 PROVE  /\ server'.outbox[i].method # "command" => server'.outbox[i].id = id
                        /\ server'.outbox[i].id = id => server'.outbox[i].method = method
      OBVIOUS
    <3>1. i + 1 \in 1..Len(server.outbox) /\ server'.outbox[i] = server.outbox[i + 1]
      BY <1>8
    <3> QED
      BY <2>1, <3>1
  <2>4. \A i, j \in 1..Len(server'.outbox) :
           server'.outbox[i].id = id /\ server'.outbox[j].id = id => i = j
    <3> SUFFICES ASSUME NEW i \in 1..Len(server'.outbox), NEW j \in 1..Len(server'.outbox),
                        server'.outbox[i].id = id, server'.outbox[j].id = id
                 PROVE  i = j
      OBVIOUS
    <3>1. /\ i + 1 \in 1..Len(server.outbox) /\ server.outbox[i + 1].id = id
          /\ j + 1 \in 1..Len(server.outbox) /\ server.outbox[j + 1].id = id
      BY <1>8
    <3>2. i + 1 = j + 1
      BY <2>1, <3>1
    <3> QED
      BY <3>2
  <2>5. CASE request.id = id
    <3>1. /\ request.method = method
          /\ \A j \in 1..Len(server.inbox) : server.inbox[j].id # id
          /\ observed = before
      BY <1>2, <2>1, <2>2, <2>5
    <3>2. \A i \in 1..Len(server'.outbox) : server'.outbox[i].id # id
      <4> SUFFICES ASSUME NEW i \in 1..Len(server'.outbox), server'.outbox[i].id = id
                   PROVE  FALSE
        OBVIOUS
      <4>1. i + 1 \in 1..Len(server.outbox) /\ server.outbox[i + 1].id = id
        BY <1>8
      <4>2. i + 1 = 1
        BY <1>2, <2>1, <2>5, <4>1
      <4> QED
        BY <4>2
    <3>3. \A j \in 1..Len(server'.inbox) : server'.inbox[j].id = id => server'.inbox[j] = r
      BY <1>8, <3>1
    <3>4. \A j \in 1..Len(server'.inbox) : server'.inbox[j].id = id =>
             /\ \A i \in 1..Len(server'.outbox) : server'.outbox[i].id # id
             /\ observed' = After(method, server'.inbox[j].ok, before)
             /\ method = "unsubscribe" => server'.inbox[j].ok
      BY <1>1, <1>3, <1>5, <3>1, <3>2, <3>3
    <3>5. ~(\A j \in 1..Len(server'.inbox) : server'.inbox[j].id # id)
      BY <1>3, <1>8, <2>5
    <3> QED
      BY <2>3, <2>4, <3>4, <3>5 DEF Awaits
  <2>6. CASE request.id # id
    <3>1. observed' = observed
      BY <1>2, <1>5, <2>1, <2>6 DEF After
    <3>2. \A j \in 1..Len(server'.inbox) : server'.inbox[j].id = id =>
             j \in 1..Len(server.inbox) /\ server'.inbox[j] = server.inbox[j]
      BY <1>3, <1>8, <2>6
    <3>3. ASSUME \A i \in 1..Len(server.outbox) : server.outbox[i].id # id
          PROVE  \A i \in 1..Len(server'.outbox) : server'.outbox[i].id # id
      BY <1>8, <3>3
    <3>4. \A j \in 1..Len(server'.inbox) : server'.inbox[j].id = id =>
             /\ \A i \in 1..Len(server'.outbox) : server'.outbox[i].id # id
             /\ observed' = After(method, server'.inbox[j].ok, before)
             /\ method = "unsubscribe" => server'.inbox[j].ok
      BY <2>2, <3>1, <3>2, <3>3
    <3>5. (\A j \in 1..Len(server'.inbox) : server'.inbox[j].id # id) => observed' = before
      BY <1>8, <2>2, <3>1
    <3> QED
      BY <2>3, <2>4, <3>4, <3>5 DEF Awaits
  <2> QED
    BY <2>5, <2>6
<1>10. ASSUME Settled(server, observed)
       PROVE  Settled(server', observed')
  <2>1. request.method = "command" /\ observed' = observed
    BY <1>2, <1>5, <1>10 DEF Settled, Silent, After
  <2> QED
    BY <1>7, <1>8, <1>10, <2>1 DEF Settled, Silent
<1> QED
  BY <1>1, <1>7, <1>9, <1>10 DEF Tracks, Busy

(* Every event of the loop preserves it.                                   *)
LEMMA NextTracks == IInv /\ SubscriptionInv /\ [Next]_vars => SubscriptionInv'
<1> SUFFICES ASSUME IInv, SubscriptionInv, [Next]_vars PROVE SubscriptionInv'
  OBVIOUS
<1>1. CASE UNCHANGED vars
  BY <1>1 DEF vars, SubscriptionInv
<1>2. CASE TimerFires
  BY <1>2 DEF TimerFires, SubscriptionInv
<1>3. CASE Disconnected
  <2> DEFINE a == AnswerOutstanding(server)
  <2>1. a \in Server
    BY <1>3, AnswerOutstandingSound DEF IInv, Sound, Disconnected
  <2> HIDE DEF a
  <2>2. server' = [a EXCEPT !.connection = "lost", !.uiSubscribed = FALSE, !.wanted = FALSE,
                            !.outbox = <<>>, !.inbox = <<>>]
    BY <1>3 DEF a, Disconnected
  <2>3. server'.connection = "lost"
    BY <2>1, <2>2 DEF Server
  <2> QED
    BY <2>3 DEF SubscriptionInv, Tracks
<1>4. CASE InputClosed \/ Exit
  <2>1. /\ server'.current = server.current /\ server'.workflow = server.workflow
        /\ server'.connection = server.connection
        /\ server'.outbox = server.outbox /\ server'.inbox = server.inbox
        /\ server'.uiSubscribed = server.uiSubscribed /\ server'.wanted = server.wanted
        /\ observed' = observed /\ troubled' = troubled
    BY <1>4 DEF InputClosed, Exit, QuitIfInputClosedAndIdle, IInv, Sound, Server
  <2> QED
    BY <2>1 DEF SubscriptionInv, Tracks, Settled, Silent, Awaits, Busy
<1>5. CASE Connect
  BY <1>5, ConnectTracks DEF SubscriptionInv
<1> QED
  BY <1>1, <1>2, <1>3, <1>4, <1>5, ToolCallTracks, MessageTracks, TargetAnswersTracks DEF Next

(* What a workflow subscribes to ends with it, and the server's own flag   *)
(* agrees with the target, on every connection without trouble.            *)
THEOREM SubscriptionsEnd == Spec => []TemporarySubscriptionEnds
<1>1. Init => SubscriptionInv
  BY DEF Init, SubscriptionInv, Tracks
<1>2. IInv /\ SubscriptionInv => TemporarySubscriptionEnds
  BY DEF IInv, SubscriptionInv, Tracks, Settled, TemporarySubscriptionEnds
<1> QED
  BY <1>1, <1>2, NextTracks, Invariance, PTL DEF Spec

=============================================================================
