------------------------ MODULE ControlMailboxProofs ------------------------
(***************************************************************************)
(* Proofs about ControlMailbox for every set of calls and every mix of     *)
(* requests. The inductive invariant follows a request from the mailbox to *)
(* the target and back: what is still in the mailbox has left no trace     *)
(* further on, an agent request travels once and under one id, and what a  *)
(* response says was true when it was written and stays so.                *)
(***************************************************************************)
EXTENDS ControlMailbox, FiniteSetTheorems, SequenceTheorems, TLAPS

(* TypeOK without its bound on the ids: Clients may be infinite here.      *)
Envelope == [id : Nat, client : Clients]

Types ==
    /\ phase \in [Clients -> {"idle", "locked", "waiting", "returned", "refused", "gaveUp"}]
    /\ kind \in [Clients -> Kinds]
    /\ answer \in [Clients -> Response \cup {NoResponse}]
    /\ after \in [Clients -> SUBSET Clients]
    /\ lock \in Clients \cup {None}
    /\ mailbox \in BOOLEAN
    /\ requests \subseteq Clients
    /\ responses \in [Clients -> Response \cup {NoResponse}]
    /\ launcher \in {"up", "gone"}
    /\ ready \in BOOLEAN
    /\ stopRequested \in BOOLEAN
    /\ batch \subseteq Clients
    /\ reload \in [client : Clients, at : {"reset", "answer"}] \cup [client : {None}, at : {"none"}]
    /\ pending \subseteq Envelope
    /\ nextId \in Nat \ {0}
    /\ target \in {"running", "exited"}
    /\ toTarget \in Seq(Envelope)
    /\ toLauncher \in Seq(Envelope)
    /\ executed \in [Clients -> Nat]
    /\ resets \subseteq Clients

(* The launcher has not handled the request of c yet.                      *)
Early(c) == phase[c] \in {"idle", "locked", "refused"} \/ c \in requests

(* No agent request of c is with the target, on its way to it, or awaited. *)
NotForwarded(c) ==
    /\ executed[c] = 0
    /\ \A p \in pending : p.client # c
    /\ \A i \in 1..Len(toTarget) : toTarget[i].client = c => toTarget[i].id = 0

(* What is in the mailbox has left no trace behind it.                     *)
EarlyInv ==
    \A c \in Clients :
        /\ c \in requests => phase[c] \in {"waiting", "gaveUp"}
        /\ Early(c) => /\ NotForwarded(c)
                       /\ responses[c] = NoResponse
                       /\ reload.client # c

(* An id stands for one request, wherever it is met.                       *)
IdInv ==
    /\ \A p \in pending : p.id \in 1..(nextId - 1)
    /\ \A p, q \in pending : p.id = q.id => p = q
    /\ \A i \in 1..Len(toTarget) :
          toTarget[i].id # 0 =>
              /\ toTarget[i].id < nextId
              /\ \A p \in pending : p.id = toTarget[i].id => p.client = toTarget[i].client
    /\ \A i \in 1..Len(toLauncher) :
          /\ toLauncher[i].id \in 1..(nextId - 1)
          /\ \A p \in pending : p.id = toLauncher[i].id => p.client = toLauncher[i].client

(* An agent request on its way has not been carried out and travels once.  *)
TravelInv ==
    /\ \A i \in 1..Len(toTarget) :
          toTarget[i].id # 0 => /\ kind[toTarget[i].client] = "agent"
                                /\ executed[toTarget[i].client] = 0
    /\ \A i, j \in 1..Len(toTarget) :
          /\ toTarget[i].id # 0 /\ toTarget[j].id # 0
          /\ toTarget[i].client = toTarget[j].client
          => i = j
    /\ \A i \in 1..Len(toLauncher) :
          /\ kind[toLauncher[i].client] = "agent"
          /\ executed[toLauncher[i].client] > 0

(* The target carries out a request once, although both the poll timer and *)
(* the directory watcher list the mailbox.                                 *)
ExecutedAtMostOnce == \A c \in Clients : executed[c] <= 1

(* A response tells its own client the truth.                              *)
Truthful(c, response) ==
    /\ response.to = c
    /\ response.what = "result" => kind[c] = "agent" /\ executed[c] > 0
    /\ response.what = "not_ready" => ~Early(c) /\ NotForwarded(c)

ResponseInv ==
    \A c \in Clients :
        /\ responses[c] # NoResponse => Truthful(c, responses[c])
        /\ phase[c] = "returned" => Truthful(c, answer[c])
        /\ phase[c] # "returned" => answer[c] = NoResponse

(* The reset for a reloaded preview was handled, or is at one of the first *)
(* n places of the connection.                                             *)
ResetBefore(d, n) ==
    d \in resets \/ \E i \in 1..n : toTarget[i].id = 0 /\ toTarget[i].client = d

ResetSent(d) == ResetBefore(d, Len(toTarget))

(* Who hears of a reload hears of it behind its reset.                     *)
ResetInv ==
    \A d \in Clients :
        /\ responses[d].what = "reloaded" => ResetSent(d)
        /\ answer[d].what = "reloaded" => ResetSent(d)
        /\ reload.client = d /\ reload.at = "answer" => ResetSent(d)

OrderInv ==
    /\ \A c \in Clients : \A d \in after[c] : ResetSent(d)
    /\ \A i \in 1..Len(toTarget) :
          toTarget[i].id # 0 => \A d \in after[toTarget[i].client] : ResetBefore(d, i - 1)
    /\ ResetBeforeNextRequest

IInv ==
    /\ Types
    /\ EarlyInv
    /\ IdInv
    /\ TravelInv
    /\ ExecutedAtMostOnce
    /\ ResponseInv
    /\ ResetInv
    /\ OrderInv

-----------------------------------------------------------------------------
(* It holds before the first call.                                         *)
LEMMA InitIInv == Init => IInv
<1> SUFFICES ASSUME Init PROVE IInv
  OBVIOUS
<1> USE NoneAssumption, MixesAssumption DEF Init
<1>1. Types
  <2>1. pending \subseteq Envelope /\ toTarget \in Seq(Envelope) /\ toLauncher \in Seq(Envelope)
    OBVIOUS
  <2>2. kind \in [Clients -> Kinds]
    OBVIOUS
  <2>3. mailbox \in BOOLEAN /\ ready \in BOOLEAN /\ stopRequested \in BOOLEAN
    BY Zenon
  <2> QED
    BY <2>1, <2>2, <2>3 DEF Types
<1>2. EarlyInv /\ IdInv /\ TravelInv /\ ExecutedAtMostOnce
  BY DEF EarlyInv, Early, NotForwarded, IdInv, TravelInv, ExecutedAtMostOnce
<1>3. ResponseInv /\ ResetInv /\ OrderInv
  BY DEF ResponseInv, ResetInv, OrderInv, NoResponse, ResetBeforeNextRequest
<1> QED
  BY <1>1, <1>2, <1>3 DEF IInv

(* A step of a client leaves the launcher and the target alone.            *)
LEMMA ClientIInv ==
    ASSUME IInv, NEW c \in Clients, ClientStep(c)
    PROVE  IInv'
<1> USE NoneAssumption DEF IInv, clientVars, fileVars, launcherVars, targetVars
<1>1. CASE AcquireLock(c)
  <2> USE <1>1 DEF AcquireLock
  <2>1. Types'
    BY DEF Types
  <2>2. EarlyInv'
    BY DEF Types, EarlyInv, Early, NotForwarded
  <2>3. IdInv' /\ TravelInv' /\ ExecutedAtMostOnce'
    BY DEF IdInv, TravelInv, ExecutedAtMostOnce
  <2>4. ResponseInv'
    BY DEF Types, ResponseInv, Truthful, Early, NotForwarded
  <2>5. ResetInv' /\ OrderInv'
    BY DEF ResetInv, OrderInv, ResetSent, ResetBefore, ResetBeforeNextRequest
  <2> QED
    BY <2>1, <2>2, <2>3, <2>4, <2>5
<1>2. CASE CannotLock(c)
  <2> USE <1>2 DEF CannotLock
  <2>1. Types'
    BY DEF Types
  <2>2. EarlyInv'
    BY DEF Types, EarlyInv, Early, NotForwarded
  <2>3. IdInv' /\ TravelInv' /\ ExecutedAtMostOnce'
    BY DEF IdInv, TravelInv, ExecutedAtMostOnce
  <2>4. ResponseInv'
    BY DEF Types, ResponseInv, Truthful, Early, NotForwarded
  <2>5. ResetInv' /\ OrderInv'
    BY DEF ResetInv, OrderInv, ResetSent, ResetBefore, ResetBeforeNextRequest
  <2> QED
    BY <2>1, <2>2, <2>3, <2>4, <2>5
<1>3. CASE CannotPublish(c)
  <2> USE <1>3 DEF CannotPublish, Leaves
  <2>1. Types'
    BY DEF Types
  <2>2. EarlyInv'
    BY DEF Types, EarlyInv, Early, NotForwarded
  <2>3. IdInv' /\ TravelInv' /\ ExecutedAtMostOnce'
    BY DEF IdInv, TravelInv, ExecutedAtMostOnce
  <2>4. ResponseInv'
    BY DEF Types, ResponseInv, Truthful, Early, NotForwarded
  <2>5. ResetInv' /\ OrderInv'
    BY DEF ResetInv, OrderInv, ResetSent, ResetBefore, ResetBeforeNextRequest
  <2> QED
    BY <2>1, <2>2, <2>3, <2>4, <2>5
<1>4. CASE Publish(c)
  <2> USE <1>4 DEF Publish, Published
  <2>1. Types'
    BY DEF Types
  <2>2. EarlyInv'
    BY DEF Types, EarlyInv, Early, NotForwarded
  <2>3. IdInv' /\ TravelInv' /\ ExecutedAtMostOnce'
    BY DEF IdInv, TravelInv, ExecutedAtMostOnce
  <2>4. ResponseInv'
    BY DEF Types, ResponseInv, Truthful, Early, NotForwarded
  <2>5. ResetInv'
    BY DEF ResetInv, ResetSent, ResetBefore
  <2>6. OrderInv'
    <3>1. NotForwarded(c)
      BY DEF EarlyInv, Early
    <3>2. \A d \in Clients \ {c} : after'[d] = after[d]
      BY DEF Types
    <3>3. \A d \in after'[c] : d \in Clients /\ ResetSent(d)
      BY DEF Types, ResetInv
    <3> QED
      BY <3>1, <3>2, <3>3
         DEF Types, Envelope, NotForwarded, OrderInv, ResetSent, ResetBefore,
             ResetBeforeNextRequest
  <2> QED
    BY <2>1, <2>2, <2>3, <2>4, <2>5, <2>6
<1>5. CASE ReadResponse(c)
  <2> USE <1>5 DEF ReadResponse, Leaves
  <2>1. Types'
    BY DEF Types
  <2>2. EarlyInv'
    BY DEF Types, EarlyInv, Early, NotForwarded
  <2>3. IdInv' /\ TravelInv' /\ ExecutedAtMostOnce'
    BY DEF IdInv, TravelInv, ExecutedAtMostOnce
  <2>4. ResponseInv'
    BY DEF Types, ResponseInv, Truthful, Early, NotForwarded
  <2>5. ResetInv' /\ OrderInv'
    BY DEF Types, ResetInv, OrderInv, ResetSent, ResetBefore, ResetBeforeNextRequest, NoResponse
  <2> QED
    BY <2>1, <2>2, <2>3, <2>4, <2>5
<1>6. CASE ResponseTimesOut(c)
  <2> USE <1>6 DEF ResponseTimesOut, Leaves
  <2>1. Types'
    BY DEF Types
  <2>2. EarlyInv'
    BY DEF Types, EarlyInv, Early, NotForwarded
  <2>3. IdInv' /\ TravelInv' /\ ExecutedAtMostOnce'
    BY DEF IdInv, TravelInv, ExecutedAtMostOnce
  <2>4. ResponseInv'
    BY DEF Types, ResponseInv, Truthful, Early, NotForwarded
  <2>5. ResetInv' /\ OrderInv'
    BY DEF ResetInv, OrderInv, ResetSent, ResetBefore, ResetBeforeNextRequest
  <2> QED
    BY <2>1, <2>2, <2>3, <2>4, <2>5
<1> QED
  BY <1>1, <1>2, <1>3, <1>4, <1>5, <1>6 DEF ClientStep

(* What a message of either direction consists of.                         *)
LEMMA EnvelopeParts ==
    ASSUME NEW s \in Seq(Envelope), NEW i \in 1..Len(s)
    PROVE  s[i] \in Envelope /\ s[i].id \in Nat /\ s[i].client \in Clients
<1>1. s[i] \in Envelope
  OBVIOUS
<1> QED
  BY <1>1 DEF Envelope

(* A reset that was sent stays sent while messages are only appended.      *)
LEMMA AppendKeepsResets ==
    ASSUME NEW m \in Envelope, toTarget \in Seq(Envelope),
           toTarget' = Append(toTarget, m), UNCHANGED resets,
           NEW d
    PROVE  /\ ResetSent(d) => ResetSent(d)'
           /\ \A n \in 0..Len(toTarget) : ResetBefore(d, n) <=> ResetBefore(d, n)'
           /\ m.id = 0 /\ m.client = d => ResetSent(d)'
<1>1. /\ Len(toTarget') = Len(toTarget) + 1
      /\ Len(toTarget) \in Nat
      /\ \A i \in 1..Len(toTarget) : toTarget'[i] = toTarget[i]
      /\ toTarget'[Len(toTarget) + 1] = m
  OBVIOUS
<1> QED
  BY <1>1 DEF ResetSent, ResetBefore

(* Taking up a request: it leaves the mailbox, and is answered, forwarded, *)
(* or makes the launcher start a reload.                                   *)
LEMMA ProcessIInv ==
    ASSUME IInv, NEW c \in Clients, ProcessMailboxRequest(c)
    PROVE  IInv'
<1> USE NoneAssumption DEF IInv, clientVars, ProcessMailboxRequest, LauncherFree
<1>1. CASE c \notin requests
  <2> USE <1>1
  <2>0. requests' = requests
    BY DEF Types
  <2>1. Types'
    BY <2>0 DEF Types
  <2>2. EarlyInv'
    BY <2>0 DEF EarlyInv, Early, NotForwarded
  <2>3. IdInv' /\ TravelInv' /\ ExecutedAtMostOnce'
    BY DEF IdInv, TravelInv, ExecutedAtMostOnce
  <2>4. ResponseInv'
    BY <2>0 DEF ResponseInv, Truthful, Early, NotForwarded
  <2>5. ResetInv' /\ OrderInv'
    BY DEF ResetInv, OrderInv, ResetSent, ResetBefore, ResetBeforeNextRequest
  <2> QED
    BY <2>1, <2>2, <2>3, <2>4, <2>5
<1>2. CASE c \in requests
  <2> USE <1>2
  <2>1. HandleControlRequest(c) /\ phase[c] \in {"waiting", "gaveUp"} /\ NotForwarded(c)
        /\ responses[c] = NoResponse
    BY DEF EarlyInv, Early
  <2>2. \A d \in Clients : Early(d)' => Early(d) /\ d # c
    BY <2>1 DEF Early
  <2>3. ASSUME NEW what \in Answers, Write(c, what), what # "result", what # "reloaded",
               UNCHANGED <<reload, pending, nextId, toTarget>>
        PROVE  IInv'
    <3> USE <2>3 DEF Write
    <3>0. /\ \A d \in Clients \ {c} : responses'[d] = responses[d]
          /\ responses'[c] = [what |-> what, to |-> c]
      BY DEF Types
    <3>1. Types'
      <4>1. stopRequested' \in BOOLEAN
        BY <2>1 DEF HandleControlRequest, AnswerStatus, RequestStop, RefuseUntilReady,
                    ForwardToAgent, ReloadPreview, Types
      <4>2. responses' \in [Clients -> Response \cup {NoResponse}]
        BY DEF Types, Response
      <4> QED
        BY <4>1, <4>2 DEF Types
    <3>2. EarlyInv'
      BY <2>2, <3>0 DEF EarlyInv, NotForwarded
    <3>3. IdInv' /\ TravelInv' /\ ExecutedAtMostOnce'
      BY DEF IdInv, TravelInv, ExecutedAtMostOnce
    <3>4. ResponseInv'
      BY <2>1, <2>2, <3>0 DEF ResponseInv, Truthful, NotForwarded
    <3>5. ResetInv' /\ OrderInv'
      BY <3>0 DEF ResetInv, OrderInv, ResetSent, ResetBefore, ResetBeforeNextRequest
    <3> QED
      BY <3>1, <3>2, <3>3, <3>4, <3>5
  <2>4. CASE AnswerStatus(c)
    BY <2>3, <2>4 DEF AnswerStatus, Answers
  <2>5. CASE RequestStop(c)
    BY <2>3, <2>5 DEF RequestStop, Answers
  <2>6. CASE RefuseUntilReady(c)
    BY <2>3, <2>6 DEF RefuseUntilReady, Answers
  <2>7. CASE ForwardToAgent(c)
    <3> DEFINE m == [id |-> nextId, client |-> c]
    <3> USE <2>7 DEF ForwardToAgent, Forward
    <3>0. /\ m \in Envelope
          /\ Len(toTarget') = Len(toTarget) + 1
          /\ Len(toTarget) \in Nat
          /\ \A i \in 1..Len(toTarget) : toTarget'[i] = toTarget[i]
          /\ toTarget'[Len(toTarget) + 1] = m
          /\ nextId \in Nat /\ nextId > 0 /\ nextId' = nextId + 1
          /\ pending' = pending \cup {m}
      BY DEF Types, Envelope
    <3>1. Types'
      BY <3>0 DEF Types
    <3>2. EarlyInv'
      BY <2>2, <3>0 DEF EarlyInv, NotForwarded
    <3>3. IdInv'
      <4>1. \A p \in pending : p.id \in Nat /\ p.id < nextId
        BY <3>0 DEF IdInv
      <4>2. /\ \A p \in pending' : p.id \in 1..(nextId' - 1)
            /\ \A p, q \in pending' : p.id = q.id => p = q
        BY <3>0, <4>1 DEF IdInv
      <4>3. \A i \in 1..Len(toTarget) : toTarget[i].id \in Nat
        BY EnvelopeParts DEF Types
      <4>4. \A i \in 1..Len(toTarget') : toTarget'[i].id # 0 =>
               /\ toTarget'[i].id < nextId'
               /\ \A p \in pending' : p.id = toTarget'[i].id => p.client = toTarget'[i].client
        BY <3>0, <4>1, <4>3 DEF IdInv
      <4>5. \A i \in 1..Len(toLauncher) :
               /\ toLauncher[i].id \in 1..(nextId' - 1)
               /\ \A p \in pending' : p.id = toLauncher[i].id => p.client = toLauncher[i].client
        BY <3>0 DEF IdInv
      <4> QED
        BY <4>2, <4>4, <4>5 DEF IdInv
    <3>4. TravelInv' /\ ExecutedAtMostOnce'
      BY <2>1, <3>0 DEF TravelInv, ExecutedAtMostOnce, NotForwarded
    <3>5. ResponseInv'
      BY <2>2, <3>0 DEF ResponseInv, Truthful, NotForwarded, Early
    <3>6. ResetInv'
      BY <3>0, AppendKeepsResets DEF ResetInv, Types
    <3>7. OrderInv'
      <4>1. /\ \A d : ResetSent(d) => ResetSent(d)'
            /\ \A d : \A n \in 0..Len(toTarget) : ResetBefore(d, n) <=> ResetBefore(d, n)'
        BY <3>0, AppendKeepsResets DEF Types
      <4>2. \A e \in Clients : \A d \in after[e] : ResetSent(d)'
        BY <4>1 DEF OrderInv
      <4>3. ASSUME NEW i \in 1..Len(toTarget'), toTarget'[i].id # 0,
                   NEW d \in after[toTarget'[i].client]
            PROVE  ResetBefore(d, i - 1)'
        <5>1. CASE i = Len(toTarget) + 1
          <6>1. d \in after[c] /\ i - 1 = Len(toTarget) /\ i - 1 \in 0..Len(toTarget)
            BY <4>3, <5>1, <3>0
          <6> QED
            BY <6>1, <4>1 DEF OrderInv, ResetSent
        <5>2. CASE i \in 1..Len(toTarget)
          BY <4>1, <4>3, <5>2, <3>0, SMTT(30) DEF OrderInv
        <5> QED
          BY <5>1, <5>2, <3>0
      <4> QED
        BY <4>2, <4>3 DEF OrderInv, ResetBeforeNextRequest
    <3> QED
      BY <3>1, <3>2, <3>3, <3>4, <3>5, <3>6, <3>7
  <2>8. CASE ReloadPreview(c)
    <3>1. CASE Write(c, "reload_failed") /\ UNCHANGED reload
      BY <2>3, <2>8, <3>1 DEF ReloadPreview, Answers
    <3>2. CASE reload' = [client |-> c, at |-> "reset"] /\ UNCHANGED responses
      <4> USE <2>8, <3>2 DEF ReloadPreview
      <4>1. Types'
        BY DEF Types
      <4>2. EarlyInv'
        BY <2>2 DEF EarlyInv, NotForwarded
      <4>3. IdInv' /\ TravelInv' /\ ExecutedAtMostOnce'
        BY DEF IdInv, TravelInv, ExecutedAtMostOnce
      <4>4. ResponseInv'
        BY <2>2 DEF ResponseInv, Truthful, NotForwarded
      <4>5. ResetInv' /\ OrderInv'
        BY DEF ResetInv, OrderInv, ResetSent, ResetBefore, ResetBeforeNextRequest
      <4> QED
        BY <4>1, <4>2, <4>3, <4>4, <4>5
    <3> QED
      BY <2>8, <3>1, <3>2 DEF ReloadPreview
  <2> QED
    BY <2>1, <2>4, <2>5, <2>6, <2>7, <2>8 DEF HandleControlRequest
<1> QED
  BY <1>1, <1>2

(* The two steps of a reload that the preview host carried out.            *)
LEMMA FinishReloadIInv ==
    ASSUME IInv, FinishReload
    PROVE  IInv'
<1> USE NoneAssumption DEF IInv, clientVars, FinishReload
<1>0. reload.client \in Clients
  BY DEF Types
<1>1. CASE reload.at = "reset"
  <2> DEFINE m == [id |-> 0, client |-> reload.client]
  <2> USE <1>1
  <2>0. /\ m \in Envelope
        /\ toTarget' = Append(toTarget, m)
        /\ Len(toTarget') = Len(toTarget) + 1
        /\ Len(toTarget) \in Nat
        /\ \A i \in 1..Len(toTarget) : toTarget'[i] = toTarget[i]
        /\ toTarget'[Len(toTarget) + 1] = m
        /\ reload' = [reload EXCEPT !.at = "answer"]
        /\ UNCHANGED responses
    BY <1>0 DEF Types, Envelope
  <2>1. Types'
    <3>1. reload' \in [client : Clients, at : {"reset", "answer"}]
      BY <2>0, <1>0 DEF Types
    <3> QED
      BY <2>0, <3>1 DEF Types
  <2>2. EarlyInv'
    BY <2>0 DEF EarlyInv, Early, NotForwarded, Types
  <2>3. IdInv' /\ TravelInv' /\ ExecutedAtMostOnce'
    BY <2>0 DEF IdInv, TravelInv, ExecutedAtMostOnce
  <2>4. ResponseInv'
    BY <2>0 DEF ResponseInv, Truthful, Early, NotForwarded
  <2>5. ResetInv'
    BY <2>0, AppendKeepsResets DEF ResetInv, Types
  <2>6. OrderInv'
    <3>1. /\ \A d : ResetSent(d) => ResetSent(d)'
          /\ \A d : \A n \in 0..Len(toTarget) : ResetBefore(d, n) <=> ResetBefore(d, n)'
      BY <2>0, AppendKeepsResets DEF Types
    <3>2. \A e \in Clients : \A d \in after[e] : ResetSent(d)'
      BY <3>1 DEF OrderInv
    <3>3. ASSUME NEW i \in 1..Len(toTarget'), toTarget'[i].id # 0,
                 NEW d \in after[toTarget'[i].client]
          PROVE  ResetBefore(d, i - 1)'
      BY <3>1, <3>3, <2>0 DEF OrderInv
    <3> QED
      BY <3>2, <3>3 DEF OrderInv, ResetBeforeNextRequest
  <2> QED
    BY <2>1, <2>2, <2>3, <2>4, <2>5, <2>6
<1>2. CASE reload.at = "answer"
  <2> USE <1>2, <1>0 DEF Write
  <2>0. /\ responses' = [responses EXCEPT ![reload.client] = [what |-> "reloaded", to |-> reload.client]]
        /\ reload' = [client |-> None, at |-> "none"]
        /\ UNCHANGED toTarget
    OBVIOUS
  <2>1. Types'
    BY <2>0 DEF Types, Response, Answers
  <2>2. EarlyInv'
    BY <2>0 DEF EarlyInv, Early, NotForwarded, Types
  <2>3. IdInv' /\ TravelInv' /\ ExecutedAtMostOnce'
    BY <2>0 DEF IdInv, TravelInv, ExecutedAtMostOnce
  <2>4. ResponseInv'
    BY <2>0 DEF ResponseInv, Truthful, Early, NotForwarded, Types
  <2>5. ResetInv' /\ OrderInv'
    BY <2>0 DEF ResetInv, OrderInv, ResetSent, ResetBefore, ResetBeforeNextRequest, Types
  <2> QED
    BY <2>1, <2>2, <2>3, <2>4, <2>5
<1> QED
  BY <1>1, <1>2

(* The reply of the target reaches the response file of its request.       *)
LEMMA HandleAgentMessageIInv ==
    ASSUME IInv, HandleAgentMessage
    PROVE  IInv'
<1> USE NoneAssumption DEF IInv, clientVars, HandleAgentMessage
<1> DEFINE reply == Head(toLauncher)
           mine  == {p \in pending : p.id = reply.id}
<1>0. /\ reply = toLauncher[1] /\ reply \in Envelope
      /\ Len(toLauncher) \in Nat /\ 1 \in 1..Len(toLauncher)
      /\ Len(toLauncher') = Len(toLauncher) - 1
      /\ toLauncher' \in Seq(Envelope)
      /\ \A i \in 1..Len(toLauncher') : toLauncher'[i] = toLauncher[i + 1]
  BY DEF Types
<1>1. \A p \in mine : p \in pending /\ p.client = reply.client
  BY <1>0 DEF IdInv
<1>2. \A d \in Clients :
         \/ responses'[d] = responses[d]
         \/ /\ responses'[d] = [what |-> "result", to |-> d]
            /\ kind[d] = "agent" /\ executed[d] > 0
            /\ \E p \in pending : p.client = d
  BY <1>0, <1>1 DEF TravelInv
<1>3. pending' \subseteq pending
  OBVIOUS
<1>4. Types'
  <2>1. responses' \in [Clients -> Response \cup {NoResponse}]
    BY <1>0 DEF Types, Response, Answers, Envelope
  <2> QED
    BY <1>0, <2>1 DEF Types
<1>5. EarlyInv'
  BY <1>2, <1>3 DEF EarlyInv, Early, NotForwarded
<1>6. IdInv'
  BY <1>0, <1>3 DEF IdInv
<1>7. TravelInv' /\ ExecutedAtMostOnce'
  BY <1>0 DEF TravelInv, ExecutedAtMostOnce
<1>8. ResponseInv'
  <2>1. \A d \in Clients : (Early(d)' <=> Early(d)) /\ (NotForwarded(d) => NotForwarded(d)')
    BY <1>3 DEF Early, NotForwarded
  <2>2. \A d \in Clients : responses'[d] # NoResponse => Truthful(d, responses[d])'
    BY <1>2, <2>1, ZenonT(60) DEF ResponseInv, Truthful
  <2> QED
    BY <2>1, <2>2 DEF ResponseInv, Truthful
<1>9. ResetInv' /\ OrderInv'
  BY <1>2 DEF ResetInv, OrderInv, ResetSent, ResetBefore, ResetBeforeNextRequest
<1> QED
  BY <1>4, <1>5, <1>6, <1>7, <1>8, <1>9

(* The target takes the next message: a reset, or a request it carries out *)
(* and replies to.                                                         *)
LEMMA TargetServesIInv ==
    ASSUME IInv, TargetServes
    PROVE  IInv'
<1> USE NoneAssumption DEF IInv, clientVars, fileVars, launcherVars, TargetServes
<1> DEFINE m == Head(toTarget)
<1>0. /\ m = toTarget[1] /\ m \in Envelope
      /\ Len(toTarget) \in Nat /\ 1 \in 1..Len(toTarget)
      /\ Len(toTarget') = Len(toTarget) - 1
      /\ toTarget' \in Seq(Envelope)
      /\ \A i \in 1..Len(toTarget') : toTarget'[i] = toTarget[i + 1]
  BY DEF Types
<1>1. resets \subseteq resets' /\ (m.id = 0 => m.client \in resets')
  OBVIOUS
<1>2. ASSUME NEW d, NEW n \in 1..Len(toTarget), ResetBefore(d, n)
      PROVE  ResetBefore(d, n - 1)'
  <2>1. CASE d \in resets
    BY <1>1, <2>1 DEF ResetBefore
  <2>2. ASSUME NEW i \in 1..n, toTarget[i].id = 0, toTarget[i].client = d
        PROVE  ResetBefore(d, n - 1)'
    <3>1. CASE i = 1
      BY <1>0, <1>1, <2>2, <3>1 DEF ResetBefore
    <3>2. CASE i # 1
      <4>1. i - 1 \in 1..(n - 1) /\ i - 1 \in 1..Len(toTarget')
        BY <1>0, <3>2
      <4>2. toTarget'[i - 1] = toTarget[i]
        BY <1>0, <4>1
      <4> QED
        BY <2>2, <4>1, <4>2 DEF ResetBefore
    <3> QED
      BY <3>1, <3>2
  <2> QED
    BY <1>2, <2>1, <2>2 DEF ResetBefore
<1>3. \A d : ResetSent(d) => ResetSent(d)'
  BY <1>0, <1>2 DEF ResetSent
<1>4. \A i \in 1..Len(toTarget') : toTarget'[i].id # 0 =>
         \A d \in after[toTarget'[i].client] : ResetBefore(d, i - 1)'
  <2> SUFFICES ASSUME NEW i \in 1..Len(toTarget'), toTarget'[i].id # 0,
                      NEW d \in after[toTarget'[i].client]
               PROVE  ResetBefore(d, i - 1)'
    OBVIOUS
  <2>1. i + 1 \in 1..Len(toTarget) /\ toTarget'[i] = toTarget[i + 1]
        /\ i \in 1..Len(toTarget)
    BY <1>0
  <2>2. ResetBefore(d, i)
    BY <2>1 DEF OrderInv
  <2> QED
    BY <1>2, <2>1, <2>2
<1>5. CASE m.id = 0
  <2> USE <1>5
  <2>1. resets' = resets \cup {m.client} /\ UNCHANGED <<toLauncher, executed>>
    OBVIOUS
  <2>2. Types'
    BY <1>0, <2>1 DEF Types, Envelope
  <2>3. EarlyInv'
    BY <1>0, <2>1 DEF EarlyInv, Early, NotForwarded
  <2>4. IdInv' /\ TravelInv' /\ ExecutedAtMostOnce'
    BY <1>0, <2>1 DEF IdInv, TravelInv, ExecutedAtMostOnce
  <2>5. ResponseInv'
    BY <1>0, <2>1 DEF ResponseInv, Truthful, Early, NotForwarded
  <2>6. ResetInv'
    BY <1>3 DEF ResetInv
  <2>7. OrderInv'
    BY <1>1, <1>3, <1>4, <2>1 DEF OrderInv, ResetBeforeNextRequest
  <2> QED
    BY <2>2, <2>3, <2>4, <2>5, <2>6, <2>7
<1>6. CASE m.id # 0
  <2> USE <1>6
  <2>1. /\ executed' = [executed EXCEPT ![m.client] = @ + 1]
        /\ toLauncher' = Append(toLauncher, m)
        /\ UNCHANGED resets
    OBVIOUS
  <2>2. /\ m.client \in Clients /\ kind[m.client] = "agent"
        /\ m.id \in Nat /\ m.id < nextId
        /\ executed[m.client] = 0
        /\ executed'[m.client] = 1
        /\ \A d \in Clients \ {m.client} : executed'[d] = executed[d]
        /\ ~NotForwarded(m.client)
    BY <1>0, <2>1 DEF Types, Envelope, IdInv, TravelInv, NotForwarded
  <2>3. /\ Len(toLauncher) \in Nat
        /\ Len(toLauncher') = Len(toLauncher) + 1
        /\ \A i \in 1..Len(toLauncher) : toLauncher'[i] = toLauncher[i]
        /\ toLauncher'[Len(toLauncher) + 1] = m
        /\ toLauncher' \in Seq(Envelope)
    BY <1>0, <2>1 DEF Types
  <2>4. Types'
    <3>1. executed' \in [Clients -> Nat]
      BY <2>1, <2>2 DEF Types
    <3> QED
      BY <1>0, <2>1, <2>3, <3>1 DEF Types
  <2>5. EarlyInv'
    BY <1>0, <2>2 DEF EarlyInv, Early, NotForwarded
  <2>6. IdInv'
    <3>1. \A i \in 1..Len(toTarget') : toTarget'[i].id # 0 =>
             /\ toTarget'[i].id < nextId
             /\ \A p \in pending : p.id = toTarget'[i].id => p.client = toTarget'[i].client
      BY <1>0 DEF IdInv
    <3>2. \A i \in 1..Len(toLauncher') :
             /\ toLauncher'[i].id \in 1..(nextId - 1)
             /\ \A p \in pending : p.id = toLauncher'[i].id => p.client = toLauncher'[i].client
      <4> TAKE i \in 1..Len(toLauncher')
      <4>1. CASE i \in 1..Len(toLauncher)
        BY <2>3, <4>1 DEF IdInv
      <4>2. CASE toLauncher'[i] = m
        BY <1>0, <2>2, <4>2 DEF IdInv, Types
      <4> QED
        BY <2>3, <4>1, <4>2
    <3> QED
      BY <3>1, <3>2 DEF IdInv
  <2>7. TravelInv'
    <3>1. /\ \A i \in 1..Len(toTarget') :
                toTarget'[i].id # 0 => /\ kind[toTarget'[i].client] = "agent"
                                       /\ toTarget'[i].client # m.client
                                       /\ executed[toTarget'[i].client] = 0
                                       /\ toTarget'[i].client \in Clients
      BY <1>0, EnvelopeParts DEF TravelInv
    <3>2. \A i, j \in 1..Len(toTarget') :
             /\ toTarget'[i].id # 0 /\ toTarget'[j].id # 0
             /\ toTarget'[i].client = toTarget'[j].client
             => i = j
      BY <1>0 DEF TravelInv
    <3>3. \A i \in 1..Len(toLauncher) : toLauncher[i].client \in Clients
      BY EnvelopeParts DEF Types
    <3>4. \A i \in 1..Len(toLauncher') :
             /\ kind[toLauncher'[i].client] = "agent"
             /\ executed'[toLauncher'[i].client] > 0
      <4> TAKE i \in 1..Len(toLauncher')
      <4>1. CASE i \in 1..Len(toLauncher)
        BY <2>2, <2>3, <3>3, <4>1 DEF TravelInv
      <4>2. CASE toLauncher'[i] = m
        BY <2>2, <4>2
      <4> QED
        BY <2>3, <4>1, <4>2
    <3> QED
      BY <2>2, <3>1, <3>2, <3>4 DEF TravelInv
  <2>8. ExecutedAtMostOnce'
    BY <2>2 DEF ExecutedAtMostOnce
  <2>9. ResponseInv'
    <3>1. \A d \in Clients : (Early(d)' <=> Early(d)) /\ (NotForwarded(d) => NotForwarded(d)')
      BY <1>0, <2>2 DEF Early, NotForwarded
    <3>2. \A d \in Clients : executed[d] > 0 => executed'[d] > 0
      BY <2>2, SMTT(30) DEF Types
    <3> QED
      BY <3>1, <3>2 DEF ResponseInv, Truthful
  <2>10. ResetInv'
    BY <1>3 DEF ResetInv
  <2>11. OrderInv'
    <3>1. \A d \in after[m.client] : d \in resets
      BY <1>0 DEF OrderInv, ResetBefore
    <3> QED
      BY <1>3, <1>4, <2>1, <2>2, <3>1 DEF OrderInv, ResetBeforeNextRequest
  <2> QED
    BY <2>4, <2>5, <2>6, <2>7, <2>8, <2>9, <2>10, <2>11
<1> QED
  BY <1>5, <1>6

(* What the launcher and the target do besides changes no request.         *)
LEMMA OtherIInv ==
    ASSUME IInv,
           \/ SetSessionReady \/ ListMailbox \/ TargetFinished \/ StartFails
           \/ LauncherDies \/ TargetExits \/ UNCHANGED vars
    PROVE  IInv'
<1>1. /\ UNCHANGED <<clientVars, responses, reload, pending, nextId, toTarget, toLauncher,
                     executed, resets>>
      /\ requests' \subseteq requests
  BY DEF SetSessionReady, ListMailbox, TargetFinished, StartFails, LauncherDies, TargetExits,
         vars, fileVars, launcherVars, targetVars
<1> USE <1>1 DEF IInv, clientVars
<1>2. Types'
  <2>1. UNCHANGED lock
    BY DEF SetSessionReady, ListMailbox, TargetFinished, StartFails, LauncherDies, TargetExits,
           vars, fileVars
  <2>2. mailbox' \in BOOLEAN /\ ready' \in BOOLEAN /\ stopRequested' \in BOOLEAN
    BY DEF SetSessionReady, ListMailbox, TargetFinished, StartFails, LauncherDies, TargetExits,
           vars, fileVars, launcherVars, Types
  <2>3. /\ launcher' \in {"up", "gone"} /\ target' \in {"running", "exited"}
        /\ batch' \subseteq Clients
    BY DEF SetSessionReady, ListMailbox, TargetFinished, StartFails, LauncherDies, TargetExits,
           vars, launcherVars, targetVars, Types
  <2> QED
    BY <2>1, <2>2, <2>3 DEF Types
<1>3. EarlyInv'
  BY DEF EarlyInv, Early, NotForwarded
<1>4. IdInv' /\ TravelInv' /\ ExecutedAtMostOnce'
  BY DEF IdInv, TravelInv, ExecutedAtMostOnce
<1>5. ResponseInv'
  BY DEF ResponseInv, Truthful, Early, NotForwarded
<1>6. ResetInv' /\ OrderInv'
  BY DEF ResetInv, OrderInv, ResetSent, ResetBefore, ResetBeforeNextRequest
<1> QED
  BY <1>2, <1>3, <1>4, <1>5, <1>6

(* Every step of the client calls, the launcher and the target.            *)
LEMMA NextIInv == IInv /\ [Next]_vars => IInv'
BY ClientIInv, ProcessIInv, FinishReloadIInv, HandleAgentMessageIInv, TargetServesIInv, OtherIInv
   DEF Next, LauncherStep

-----------------------------------------------------------------------------
(* The invariant holds in every state of every behaviour.                  *)
THEOREM Invariance == Spec => []IInv
BY InitIInv, NextIInv, PTL DEF Spec

(* A client call that returns was given the answer to its own request,     *)
(* whatever calls gave up before it and however late their replies come.   *)
THEOREM AnswersReachTheirOwners == Spec => []AnswersOwnRequest
<1>1. IInv => AnswersOwnRequest
  BY DEF IInv, ResponseInv, Truthful, AnswersOwnRequest
<1> QED
  BY <1>1, Invariance, PTL

(* The target carries out each published request at most once, although    *)
(* both the poll timer and the watcher list the mailbox.                   *)
THEOREM NoDoubleExecution == Spec => []ExecutedAtMostOnce
<1>1. IInv => ExecutedAtMostOnce
  BY DEF IInv
<1> QED
  BY <1>1, Invariance, PTL

(* A request that was turned away is never carried out.                    *)
THEOREM RefusalIsFinal == Spec => []RefusedIsNotExecuted
<1>1. IInv => RefusedIsNotExecuted
  BY DEF IInv, EarlyInv, Early, ResponseInv, Truthful, NotForwarded, RefusedIsNotExecuted,
         NoResponse
<1> QED
  BY <1>1, Invariance, PTL

(* Whoever heard of a reload is served by a session that was reset.        *)
THEOREM ResetPrecedesRequests == Spec => []ResetBeforeNextRequest
<1>1. IInv => ResetBeforeNextRequest
  BY DEF IInv, OrderInv
<1> QED
  BY <1>1, Invariance, PTL

-----------------------------------------------------------------------------
(* The ids given out and the calls whose requests are still to be handled  *)
(* are together no more than the calls.                                    *)
Unhandled == {c \in Clients : Early(c)}

CountInv == nextId - 1 + Cardinality(Unhandled) <= Cardinality(Clients)

(* Handling a request takes a call out of the unhandled ones.              *)
LEMMA UnhandledShrinks ==
    ASSUME IsFiniteSet(Clients), Unhandled' \subseteq Unhandled
    PROVE  /\ Cardinality(Unhandled') \in Nat /\ Cardinality(Unhandled) \in Nat
           /\ Cardinality(Unhandled') <= Cardinality(Unhandled)
           /\ \A c \in Unhandled : c \notin Unhandled' =>
                 Cardinality(Unhandled') + 1 <= Cardinality(Unhandled)
<1>1. IsFiniteSet(Unhandled)
  BY FS_Subset DEF Unhandled
<1>2. IsFiniteSet(Unhandled') /\ Cardinality(Unhandled') <= Cardinality(Unhandled)
  BY <1>1, FS_Subset
<1>3. ASSUME NEW c \in Unhandled, c \notin Unhandled'
      PROVE  Cardinality(Unhandled') + 1 <= Cardinality(Unhandled)
  <2>1. /\ IsFiniteSet(Unhandled \ {c})
        /\ Cardinality(Unhandled \ {c}) = Cardinality(Unhandled) - 1
    BY <1>1, FS_RemoveElement
  <2>2. Unhandled' \subseteq Unhandled \ {c}
    BY <1>3
  <2>3. Cardinality(Unhandled') <= Cardinality(Unhandled \ {c})
    BY <2>1, <2>2, FS_Subset
  <2> QED
    BY <1>1, <1>2, <2>1, <2>3, FS_CardinalityType
<1> QED
  BY <1>1, <1>2, <1>3, FS_CardinalityType

(* Every step keeps the count.                                             *)
LEMMA NextCount == IInv /\ CountInv /\ [Next]_vars => CountInv'
<1> SUFFICES ASSUME IInv, CountInv, [Next]_vars PROVE CountInv'
  OBVIOUS
<1> USE ClientsAssumption, FS_CardinalityType DEF IInv
<1>1. ASSUME Unhandled' \subseteq Unhandled, UNCHANGED nextId
      PROVE  CountInv'
  <2>1. Cardinality(Unhandled') <= Cardinality(Unhandled)
        /\ Cardinality(Unhandled') \in Nat /\ Cardinality(Unhandled) \in Nat
    BY <1>1, UnhandledShrinks
  <2> QED
    BY <1>1, <2>1 DEF CountInv, Types
<1>2. ASSUME NEW c \in Clients, ClientStep(c)
      PROVE  CountInv'
  <2>1. Unhandled' \subseteq Unhandled
    <3>1. CASE AcquireLock(c) \/ CannotLock(c) \/ CannotPublish(c)
      <4>1. Early(c) /\ requests' = requests
        BY <3>1 DEF AcquireLock, CannotLock, CannotPublish, Early, fileVars
      <4>2. \A d \in Clients \ {c} : phase'[d] = phase[d]
        BY <3>1 DEF AcquireLock, CannotLock, CannotPublish, Leaves, Types
      <4> QED
        BY <4>1, <4>2 DEF Unhandled, Early
    <3>2. CASE Publish(c)
      <4>1. /\ Early(c) /\ requests' = requests \cup {c}
            /\ \A d \in Clients \ {c} : phase'[d] = phase[d]
        BY <3>2 DEF Publish, Published, Early, Types
      <4> QED
        BY <4>1 DEF Unhandled, Early
    <3>3. CASE ReadResponse(c) \/ ResponseTimesOut(c)
      <4>1. /\ requests' = requests /\ phase'[c] \in {"returned", "gaveUp"}
            /\ \A d \in Clients \ {c} : phase'[d] = phase[d]
        BY <3>3 DEF ReadResponse, ResponseTimesOut, Leaves, Types
      <4> QED
        BY <4>1 DEF Unhandled, Early
    <3> QED
      BY <1>2, <3>1, <3>2, <3>3 DEF ClientStep
  <2>2. UNCHANGED nextId
    BY <1>2
       DEF ClientStep, AcquireLock, CannotLock, Publish, CannotPublish, ReadResponse,
           ResponseTimesOut, launcherVars
  <2> QED
    BY <1>1, <2>1, <2>2
<1>3. ASSUME NEW c \in Clients, ProcessMailboxRequest(c)
      PROVE  CountInv'
  <2>1. Unhandled' \subseteq Unhandled
    BY <1>3 DEF ProcessMailboxRequest, clientVars, Unhandled, Early
  <2>2. CASE c \in requests /\ ForwardToAgent(c)
    <3>1. c \in Unhandled /\ c \notin Unhandled'
      BY <1>3, <2>2 DEF ProcessMailboxRequest, clientVars, Unhandled, Early, EarlyInv
    <3>2. /\ Cardinality(Unhandled') \in Nat /\ Cardinality(Unhandled) \in Nat
          /\ Cardinality(Unhandled') + 1 <= Cardinality(Unhandled)
      BY <2>1, <3>1, UnhandledShrinks
    <3>3. nextId' = nextId + 1
      BY <2>2 DEF ForwardToAgent, Forward
    <3> QED
      BY <3>2, <3>3 DEF CountInv, Types
  <2>3. CASE ~(c \in requests /\ ForwardToAgent(c))
    <3>1. UNCHANGED nextId
      BY <1>3, <2>3
         DEF ProcessMailboxRequest, HandleControlRequest, AnswerStatus, RequestStop,
             RefuseUntilReady, ReloadPreview
    <3> QED
      BY <1>1, <2>1, <3>1
  <2> QED
    BY <2>2, <2>3
<1>4. CASE \/ ListMailbox \/ FinishReload \/ TargetFinished \/ SetSessionReady
           \/ HandleAgentMessage \/ StartFails \/ LauncherDies \/ TargetServes \/ TargetExits
           \/ UNCHANGED vars
  <2>1. /\ UNCHANGED <<phase, nextId>>
        /\ requests' \subseteq requests
    BY <1>4
       DEF ListMailbox, FinishReload, TargetFinished, SetSessionReady, HandleAgentMessage,
           StartFails, LauncherDies, TargetServes, TargetExits, vars, clientVars, fileVars,
           launcherVars
  <2> QED
    BY <1>1, <2>1 DEF Unhandled, Early
<1> QED
  BY <1>2, <1>3, <1>4 DEF Next, LauncherStep

(* The variables have their types, and no more ids are given out than      *)
(* there are calls.                                                        *)
THEOREM TypeCorrect == Spec => []TypeOK
<1>1. Init => CountInv
  <2>1. Init => Unhandled = Clients /\ nextId = 1
    BY DEF Init, Unhandled, Early
  <2> QED
    BY <2>1, ClientsAssumption, FS_CardinalityType DEF CountInv
<1>2. Spec => []CountInv
  BY <1>1, NextCount, Invariance, PTL DEF Spec
<1>3. Init => kind \in Mixes
  BY DEF Init
<1>4. kind \in Mixes /\ [Next]_vars => (kind \in Mixes)'
  BY DEF Next, LauncherStep, vars, ClientStep, AcquireLock, CannotLock, Publish, CannotPublish,
         ReadResponse, ResponseTimesOut, ListMailbox, ProcessMailboxRequest, FinishReload,
         TargetFinished, SetSessionReady, HandleAgentMessage, StartFails, LauncherDies,
         TargetServes, TargetExits, clientVars
<1>5. IInv /\ CountInv /\ kind \in Mixes => TypeOK
  <2> SUFFICES ASSUME IInv, CountInv, kind \in Mixes PROVE TypeOK
    OBVIOUS
  <2> DEFINE N == Cardinality(Clients)
  <2> USE DEF IInv
  <2>1. IsFiniteSet(Unhandled)
    BY ClientsAssumption, FS_Subset DEF Unhandled
  <2>2. N \in Nat /\ Cardinality(Unhandled) \in Nat
    BY <2>1, ClientsAssumption, FS_CardinalityType
  <2>3. nextId \in 1..(N + 1)
    BY <2>2 DEF CountInv, Types
  <2>4. pending \subseteq [id : 1..N, client : Clients]
    <3>1. \A p \in pending : p \in Envelope /\ p.id \in 1..N
      BY <2>2, <2>3 DEF Types, IdInv
    <3> QED
      BY <3>1 DEF Envelope
  <2>5. \A i \in 1..Len(toTarget) : toTarget[i] \in Message
    <3>1. \A i \in 1..Len(toTarget) : toTarget[i] \in Envelope /\ toTarget[i].id \in 0..N
      BY <2>2, <2>3, EnvelopeParts DEF Types, IdInv
    <3> QED
      BY <3>1 DEF Envelope, Message
  <2>6. \A i \in 1..Len(toLauncher) : toLauncher[i] \in Message
    <3>1. \A i \in 1..Len(toLauncher) : toLauncher[i] \in Envelope /\ toLauncher[i].id \in 0..N
      BY <2>2, <2>3, EnvelopeParts DEF Types, IdInv
    <3> QED
      BY <3>1 DEF Envelope, Message
  <2>7. toTarget \in Seq(Message) /\ toLauncher \in Seq(Message)
    <3>1. ASSUME NEW s \in Seq(Envelope), \A i \in 1..Len(s) : s[i] \in Message
          PROVE  s \in Seq(Message)
      <4>1. Len(s) \in Nat /\ s \in [1..Len(s) -> Message]
        BY <3>1
      <4> QED
        BY <4>1, SeqDef
    <3> QED
      BY <2>5, <2>6, <3>1 DEF Types
  <2> QED
    BY <2>3, <2>4, <2>7 DEF Types, TypeOK
<1> QED
  BY <1>2, <1>3, <1>4, <1>5, Invariance, PTL DEF Spec

-----------------------------------------------------------------------------
(* The refinement of RequestService. It needs to know, besides IInv, that  *)
(* the launcher serves by itself only what it does not forward.            *)
Served == {"status", "stopping", "reload_failed", "reloaded"}

Plausible(c, response) ==
    /\ response.what # "none"
    /\ response.what \in Served => kind[c] # "agent"

OutcomeInv ==
    \A c \in Clients :
        /\ executed[c] > 0 => kind[c] = "agent"
        /\ responses[c] # NoResponse => Plausible(c, responses[c])
        /\ phase[c] = "returned" => Plausible(c, answer[c])
        /\ reload.client = c => /\ kind[c] = "reload"
                                /\ responses[c] = NoResponse
                                /\ phase[c] \in {"waiting", "gaveUp"}

(* Every step keeps it.                                                    *)
LEMMA NextOutcome == IInv /\ OutcomeInv /\ [Next]_vars => OutcomeInv'
<1> SUFFICES ASSUME IInv, OutcomeInv, [Next]_vars PROVE OutcomeInv'
  OBVIOUS
<1> USE NoneAssumption DEF IInv
<1>1. ASSUME NEW c \in Clients, ClientStep(c)
      PROVE  OutcomeInv'
  <2>1. CASE AcquireLock(c) \/ CannotLock(c) \/ Publish(c) \/ CannotPublish(c) \/ ResponseTimesOut(c)
    <3>1. /\ UNCHANGED <<kind, answer, responses, reload, executed>>
          /\ \A d \in Clients \ {c} : phase'[d] = phase[d]
          /\ phase'[c] # "returned" /\ (phase[c] = "waiting" => phase'[c] = "gaveUp")
          /\ phase[c] # "gaveUp"
      BY <2>1
         DEF AcquireLock, CannotLock, Publish, Published, CannotPublish, ResponseTimesOut, Leaves,
             Types, fileVars, launcherVars, targetVars
    <3> QED
      BY <3>1 DEF OutcomeInv, Plausible
  <2>2. CASE ReadResponse(c)
    <3>1. /\ UNCHANGED <<kind, reload, executed>>
          /\ responses[c] # NoResponse /\ responses'[c] = NoResponse /\ answer'[c] = responses[c]
          /\ \A d \in Clients \ {c} :
                phase'[d] = phase[d] /\ answer'[d] = answer[d] /\ responses'[d] = responses[d]
      BY <2>2 DEF ReadResponse, Leaves, Types, launcherVars, targetVars
    <3> QED
      BY <3>1 DEF OutcomeInv, Plausible
  <2> QED
    BY <1>1, <2>1, <2>2 DEF ClientStep
<1>2. ASSUME NEW c \in Clients, ProcessMailboxRequest(c)
      PROVE  OutcomeInv'
  <2>1. UNCHANGED <<phase, kind, answer, executed>> /\ reload.client = None
    BY <1>2 DEF ProcessMailboxRequest, LauncherFree, clientVars
  <2>2. CASE UNCHANGED <<responses, reload>>
    BY <2>1, <2>2 DEF OutcomeInv, Plausible
  <2>3. ASSUME NEW what, Write(c, what), what # "none", what \in Served => kind[c] # "agent",
               UNCHANGED reload
        PROVE  OutcomeInv'
    <3>1. /\ responses'[c] = [what |-> what, to |-> c]
          /\ \A d \in Clients \ {c} : responses'[d] = responses[d]
      BY <2>3 DEF Write, Types
    <3> QED
      BY <2>1, <2>3, <3>1 DEF OutcomeInv, Plausible
  <2>4. CASE c \in requests /\ ReloadPreview(c) /\ reload' = [client |-> c, at |-> "reset"] /\ UNCHANGED responses
    BY <2>1, <2>4 DEF OutcomeInv, Plausible, ReloadPreview, EarlyInv, Early
  <2> QED
    BY <1>2, <2>2, <2>3, <2>4
       DEF ProcessMailboxRequest, HandleControlRequest, AnswerStatus, RequestStop,
           RefuseUntilReady, ForwardToAgent, ReloadPreview, Served
<1>3. CASE FinishReload
  <2>1. /\ UNCHANGED <<phase, kind, answer, executed>> /\ reload.client \in Clients
    BY <1>3 DEF FinishReload, clientVars, Types
  <2>2. CASE reload.at = "reset"
    <3>1. UNCHANGED responses /\ reload'.client = reload.client
      BY <1>3, <2>2 DEF FinishReload, Types
    <3> QED
      BY <2>1, <3>1 DEF OutcomeInv, Plausible
  <2>3. CASE reload.at = "answer"
    <3>1. /\ responses'[reload.client] = [what |-> "reloaded", to |-> reload.client]
          /\ \A d \in Clients \ {reload.client} : responses'[d] = responses[d]
          /\ reload'.client = None
      BY <1>3, <2>1, <2>3 DEF FinishReload, Write, Types
    <3> QED
      BY <2>1, <3>1 DEF OutcomeInv, Plausible, Served
  <2> QED
    BY <1>3, <2>2, <2>3 DEF FinishReload
<1>4. CASE HandleAgentMessage
  <2>1. UNCHANGED <<phase, kind, answer, executed, reload>> /\ reload.client = None
    BY <1>4 DEF HandleAgentMessage, LauncherFree, clientVars
  <2>2. \A d \in Clients : responses'[d] = responses[d] \/ responses'[d].what = "result"
    BY <1>4 DEF HandleAgentMessage
  <2> QED
    BY <2>1, <2>2 DEF OutcomeInv, Plausible, Served
<1>5. CASE TargetServes
  <2>1. UNCHANGED <<phase, kind, answer, responses, reload>>
    BY <1>5 DEF TargetServes, clientVars, fileVars, launcherVars
  <2>2. Head(toTarget) = toTarget[1] /\ 1 \in 1..Len(toTarget)
    BY <1>5 DEF TargetServes, Types
  <2>3. \A d \in Clients : executed'[d] = executed[d] \/ kind[d] = "agent"
    BY <1>5, <2>2 DEF TargetServes, TravelInv, Types
  <2> QED
    BY <2>1, <2>3 DEF OutcomeInv, Plausible
<1>6. CASE \/ SetSessionReady \/ ListMailbox \/ TargetFinished \/ StartFails
           \/ LauncherDies \/ TargetExits \/ UNCHANGED vars
  <2>1. UNCHANGED <<phase, kind, answer, executed, responses, reload>>
    BY <1>6
       DEF SetSessionReady, ListMailbox, TargetFinished, StartFails, LauncherDies, TargetExits,
           vars, clientVars, fileVars, launcherVars, targetVars
  <2> QED
    BY <2>1 DEF OutcomeInv, Plausible
<1> QED
  BY <1>1, <1>2, <1>3, <1>4, <1>5, <1>6 DEF Next, LauncherStep

(* The two outcomes of the refinement have no domain but the clients.      *)
OutcomesAreFunctions ==
    /\ Standing = [c \in Clients |-> Standing[c]]
    /\ Verdict = [c \in Clients |-> Verdict[c]]

(* A step leaves the outcomes of the clients that it does not concern.     *)
LEMMA OutcomeKept ==
    ASSUME NEW d \in Clients, phase'[d] = phase[d], answer'[d] = answer[d],
           responses'[d] = responses[d]
    PROVE  Standing'[d] = Standing[d] /\ Verdict'[d] = Verdict[d]
BY DEF Standing, Verdict, Said

LEMMA OutcomesElsewhere ==
    ASSUME NEW c \in Clients,
           \A d \in Clients \ {c} :
              phase'[d] = phase[d] /\ answer'[d] = answer[d] /\ responses'[d] = responses[d]
    PROVE  /\ Standing' = [Standing EXCEPT ![c] = Standing'[c]]
           /\ Verdict' = [Verdict EXCEPT ![c] = Verdict'[c]]
<1>1. \A d \in Clients \ {c} : Standing'[d] = Standing[d] /\ Verdict'[d] = Verdict[d]
  BY OutcomeKept
<1>2. OutcomesAreFunctions
  BY DEF OutcomesAreFunctions, Standing, Verdict
<1>3. OutcomesAreFunctions'
  BY DEF OutcomesAreFunctions, Standing, Verdict
<1> QED
  BY <1>1, <1>2, <1>3 DEF OutcomesAreFunctions

LEMMA OutcomesUnchanged ==
    ASSUME \A d \in Clients : Standing'[d] = Standing[d] /\ Verdict'[d] = Verdict[d]
    PROVE  Standing' = Standing /\ Verdict' = Verdict
<1>1. OutcomesAreFunctions
  BY DEF OutcomesAreFunctions, Standing, Verdict
<1>2. OutcomesAreFunctions'
  BY DEF OutcomesAreFunctions, Standing, Verdict
<1> QED
  BY <1>1, <1>2 DEF OutcomesAreFunctions

(* What the client was told, given where it is in its call.                *)
LEMMA VerdictValue ==
    ASSUME NEW c \in Clients
    PROVE  /\ phase[c] \in {"idle", "locked", "waiting"} => Verdict[c] = "none"
           /\ phase[c] = "refused" => Verdict[c] = "refused"
           /\ phase[c] = "gaveUp" => Verdict[c] = "unknown"
           /\ phase[c] = "returned" =>
                 Verdict[c] = IF Said(c) = "result" THEN "result" ELSE Standing[c]
BY DEF Verdict

(* A request that has left no trace and was not refused is open.           *)
LEMMA UnansweredIsOpen ==
    ASSUME NEW c \in Clients, phase[c] \in {"locked", "waiting", "gaveUp"},
           responses[c] = NoResponse
    PROVE  Standing[c] = "open"
BY DEF Standing, Said, NoResponse

(* The launcher answers an open request.                                   *)
LEMMA AnsweringSettles ==
    ASSUME IInv, NEW c \in Clients, phase[c] \in {"waiting", "gaveUp"},
           responses[c] = NoResponse, executed[c] = 0,
           NEW what \in Served \cup {"not_ready"}, Write(c, what),
           UNCHANGED <<phase, answer, executed>>
    PROVE  \E how \in {"refused", "served"} : Service!Settle(c, how)
<1>1. /\ responses'[c].what = what
      /\ \A d \in Clients \ {c} : responses'[d] = responses[d]
  BY DEF Write, IInv, Types
<1>2. Standing' = [Standing EXCEPT ![c] = Standing'[c]] /\ Verdict' = [Verdict EXCEPT ![c] = Verdict'[c]]
  BY <1>1, OutcomesElsewhere
<1>3. Standing[c] = "open"
  BY UnansweredIsOpen
<1>4. Standing'[c] = IF what = "not_ready" THEN "refused" ELSE "served"
  BY <1>1 DEF Standing, Said, Served
<1>5. Verdict' = Verdict
  <2>1. Verdict'[c] = Verdict[c]
    BY DEF Verdict
  <2> QED
    BY <1>2, <2>1 DEF Verdict
<1> QED
  BY <1>2, <1>3, <1>4, <1>5 DEF Service!Settle

(* The steps of a client.                                                  *)
LEMMA ClientRefines ==
    ASSUME IInv, OutcomeInv, NEW c \in Clients, ClientStep(c)
    PROVE  [Service!Next]_(Service!vars)
<1> USE NoneAssumption DEF IInv, Service!vars
<1>1. CASE AcquireLock(c) \/ CannotLock(c) \/ CannotPublish(c)
  <2>1. /\ phase[c] \in {"idle", "locked"} /\ responses[c] = NoResponse /\ executed[c] = 0
        /\ UNCHANGED <<answer, responses, executed>>
        /\ \A d \in Clients \ {c} : phase'[d] = phase[d]
    BY <1>1
       DEF AcquireLock, CannotLock, CannotPublish, Leaves, Types, EarlyInv, Early, NotForwarded,
           fileVars, targetVars
  <2>2. Standing' = [Standing EXCEPT ![c] = Standing'[c]] /\ Verdict' = [Verdict EXCEPT ![c] = Verdict'[c]]
    BY <2>1, OutcomesElsewhere
  <2>3. /\ Standing[c] = IF phase[c] = "idle" THEN "new" ELSE "open"
        /\ Verdict[c] = "none"
    BY <2>1, VerdictValue DEF Standing, Said, NoResponse
  <2>4. CASE AcquireLock(c)
    <3>1. phase[c] = "idle" /\ phase'[c] = "locked"
      BY <2>4 DEF AcquireLock, Types
    <3>2. Standing'[c] = "open" /\ Verdict'[c] = "none"
      BY <2>1, <3>1 DEF Standing, Verdict, Said, NoResponse
    <3>3. Verdict' = Verdict
      BY <2>2, <2>3, <3>2 DEF Verdict
    <3>4. Service!Ask(c)
      BY <2>1, <2>2, <2>3, <3>1, <3>2, <3>3 DEF Service!Ask
    <3> QED
      BY <3>4 DEF Service!Next
  <2>5. CASE CannotLock(c) \/ CannotPublish(c)
    <3>1. phase'[c] = "refused"
      BY <2>5 DEF CannotLock, CannotPublish, Leaves, Types
    <3>2. Standing'[c] = "refused" /\ Verdict'[c] = "refused"
      BY <3>1 DEF Standing, Verdict
    <3>3. Service!TurnAway(c)
      BY <2>1, <2>2, <2>3, <3>2 DEF Service!TurnAway
    <3> QED
      BY <3>3 DEF Service!Next
  <2> QED
    BY <1>1, <2>4, <2>5
<1>2. CASE Publish(c)
  <2>1. /\ phase[c] = "locked" /\ phase'[c] = "waiting" /\ UNCHANGED <<answer, responses, executed>>
        /\ \A d \in Clients \ {c} : phase'[d] = phase[d]
    BY <1>2 DEF Publish, Published, Types, targetVars
  <2>3. Standing'[c] = Standing[c] /\ Verdict'[c] = Verdict[c]
    BY <2>1 DEF Standing, Verdict, Said
  <2> QED
    <3>1. \A d \in Clients : Standing'[d] = Standing[d] /\ Verdict'[d] = Verdict[d]
      BY <2>1, <2>3, OutcomeKept
    <3> QED
      BY <2>1, <3>1, OutcomesUnchanged
<1>3. CASE ReadResponse(c) \/ ResponseTimesOut(c)
  <2>1. /\ phase[c] \in {"locked", "waiting"} /\ UNCHANGED executed
        /\ \/ /\ phase'[c] = "returned" /\ answer'[c] = responses[c]
              /\ phase[c] = "waiting" /\ responses[c] # NoResponse
           \/ phase'[c] = "gaveUp" /\ responses' = responses
        /\ \A d \in Clients \ {c} :
              phase'[d] = phase[d] /\ answer'[d] = answer[d] /\ responses'[d] = responses[d]
    BY <1>3 DEF ReadResponse, ResponseTimesOut, Leaves, Types, fileVars, targetVars
  <2>2. Standing' = [Standing EXCEPT ![c] = Standing'[c]] /\ Verdict' = [Verdict EXCEPT ![c] = Verdict'[c]]
    BY <2>1, OutcomesElsewhere
  <2>3. Said(c)' = Said(c) /\ Said(c) = responses[c].what /\ Verdict[c] = "none"
    BY <2>1, VerdictValue DEF Said
  <2>4. Standing'[c] = Standing[c] /\ Standing[c] # "new"
    BY <2>1, <2>3 DEF Standing
  <2>5. Standing' = Standing
    BY <2>2, <2>4 DEF Standing
  <2>6. Verdict'[c] \in Service!Truth(c) \cup {"unknown"}
    <3>1. CASE phase'[c] = "gaveUp"
      BY <3>1 DEF Verdict
    <3>2. CASE /\ phase'[c] = "returned" /\ phase[c] = "waiting" /\ responses[c] # NoResponse
      <4>1. /\ Verdict'[c] = IF Said(c) = "result" THEN "result" ELSE Standing[c]
        BY <2>3, <2>4, <3>2 DEF Verdict
      <4>2. /\ Said(c) \in Answers \ {"none"}
            /\ Said(c) = "result" => executed[c] > 0
        BY <2>3, <3>2 DEF OutcomeInv, Plausible, ResponseInv, Truthful, Types, Response
      <4>3. CASE Said(c) = "result"
        <5>1. Standing[c] = "open"
          BY <3>2, <4>3 DEF Standing
        <5>2. executed[c] = 1
          BY <4>2, <4>3 DEF ExecutedAtMostOnce, Types
        <5> QED
          BY <4>1, <4>3, <5>1, <5>2 DEF Service!Truth
      <4>4. CASE Said(c) # "result"
        <5>1. Standing[c] \in {"refused", "served"}
          BY <3>2, <4>2, <4>4 DEF Standing
        <5> QED
          BY <4>1, <4>4, <5>1 DEF Service!Truth
      <4> QED
        BY <4>3, <4>4
    <3> QED
      BY <2>1, <3>1, <3>2
  <2>7. Service!Tell(c)
    BY <2>1, <2>2, <2>3, <2>4, <2>5, <2>6 DEF Service!Tell
  <2> QED
    BY <2>7 DEF Service!Next
<1> QED
  BY <1>1, <1>2, <1>3 DEF ClientStep

(* The launcher handles a request, or finishes a reload.                   *)
LEMMA LauncherRefines ==
    ASSUME IInv, OutcomeInv, (\E c \in Clients : ProcessMailboxRequest(c)) \/ FinishReload
    PROVE  [Service!Next]_(Service!vars)
<1> USE DEF IInv, Service!vars
<1>1. UNCHANGED <<phase, answer, executed>>
  BY DEF ProcessMailboxRequest, FinishReload, clientVars
<1>2. CASE UNCHANGED responses
  <2>1. Standing' = Standing /\ Verdict' = Verdict
    BY <1>1, <1>2, OutcomeKept, OutcomesUnchanged
  <2> QED
    BY <1>1, <2>1
<1>3. ASSUME NEW c \in Clients, NEW what \in Served \cup {"not_ready"}, Write(c, what),
             phase[c] \in {"waiting", "gaveUp"}, responses[c] = NoResponse, executed[c] = 0
      PROVE  [Service!Next]_(Service!vars)
  BY <1>1, <1>3, AnsweringSettles DEF Service!Next
<1>4. ASSUME NEW c \in Clients, ProcessMailboxRequest(c)
      PROVE  [Service!Next]_(Service!vars)
  <2>1. CASE c \notin requests
    BY <1>2, <1>4, <2>1 DEF ProcessMailboxRequest
  <2>2. CASE c \in requests
    <3>1. phase[c] \in {"waiting", "gaveUp"} /\ responses[c] = NoResponse /\ executed[c] = 0
      BY <2>2 DEF EarlyInv, Early, NotForwarded
    <3>2. \/ UNCHANGED responses
          \/ \E what \in Served \cup {"not_ready"} : Write(c, what)
      BY <1>4, <2>2
         DEF ProcessMailboxRequest, HandleControlRequest, AnswerStatus, RequestStop,
             RefuseUntilReady, ForwardToAgent, ReloadPreview, Served
    <3> QED
      BY <1>2, <1>3, <3>1, <3>2
  <2> QED
    BY <2>1, <2>2
<1>5. CASE FinishReload
  <2>1. reload.client \in Clients
    BY <1>5 DEF FinishReload, Types
  <2>2. /\ phase[reload.client] \in {"waiting", "gaveUp"} /\ responses[reload.client] = NoResponse
        /\ executed[reload.client] = 0
    <3> DEFINE c == reload.client
    <3>1. executed[c] \in Nat
      BY <2>1 DEF Types
    <3> HIDE DEF c
    <3>2. /\ phase[c] \in {"waiting", "gaveUp"} /\ responses[c] = NoResponse
          /\ kind[c] = "reload" /\ ~(executed[c] > 0)
      BY <2>1 DEF OutcomeInv, c
    <3> QED
      BY <3>1, <3>2 DEF c
  <2>3. UNCHANGED responses \/ Write(reload.client, "reloaded")
    BY <1>5 DEF FinishReload
  <2> QED
    BY <1>2, <1>3, <2>1, <2>2, <2>3 DEF Served
<1> QED
  BY <1>4, <1>5

(* A request the target or the launcher still deals with is open.          *)
LEMMA ForwardedIsOpen ==
    ASSUME IInv, OutcomeInv, NEW c \in Clients, ~NotForwarded(c), kind[c] = "agent"
    PROVE  /\ phase[c] \notin {"idle", "refused"}
           /\ Said(c) \in {"none", "result"}
           /\ Standing[c] = "open"
<1> USE DEF IInv
<1>1. phase[c] \notin {"idle", "refused"}
  BY DEF EarlyInv, Early
<1>2. Said(c) \in {"none", "result"}
  <2>1. CASE phase[c] = "returned"
    <3>1. answer[c].what \in Answers
      BY <2>1 DEF Types, Response, NoResponse, Answers
    <3> QED
      BY <2>1, <3>1 DEF Said, OutcomeInv, Plausible, ResponseInv, Truthful, Answers, Served
  <2>2. CASE phase[c] # "returned"
    <3>1. responses[c].what \in Answers
      BY DEF Types, Response, NoResponse, Answers
    <3>2. responses[c] = NoResponse => responses[c].what = "none"
      BY DEF NoResponse
    <3> QED
      BY <2>2, <3>1, <3>2 DEF Said, OutcomeInv, Plausible, ResponseInv, Truthful, Answers, Served
  <2> QED
    BY <2>1, <2>2
<1> QED
  BY <1>1, <1>2 DEF Standing

(* The reply of the target tells nothing new of a request.                 *)
LEMMA HandleAgentMessageRefines ==
    ASSUME IInv, OutcomeInv, HandleAgentMessage
    PROVE  UNCHANGED (Service!vars)
<1> USE DEF IInv
<1>1. UNCHANGED <<phase, answer, executed>>
  BY DEF HandleAgentMessage, clientVars
<1>2. ASSUME NEW d \in Clients, responses'[d] # responses[d]
      PROVE  kind[d] = "agent" /\ ~NotForwarded(d) /\ responses'[d].what = "result"
  <2>1. Head(toLauncher) = toLauncher[1] /\ 1 \in 1..Len(toLauncher)
    BY DEF HandleAgentMessage, Types
  <2>2. PICK p \in pending : p.id = toLauncher[1].id /\ p.client = d
    BY <1>2, <2>1 DEF HandleAgentMessage
  <2>3. p.client = toLauncher[1].client
    BY <2>1, <2>2 DEF IdInv
  <2> QED
    BY <1>2, <2>1, <2>2, <2>3 DEF HandleAgentMessage, TravelInv, NotForwarded
<1>3. ASSUME NEW d \in Clients
      PROVE  Standing'[d] = Standing[d] /\ Verdict'[d] = Verdict[d]
  <2>1. CASE responses'[d] = responses[d]
    BY <1>1, <2>1 DEF Standing, Verdict, Said
  <2>2. CASE responses'[d] # responses[d] /\ phase[d] = "returned"
    BY <1>1, <2>2 DEF Standing, Verdict, Said
  <2>3. CASE responses'[d] # responses[d] /\ phase[d] # "returned"
    <3>1. Standing[d] = "open" /\ phase[d] \notin {"idle", "refused"}
      BY <1>2, <2>3, ForwardedIsOpen
    <3>2. Standing'[d] = "open"
      BY <1>1, <1>2, <2>3, <3>1 DEF Standing, Said
    <3> QED
      BY <1>1, <2>3, <3>1, <3>2 DEF Verdict
  <2> QED
    BY <2>1, <2>2, <2>3
<1> QED
  BY <1>1, <1>3, OutcomesUnchanged DEF Service!vars

(* The target carries out an open request.                                 *)
LEMMA TargetRefines ==
    ASSUME IInv, OutcomeInv, TargetServes
    PROVE  [Service!Next]_(Service!vars)
<1> USE DEF IInv
<1> DEFINE m == Head(toTarget)
<1>1. m = toTarget[1] /\ 1 \in 1..Len(toTarget) /\ m.client \in Clients
  <2>1. toTarget \in Seq(Envelope) /\ toTarget # <<>>
    BY DEF TargetServes, Types
  <2>2. m = toTarget[1] /\ 1 \in 1..Len(toTarget)
    BY <2>1
  <2> QED
    BY <2>1, <2>2, EnvelopeParts
<1>2. Standing' = Standing /\ Verdict' = Verdict
  <2>1. UNCHANGED <<phase, answer, responses>>
    BY DEF TargetServes, clientVars, fileVars
  <2> QED
    BY <2>1, OutcomeKept, OutcomesUnchanged
<1>3. CASE m.id = 0
  <2>1. UNCHANGED executed
    BY <1>3 DEF TargetServes
  <2> QED
    BY <1>2, <2>1 DEF Service!vars
<1>4. CASE m.id # 0
  <2>1. executed[m.client] = 0 /\ kind[m.client] = "agent" /\ ~NotForwarded(m.client)
    BY <1>1, <1>4 DEF TravelInv, NotForwarded
  <2>2. executed' = [executed EXCEPT ![m.client] = 1]
    BY <1>4, <2>1 DEF TargetServes
  <2>3. Standing[m.client] = "open"
    BY <1>1, <2>1, ForwardedIsOpen
  <2>4. Service!Execute(m.client)
    BY <1>2, <2>1, <2>2, <2>3 DEF Service!Execute
  <2> QED
    BY <1>1, <2>4 DEF Service!Next
<1> QED
  BY <1>3, <1>4

(* Clients, launcher and target are a service that carries out a request   *)
(* at most once and tells its client the truth, whoever gives up, dies or  *)
(* is late.                                                                *)
THEOREM Refinement == Spec => ImplementsService
<1>1. Init => OutcomeInv
  BY NoneAssumption DEF Init, OutcomeInv
<1>2. Spec => []OutcomeInv
  BY <1>1, NextOutcome, Invariance, PTL DEF Spec
<1>3. Init => Service!Init
  BY DEF Init, Service!Init, Standing, Verdict
<1>4. ASSUME IInv, OutcomeInv, [Next]_vars
      PROVE  [Service!Next]_(Service!vars)
  <2>1. CASE \E c \in Clients : ClientStep(c)
    BY <1>4, <2>1, ClientRefines
  <2>2. CASE (\E c \in Clients : ProcessMailboxRequest(c)) \/ FinishReload
    BY <1>4, <2>2, LauncherRefines
  <2>3. CASE HandleAgentMessage
    BY <1>4, <2>3, HandleAgentMessageRefines
  <2>4. CASE TargetServes
    BY <1>4, <2>4, TargetRefines
  <2>5. CASE \/ SetSessionReady \/ ListMailbox \/ TargetFinished \/ StartFails
             \/ LauncherDies \/ TargetExits \/ UNCHANGED vars
    <3>1. UNCHANGED <<phase, answer, executed, responses>>
      BY <2>5
         DEF SetSessionReady, ListMailbox, TargetFinished, StartFails, LauncherDies, TargetExits,
             vars, clientVars, fileVars, targetVars
    <3>2. Standing' = Standing /\ Verdict' = Verdict
      BY <3>1, OutcomeKept, OutcomesUnchanged
    <3> QED
      BY <3>1, <3>2 DEF Service!vars
  <2> QED
    BY <1>4, <2>1, <2>2, <2>3, <2>4, <2>5 DEF Next, LauncherStep
<1>5. IInv /\ OutcomeInv /\ [Next]_vars => [Service!Next]_(Service!vars)
  BY <1>4
<1> QED
  BY <1>2, <1>3, <1>5, Invariance, PTL DEF Spec, ImplementsService, Service!Spec

=============================================================================
