---------------------------- MODULE CallOutcome ----------------------------
(***************************************************************************)
(* What the QmlAgent service promises a client about one GUI-thread        *)
(* request, without threads, semaphores or clocks: an operation has an     *)
(* effect on the application, the client gets one verdict, and the verdict *)
(* tells the truth about the effect, also about the effect still to come.  *)
(* GuiDispatch is shown to implement this specification.                   *)
(***************************************************************************)

CONSTANTS Requests,   \* the requests a client may ever send
          NoRequest   \* a value that is no request

VARIABLES effect,   \* what the operation has done to the application so far
          verdict,  \* what the client was told, "none" before it was told
          asked     \* the request whose verdict is awaited, or NoRequest

vars == <<effect, verdict, asked>>

Effects  == {"none", "running", "done"}
Verdicts == {"none", "result", "not_executed", "unknown", "busy", "disabled"}

Idle    == \A r \in Requests : effect[r] # "running"
Fresh(r) == asked = NoRequest /\ verdict[r] = "none" /\ effect[r] = "none"

Init ==
    /\ effect  = [r \in Requests |-> "none"]
    /\ verdict = [r \in Requests |-> "none"]
    /\ asked   = NoRequest

(* The client sends r and waits; no other request is awaited meanwhile.    *)
Ask(r) ==
    /\ Fresh(r)
    /\ asked' = r
    /\ UNCHANGED <<effect, verdict>>

(* r is turned away at once and never has an effect; "busy" needs an       *)
(* operation that is still running although its verdict was given.         *)
Refuse(r, why) ==
    /\ Fresh(r)
    /\ why = "busy" => \E s \in Requests : effect[s] = "running" /\ verdict[s] = "unknown"
    /\ verdict' = [verdict EXCEPT ![r] = why]
    /\ UNCHANGED <<effect, asked>>

(* Without an application there is no GUI thread: r runs in its caller.    *)
RunInCaller(r) ==
    /\ Fresh(r)
    /\ Idle
    /\ effect'  = [effect  EXCEPT ![r] = "done"]
    /\ verdict' = [verdict EXCEPT ![r] = "result"]
    /\ UNCHANGED asked

(* Operations never interleave, and only an awaited one begins.            *)
Begin(r) ==
    /\ asked = r
    /\ effect[r] = "none"
    /\ Idle
    /\ effect' = [effect EXCEPT ![r] = "running"]
    /\ UNCHANGED <<verdict, asked>>

End(r) ==
    /\ effect[r] = "running"
    /\ effect' = [effect EXCEPT ![r] = "done"]
    /\ UNCHANGED <<verdict, asked>>

TruthfulVerdicts(e) ==
    CASE e = "none"    -> {"not_executed"}
      [] e = "running" -> {"unknown"}
      [] e = "done"    -> {"result", "unknown"}

Answer(r) ==
    /\ asked = r
    /\ asked' = NoRequest
    /\ \E v \in TruthfulVerdicts(effect[r]) : verdict' = [verdict EXCEPT ![r] = v]
    /\ UNCHANGED effect

Next ==
    \E r \in Requests :
        \/ Ask(r)
        \/ \E why \in {"busy", "disabled", "not_executed"} : Refuse(r, why)
        \/ RunInCaller(r)
        \/ Begin(r)
        \/ End(r)
        \/ Answer(r)

Spec == Init /\ [][Next]_vars

=============================================================================
