--------------------------- MODULE RequestService ---------------------------
(***************************************************************************)
(* What a launcher promises to the clients of its mailbox, without files,  *)
(* locks, processes or connections: a request is carried out by the target *)
(* at most once, answered by the launcher itself, or refused, and what a   *)
(* client is told of its request is true then and later. A client that     *)
(* gives up learns nothing, and its request may still be carried out.      *)
(* ControlMailbox is shown to implement this specification.                *)
(***************************************************************************)
EXTENDS Naturals

CONSTANT Clients  \* the calls, each with its request

VARIABLES standing, \* of each request
          executed, \* how often the target has carried it out
          verdict   \* what its client was told, "none" before it was told

vars == <<standing, executed, verdict>>

Init ==
    /\ standing = [c \in Clients |-> "new"]
    /\ executed = [c \in Clients |-> 0]
    /\ verdict  = [c \in Clients |-> "none"]

Ask(c) ==
    /\ standing[c] = "new"
    /\ standing' = [standing EXCEPT ![c] = "open"]
    /\ UNCHANGED <<executed, verdict>>

(* Only an open request is carried out, and only once; its client may have *)
(* given up.                                                               *)
Execute(c) ==
    /\ standing[c] = "open"
    /\ executed[c] = 0
    /\ executed' = [executed EXCEPT ![c] = 1]
    /\ UNCHANGED <<standing, verdict>>

(* The launcher refuses a request or serves it itself; neither is carried  *)
(* out by the target, then or later.                                       *)
Settle(c, how) ==
    /\ standing[c] = "open"
    /\ executed[c] = 0
    /\ standing' = [standing EXCEPT ![c] = how]
    /\ UNCHANGED <<executed, verdict>>

(* The launcher is not reached.                                            *)
TurnAway(c) ==
    /\ standing[c] \in {"new", "open"}
    /\ executed[c] = 0
    /\ verdict[c] = "none"
    /\ standing' = [standing EXCEPT ![c] = "refused"]
    /\ verdict'  = [verdict  EXCEPT ![c] = "refused"]
    /\ UNCHANGED executed

Truth(c) ==
    CASE standing[c] = "open" /\ executed[c] = 1  -> {"result"}
      [] standing[c] \in {"refused", "served"}    -> {standing[c]}
      [] OTHER                                    -> {}

Tell(c) ==
    /\ standing[c] # "new"
    /\ verdict[c] = "none"
    /\ \E v \in Truth(c) \cup {"unknown"} : verdict' = [verdict EXCEPT ![c] = v]
    /\ UNCHANGED <<standing, executed>>

Next ==
    \E c \in Clients :
        \/ Ask(c)
        \/ Execute(c)
        \/ \E how \in {"refused", "served"} : Settle(c, how)
        \/ TurnAway(c)
        \/ Tell(c)

Spec == Init /\ [][Next]_vars

=============================================================================
