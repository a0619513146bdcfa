--------------------------- MODULE GatewayBudget ---------------------------
(***************************************************************************)
(* Two layers wait for one request on the target's GUI thread: the QmlAgent*)
(* service, for a budget it derives from the request (plus a grace window  *)
(* once the request has started), and the command-line or MCP client that  *)
(* came through a launcher, for a timeout it derives from the same request.*)
(* Both start to wait at 0, which favours the client: its time also covers *)
(* the lock, the mailbox and the launcher. Times are in milliseconds.      *)
(***************************************************************************)
EXTENDS Integers

CONSTANTS IntMax, \* bound: the largest int is scaled down to this
          Absent, \* a parameter the request does not have
          Waits, Holds, Settles, Counts, \* the values of parameters
          Fallbacks                      \* --timeout of the client

ASSUME IntMaxAssumption == IntMax \in Nat /\ IntMax > 200000
ASSUME ParametersAssumption ==
    /\ (Waits \cup Holds \cup Settles) \ {Absent} \subseteq -(IntMax + 1)..IntMax
    /\ Counts \subseteq 0..IntMax
    /\ Fallbacks \subseteq 1..IntMax

VARIABLES request, fallback, \* what was asked, chosen once
          now,
          gui,     \* the operation on the GUI thread
          service, \* the debug thread that waits for it
          client   \* the client that waits for the service

gatewayVars == <<request, fallback, now, gui, service, client>>

-----------------------------------------------------------------------------
(* The requests, by the parameters that their budgets read.                *)

Request(method, wait, hold, settle, focusSettle, queries) ==
    [method |-> method, wait |-> wait, hold |-> hold, settle |-> settle,
     focusSettle |-> focusSettle, queries |-> queries]

Requests ==
         {Request("UI.query", Absent, Absent, Absent, Absent, 0)}
    \cup {Request("UI.waitFor", wait, Absent, Absent, Absent, 0) : wait \in Waits}
    \cup {Request("UI.queryMany", Absent, Absent, Absent, Absent, queries) : queries \in Counts}
    \cup {Request("Input.longPressNode", Absent, hold, settle, Absent, 0) :
             hold \in Holds, settle \in Settles}
    \cup {Request("Input.typeText", Absent, Absent, settle, focusSettle, 0) :
             settle, focusSettle \in Settles}
    \cup {Request(method, Absent, Absent, settle, Absent, 0) :
             method \in {"Input.clickNode", "Runtime.setProperty"}, settle \in Settles}

IsInput(r) == r.method \in {"Input.longPressNode", "Input.typeText", "Input.clickNode"}

Larger(a, b)       == IF a > b THEN a ELSE b
Bound(low, x, high) == IF x < low THEN low ELSE IF x > high THEN high ELSE x
OrDefault(x, default) == IF x = Absent THEN default ELSE x

-----------------------------------------------------------------------------
(* The service's side.                                                     *)

SettleMs(x) == Bound(0, OrDefault(x, 50), 30000)
HoldMs(x)   == Bound(1, OrDefault(x, 900), 10000)

WaitForBudgetMs(r)   == Bound(0, OrDefault(r.wait, 1000), 30000)
QueryManyBudgetMs(r) == 250 * Bound(0, r.queries, 50)

InputBudgetMs(r) ==
    SettleMs(r.settle)
    + (IF r.method = "Input.longPressNode" THEN HoldMs(r.hold) ELSE 0)
    + (IF r.method = "Input.typeText" THEN SettleMs(r.focusSettle) ELSE 0)

ExtraBudgetMs(r) ==
    Bound(0, CASE r.method = "UI.waitFor"          -> WaitForBudgetMs(r)
               [] r.method = "UI.queryMany"        -> QueryManyBudgetMs(r)
               [] r.method = "Runtime.setProperty" -> SettleMs(r.settle)
               [] IsInput(r)                       -> InputBudgetMs(r)
               [] OTHER                            -> 0, 120000)

GuiDispatchTimeoutMs(r) == 5000 + ExtraBudgetMs(r)

StartedGraceMs == 5000

-----------------------------------------------------------------------------
(* The client's side.                                                      *)

ReplySlackMs == 1000

(* Mutant: the addition may overflow and wrap.                             *)
WrappingSlack(ms) ==
    LET sum == ms + ReplySlackMs IN
    IF sum > IntMax THEN sum - 2 * (IntMax + 1) ELSE sum

AddReplySlack(ms) == (IF ms < IntMax - ReplySlackMs THEN ms ELSE IntMax - ReplySlackMs) + ReplySlackMs

(* The time the client knows r to take, or -1.                             *)
SemanticTimeoutMs(r, default) ==
    CASE r.method = "UI.waitFor"              -> Larger(0, OrDefault(r.wait, default))
      [] r.method = "Input.longPressNode"     -> HoldMs(r.hold) + SettleMs(r.settle)
      [] r.method = "Input.typeText"          -> SettleMs(r.settle) + SettleMs(r.focusSettle)
      [] r.method \in {"Input.clickNode", "Runtime.setProperty"} -> SettleMs(r.settle)
      [] OTHER                                -> -1

LauncherControlTimeoutMs(r, default) ==
    LET semantic == SemanticTimeoutMs(r, default) IN
    IF semantic < 0 THEN default ELSE Larger(default, AddReplySlack(semantic))

-----------------------------------------------------------------------------
Budget        == GuiDispatchTimeoutMs(request)
ClientTimeout == LauncherControlTimeoutMs(request, fallback)

GatewayInit ==
    /\ request \in Requests
    /\ fallback \in Fallbacks
    /\ now = 0
    /\ gui = "queued"
    /\ service = "budget"
    /\ client = "waiting"

(* Time goes on to a deadline, but not past one that somebody waits for.   *)
Deadlines == {Budget, Budget + StartedGraceMs, ClientTimeout}

Awaited ==
         (IF service = "budget"  THEN {Budget} ELSE {})
    \cup (IF service = "grace"   THEN {Budget + StartedGraceMs} ELSE {})
    \cup (IF client  = "waiting" THEN {ClientTimeout} ELSE {})

Advance ==
    /\ \E t \in Deadlines : t > now /\ (\A d \in Awaited : t <= d) /\ now' = t
    /\ UNCHANGED <<request, fallback, gui, service, client>>

GuiStarts ==
    /\ gui = "queued"
    /\ gui' = "running"
    /\ UNCHANGED <<request, fallback, now, service, client>>

GuiFinishes ==
    /\ gui = "running"
    /\ gui' = "finished"
    /\ UNCHANGED <<request, fallback, now, service, client>>

BudgetExpires ==
    /\ service = "budget"
    /\ now >= Budget
    /\ \/ /\ gui = "queued"
          /\ gui' = "cancelled"
          /\ service' = "answered"
       \/ /\ gui # "queued"
          /\ service' = "grace"
          /\ UNCHANGED gui
    /\ UNCHANGED <<request, fallback, now, client>>

ServiceAnswers ==
    /\ service \in {"budget", "grace"}
    /\ gui = "finished" \/ (service = "grace" /\ now >= Budget + StartedGraceMs)
    /\ service' = "answered"
    /\ UNCHANGED <<request, fallback, now, gui, client>>

ClientAnswered ==
    /\ client = "waiting"
    /\ service = "answered"
    /\ client' = "answered"
    /\ UNCHANGED <<request, fallback, now, gui, service>>

ClientTimesOut ==
    /\ client = "waiting"
    /\ now >= ClientTimeout
    /\ client' = "timedOut"
    /\ UNCHANGED <<request, fallback, now, gui, service>>

GatewayNext ==
    \/ Advance
    \/ GuiStarts \/ GuiFinishes
    \/ BudgetExpires \/ ServiceAnswers
    \/ ClientAnswered \/ ClientTimesOut

GatewaySpec == GatewayInit /\ [][GatewayNext]_gatewayVars

-----------------------------------------------------------------------------
(* The times stay in the range of an int, whatever the parameters.         *)
GatewayTypeOK ==
    /\ request \in Requests
    /\ fallback \in Fallbacks
    /\ now \in 0..IntMax
    /\ gui \in {"queued", "running", "finished", "cancelled"}
    /\ service \in {"budget", "grace", "answered"}
    /\ client \in {"waiting", "answered", "timedOut"}
    /\ ClientTimeout \in 1..IntMax
    /\ AddReplySlack(Larger(0, SemanticTimeoutMs(request, fallback))) \in 0..IntMax

(* A client never gives up during the time that the request itself asks    *)
(* for (its own timeout, hold and settle windows), whatever the            *)
(* parameters; batched queries, whose time it does not compute, aside.     *)
OutlastsTheRequestsOwnTime ==
    client = "timedOut" /\ request.method # "UI.queryMany" => now >= ExtraBudgetMs(request)

(* The comment in launcherControlTimeoutMs: it mirrors the budgets of the  *)
(* service "so the gateway does not time out one layer below a request     *)
(* that is still legitimately running on the target GUI thread".           *)
DoesNotTimeOutOneLayerBelow ==
    client = "timedOut" /\ gui = "running" => now >= Budget

=============================================================================
