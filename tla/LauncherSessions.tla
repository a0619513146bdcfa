-------------------------- MODULE LauncherSessions --------------------------
(***************************************************************************)
(* Launcher processes, from start-up to their end, and the clients that    *)
(* discover their sessions, probe them and move what a dead launcher left  *)
(* behind to the Trash.                                                    *)
(*                                                                         *)
(* A launcher leaves two traces: its runtime directory qmlagent-<pid>,     *)
(* with the mailbox and sockets of its session in it, and one registry     *)
(* record in each registry directory. The system gives the PID of a        *)
(* process that ended to another one, which may be a launcher again: then  *)
(* both sessions have the same runtime directory. What a mailbox carries   *)
(* is the business of ControlMailbox.                                      *)
(***************************************************************************)
EXTENDS FiniteSets

CONSTANTS Launchers, \* launcher processes, each with the session id it draws
          Pids,      \* the PIDs of one namespace
          Dirs,      \* registry directories: of a workspace, and global ones
          Clients,   \* qmlagentctl and qmlagent-mcp processes
          Foreign,   \* the clients that run in another PID namespace
          Visible,   \* the registry directories each client scans
          Nobody,    \* a PID that is free
          Other      \* a process that is no launcher

ASSUME ForeignAssumption == Foreign \subseteq Clients
ASSUME VisibleAssumption == Visible \in [Clients -> SUBSET Dirs]
ASSUME ProcessesAssumption == Nobody \notin Launchers /\ Other \notin Launchers /\ Nobody # Other

VARIABLES
    holder,   \* the process that has each PID
    pid,      \* the PID each launcher has, or had
    pc,       \* where each launcher is
    target,   \* its target process: "ended" until QProcess::finished is handled
    quit,     \* a quit is scheduled, 2000 ms after a signal
    runtimes, \* the PIDs whose runtime directory exists
    contents, \* the sessions that have files in each runtime directory
    records,  \* the registry directories that hold each session's record
    step,     \* where each client is
    session,  \* the session it is looking at
    paths,    \* the records it has matched and will move
    since     \* history: the launchers started since it judged

processVars == <<holder, pid, pc, target, quit>>
fileVars    == <<runtimes, contents, records>>
clientVars  == <<step, session, paths>>
vars == <<processVars, fileVars, clientVars, since>>

Phases == {"none", "boot", "listening", "connecting", "ready", "serving",
           "removing", "removingConnected", "gone", "killed"}

Init ==
    /\ holder = [p \in Pids |-> Nobody]
    /\ pid = [l \in Launchers |-> Nobody]
    /\ pc = [l \in Launchers |-> "none"]
    /\ target = [l \in Launchers |-> "none"]
    /\ quit = [l \in Launchers |-> FALSE]
    /\ runtimes = {}
    /\ contents = [p \in Pids |-> {}]
    /\ records = [l \in Launchers |-> {}]
    /\ step = [c \in Clients |-> "idle"]
    /\ session = [c \in Clients |-> Nobody]
    /\ paths = [c \in Clients |-> {}]
    /\ since = [c \in Clients |-> {}]

Alive(l) == pc[l] \notin {"none", "gone", "killed"}

(* An event loop runs only while the launcher waits for the debug          *)
(* connection and, at last, in app.exec().                                 *)
InEventLoop(l) == pc[l] \in {"connecting", "serving"}

At(l, from, to) == pc[l] = from /\ pc' = [pc EXCEPT ![l] = to]

(* The process is gone: its PID is free, its timers and its child are      *)
(* nobody's.                                                               *)
ProcessEnds(l) ==
    /\ holder' = [holder EXCEPT ![pid[l]] = Nobody]
    /\ quit' = [quit EXCEPT ![l] = FALSE]

-----------------------------------------------------------------------------
(* The launcher's start.                                                   *)

(* Made, or found: nothing of an earlier session with the same PID is      *)
(* removed.                                                                *)
LauncherRuntimeDir(p) == runtimes' = runtimes \cup {p}

Launch(l, p) ==
    /\ At(l, "none", "boot")
    /\ holder[p] = Nobody
    /\ holder' = [holder EXCEPT ![p] = l]
    /\ pid' = [pid EXCEPT ![l] = p]
    /\ LauncherRuntimeDir(p)
    /\ since' = [c \in Clients |-> IF step[c] = "idle" THEN {} ELSE since[c] \cup {l}]
    /\ UNCHANGED <<target, quit, contents, records, clientVars>>

(* The mailbox is made, and its directory once more if it is gone.         *)
Listen(l) ==
    /\ At(l, "boot", "listening")
    /\ LauncherRuntimeDir(pid[l])
    /\ contents' = [contents EXCEPT ![pid[l]] = @ \cup {l}]
    /\ UNCHANGED <<holder, pid, target, quit, records, clientVars, since>>

(* The preview file cannot be read, the mailbox cannot be made, or the     *)
(* target cannot be started: main returns, and what was made stays.        *)
StartFails(l) ==
    /\ At(l, "boot", "gone") \/ At(l, "listening", "gone")
    /\ ProcessEnds(l)
    /\ UNCHANGED <<pid, target, fileVars, clientVars, since>>

StartTarget(l) ==
    /\ At(l, "listening", "connecting")
    /\ target' = [target EXCEPT ![l] = "running"]
    /\ UNCHANGED <<holder, pid, quit, fileVars, clientVars, since>>

(* The target crashes, exits, or dies of the signals that Session.stop and *)
(* a signal to the launcher send it.                                       *)
TargetEnds(l) ==
    /\ Alive(l)
    /\ target[l] = "running"
    /\ target' = [target EXCEPT ![l] = "ended"]
    /\ UNCHANGED <<holder, pid, pc, quit, fileVars, clientVars, since>>

Connected(l) ==
    /\ At(l, "connecting", "ready")
    /\ UNCHANGED <<holder, pid, target, quit, fileVars, clientVars, since>>

(* A directory that cannot be written is passed over.                      *)
WriteLauncherRegistryFiles(l) ==
    /\ At(l, "ready", "serving")
    /\ \E written \in SUBSET Dirs : records' = [records EXCEPT ![l] = written]
    /\ UNCHANGED <<holder, pid, target, quit, runtimes, contents, clientVars, since>>

-----------------------------------------------------------------------------
(* The launcher's end.                                                     *)

RemovesRecords(l) ==
    /\ records' = [records EXCEPT ![l] = {}]
    /\ UNCHANGED <<holder, pid, runtimes, contents, clientVars, since>>

(* Mutant: the handler leaves the records to aboutToQuit, which a launcher *)
(* that gives up never reaches.                                            *)
FinishedKeepingFiles(l) ==
    /\ InEventLoop(l)
    /\ target[l] = "ended"
    /\ target' = [target EXCEPT ![l] = "reaped"]
    /\ \/ At(l, "connecting", "gone") /\ ProcessEnds(l)
       \/ At(l, "serving", "removing") /\ UNCHANGED <<holder, quit>>
    /\ UNCHANGED <<pid, fileVars, clientVars, since>>

(* QProcess::finished ends the event loop that delivers it: while          *)
(* connecting the wait fails then, and the launcher gives up. But if the   *)
(* target's hello came in the same pass of that loop, the wait succeeds.   *)
Finished(l) ==
    /\ InEventLoop(l)
    /\ target[l] = "ended"
    /\ target' = [target EXCEPT ![l] = "reaped"]
    /\ \/ At(l, pc[l], "removing")
       \/ At(l, "connecting", "removingConnected")
    /\ UNCHANGED quit
    /\ RemovesRecords(l)

(* The connection times out, or the target lacks the service.              *)
GiveUp(l) ==
    /\ At(l, "connecting", "removing")
    /\ target' = [target EXCEPT ![l] = "reaped"]
    /\ UNCHANGED quit
    /\ RemovesRecords(l)

(* The signal timer finds a signal: the target is told to end, and a quit  *)
(* is scheduled.                                                           *)
PollSignal(l) ==
    /\ InEventLoop(l)
    /\ quit' = [quit EXCEPT ![l] = TRUE]
    /\ UNCHANGED <<holder, pid, pc, target, fileVars, clientVars, since>>

(* Outside app.exec() a quit does nothing.                                 *)
QuitIgnored(l) ==
    /\ quit[l]
    /\ pc[l] = "connecting"
    /\ quit' = [quit EXCEPT ![l] = FALSE]
    /\ UNCHANGED <<holder, pid, pc, target, fileVars, clientVars, since>>

(* aboutToQuit. A target that is still there is killed by ~QProcess.       *)
Quit(l) ==
    /\ quit[l]
    /\ At(l, "serving", "removing")
    /\ target' = [target EXCEPT ![l] = "reaped"]
    /\ UNCHANGED quit
    /\ RemovesRecords(l)

(* Mutant: the handler's exit is not lost, though main goes on.            *)
RemoveRuntimeAndEnd(l) ==
    /\ At(l, "removing", "gone") \/ At(l, "removingConnected", "ready")
    /\ ProcessEnds(l)
    /\ runtimes' = runtimes \ {pid[l]}
    /\ contents' = [contents EXCEPT ![pid[l]] = {}]
    /\ UNCHANGED <<pid, target, records, clientVars, since>>

(* The whole directory goes, also what an earlier session left in it.      *)
RemoveRuntime(l) ==
    /\ \/ At(l, "removing", "gone") /\ ProcessEnds(l)
       \/ At(l, "removingConnected", "ready") /\ UNCHANGED <<holder, quit>>
    /\ runtimes' = runtimes \ {pid[l]}
    /\ contents' = [contents EXCEPT ![pid[l]] = {}]
    /\ UNCHANGED <<pid, target, records, clientVars, since>>

(* SIGKILL, or power loss: no handler runs.                                *)
Killed(l) ==
    /\ Alive(l)
    /\ At(l, pc[l], "killed")
    /\ ProcessEnds(l)
    /\ target' = [target EXCEPT ![l] = "none"]
    /\ UNCHANGED <<pid, fileVars, clientVars, since>>

OtherStarts(p) ==
    /\ holder[p] = Nobody
    /\ holder' = [holder EXCEPT ![p] = Other]
    /\ UNCHANGED <<pid, pc, target, quit, fileVars, clientVars, since>>

OtherEnds(p) ==
    /\ holder[p] = Other
    /\ holder' = [holder EXCEPT ![p] = Nobody]
    /\ UNCHANGED <<pid, pc, target, quit, fileVars, clientVars, since>>

-----------------------------------------------------------------------------
(* Discovery: one record after the other.                                  *)

Goes(c, to) == step' = [step EXCEPT ![c] = to] /\ UNCHANGED session

(* The client is through with this session.                                *)
Leaves(c) ==
    /\ step' = [step EXCEPT ![c] = "idle"]
    /\ session' = [session EXCEPT ![c] = Nobody]
    /\ paths' = [paths EXCEPT ![c] = {}]
    /\ since' = [since EXCEPT ![c] = {}]

(* A PID of another namespace is no process here.                          *)
SeenAt(c, p) == IF c \in Foreign THEN Nobody ELSE holder[p]

(* Mutant: any process that is not this session's launcher.                *)
StaleIfReused(c, l) == c \notin Foreign /\ SeenAt(c, pid[l]) # l

(* verifiedStaleLauncherReason: pid_absent_verified, pid_reuse_verified.   *)
(* A launcher with that PID, even of another session, is no evidence.      *)
VerifiedStale(c, l) == c \notin Foreign /\ SeenAt(c, pid[l]) \in {Nobody, Other}

(* An empty directory, or one with files of another session as well, is    *)
(* nobody's for certain.                                                   *)
ContentsBelongTo(l) == contents[pid[l]] = {l}

VerifiedRuntime(l) == pid[l] \in runtimes => ContentsBelongTo(l)

(* The copies of the record, also in directories the client does not scan: *)
(* the record names its launcher's workspace.                              *)
MatchingRegistryPaths(l) == records[l]

Discover(c, l) ==
    /\ step[c] = "idle"
    /\ records[l] \cap Visible[c] # {}
    /\ session' = [session EXCEPT ![c] = l]
    /\ step' = [step EXCEPT ![c] = "probe"]
    /\ UNCHANGED <<processVars, fileVars, paths, since>>

(* An answer overrules what the registry says; the session is listed.      *)
ProbeAnswered(c) ==
    /\ step[c] = "probe"
    /\ InEventLoop(session[c])
    /\ session[c] \in contents[pid[session[c]]]
    /\ Leaves(c)
    /\ UNCHANGED <<processVars, fileVars>>

(* No mailbox, no answer in time, or another client has its lock: the      *)
(* session may be dead, or only busy.                                      *)
ProbeFails(c) ==
    /\ step[c] = "probe"
    /\ Goes(c, "judge")
    /\ UNCHANGED <<processVars, fileVars, paths, since>>

(* The whole set is validated before anything is touched. Otherwise the    *)
(* session is listed as unreachable, with its cleanup error.               *)
Judge(c) ==
    /\ step[c] = "judge"
    /\ IF VerifiedStale(c, session[c]) /\ VerifiedRuntime(session[c])
       THEN /\ Goes(c, "moveRuntime")
            /\ paths' = [paths EXCEPT ![c] = MatchingRegistryPaths(session[c])]
            /\ since' = [since EXCEPT ![c] = {}]
       ELSE Leaves(c)
    /\ UNCHANGED <<processVars, fileVars>>

(* Mutant: a runtime that cannot be moved does not keep the records.       *)
MoveRuntimeOrGoOn(c) ==
    LET p == pid[session[c]] IN
    /\ step[c] = "moveRuntime"
    /\ Goes(c, "moveRecords")
    /\ \/ runtimes' = runtimes \ {p} /\ contents' = [contents EXCEPT ![p] = {}]
       \/ UNCHANGED <<runtimes, contents>>
    /\ UNCHANGED <<processVars, records, paths, since>>

MoveRuntime(c) ==
    LET p == pid[session[c]] IN
    /\ step[c] = "moveRuntime"
    /\ Goes(c, "moveRecords")
    /\ runtimes' = runtimes \ {p}
    /\ contents' = [contents EXCEPT ![p] = {}]
    /\ UNCHANGED <<processVars, records, paths, since>>

(* Without support for the Trash an existing runtime stays, and so do the  *)
(* records.                                                                *)
CannotMoveRuntime(c) ==
    /\ step[c] = "moveRuntime"
    /\ pid[session[c]] \in runtimes
    /\ Leaves(c)
    /\ UNCHANGED <<processVars, fileVars>>

(* Each matched record is moved; one that another client was faster to     *)
(* move, or that cannot be moved, is an error that does not stop the rest. *)
MoveRecord(c) ==
    /\ step[c] = "moveRecords"
    /\ \E d \in paths[c] :
          /\ paths' = [paths EXCEPT ![c] = @ \ {d}]
          /\ \/ records' = [records EXCEPT ![session[c]] = @ \ {d}]
             \/ UNCHANGED records
    /\ UNCHANGED <<processVars, runtimes, contents, step, session, since>>

(* A client may end at any point.                                          *)
EndDiscovery(c) ==
    /\ step[c] # "idle"
    /\ Leaves(c)
    /\ UNCHANGED <<processVars, fileVars>>

-----------------------------------------------------------------------------
LauncherStep(l) ==
    \/ \E p \in Pids : Launch(l, p)
    \/ Listen(l)
    \/ StartFails(l)
    \/ StartTarget(l)
    \/ TargetEnds(l)
    \/ Connected(l)
    \/ WriteLauncherRegistryFiles(l)
    \/ Finished(l)
    \/ GiveUp(l)
    \/ PollSignal(l)
    \/ QuitIgnored(l)
    \/ Quit(l)
    \/ RemoveRuntime(l)
    \/ Killed(l)

ClientStep(c) ==
    \/ \E l \in Launchers : Discover(c, l)
    \/ ProbeAnswered(c)
    \/ ProbeFails(c)
    \/ Judge(c)
    \/ MoveRuntime(c)
    \/ CannotMoveRuntime(c)
    \/ MoveRecord(c)
    \/ EndDiscovery(c)

Next ==
    \/ \E l \in Launchers : LauncherStep(l)
    \/ \E p \in Pids : OtherStarts(p) \/ OtherEnds(p)
    \/ \E c \in Clients : ClientStep(c)

Spec == Init /\ [][Next]_vars

-----------------------------------------------------------------------------
(* The variables have their types, and a PID has one living process.       *)
TypeOK ==
    /\ holder \in [Pids -> Launchers \cup {Nobody, Other}]
    /\ pid \in [Launchers -> Pids \cup {Nobody}]
    /\ pc \in [Launchers -> Phases]
    /\ target \in [Launchers -> {"none", "running", "ended", "reaped"}]
    /\ quit \in [Launchers -> BOOLEAN]
    /\ runtimes \subseteq Pids
    /\ contents \in [Pids -> SUBSET Launchers]
    /\ records \in [Launchers -> SUBSET Dirs]
    /\ step \in [Clients -> {"idle", "probe", "judge", "moveRuntime", "moveRecords"}]
    /\ session \in [Clients -> Launchers \cup {Nobody}]
    /\ paths \in [Clients -> SUBSET Dirs]
    /\ since \in [Clients -> SUBSET Launchers]
    \* The PID of a living launcher is its own.
    /\ \A l \in Launchers : Alive(l) => pid[l] \in Pids /\ holder[pid[l]] = l

(* A client takes nothing from a living session: not its records, however  *)
(* long its launcher did not answer and in whatever namespace the client   *)
(* looks for it; and not its mailbox, unless its launcher was given the    *)
(* dead one's PID after the client had judged.                             *)
LivingSessionsAreKept ==
    [][\A c \in Clients, l \in Launchers :
          ClientStep(c) /\ Alive(l) =>
              /\ records'[l] = records[l]
              /\ l \in contents[pid[l]] => l \in contents'[pid[l]] \/ l \in since[c]]_vars

(* While files of a dead session are left, a record leads to them: as long *)
(* as one of its records was there when its launcher was killed, every     *)
(* discovery finds it again until the files are gone.                      *)
LeftFilesStayDiscoverable ==
    [][\A l \in Launchers :
          pc[l] = "killed" /\ records[l] # {} /\ records'[l] = {}
              => l \notin contents'[pid[l]]]_vars

(* A launcher that started its target and was not killed leaves nothing    *)
(* behind, whichever way it ended.                                         *)
NothingLeftBehind ==
    \A l \in Launchers :
        pc[l] = "gone" /\ target[l] # "none" => records[l] = {} /\ l \notin contents[pid[l]]

=============================================================================
