------------------------- MODULE MCLauncherSessions -------------------------
(* Two launchers that get the same PID one after the other, or may; a      *)
(* client that sees both registries, one that sees only the global one,    *)
(* and one in another PID namespace.                                       *)
EXTENDS LauncherSessions, TLC

CONSTANTS l1, l2, p1, c1, c2, c3, workspace, global

MCLaunchers == {l1, l2}
MCPids == {p1}
MCDirs == {workspace, global}
MCClients == {c1, c2, c3}
MCForeign == {c3}
MCVisible == [c \in MCClients |-> IF c # c2 THEN MCDirs ELSE {global}]

=============================================================================
