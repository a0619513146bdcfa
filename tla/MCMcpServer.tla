---------------------------- MODULE MCMcpServer ----------------------------
(***************************************************************************)
(* A client that subscribes, runs one workflow of each kind and may        *)
(* disconnect in between, in any order, over at most two connections.      *)
(***************************************************************************)
EXTENDS McpServer

CONSTANTS subscribe, verify, wait, disconnect

MCCalls == {subscribe, verify, wait, disconnect}
MCKindOf(call) == CASE call = subscribe  -> "subscribe"
                    [] call = verify     -> "verify"
                    [] call = wait       -> "wait"
                    [] call = disconnect -> "disconnect"

=============================================================================
