-------------------------- MODULE MCControlMailbox --------------------------
(***************************************************************************)
(* Three calls and every mix of the four kinds of request. Calls are alike *)
(* but for their kinds, so each mix is taken in one order only.            *)
(***************************************************************************)
EXTENDS ControlMailbox

CONSTANTS c1, c2, c3

MCClients == {c1, c2, c3}

Rank == [status |-> 1, stop |-> 2, agent |-> 3, reload |-> 4]

MCMixes == {kinds \in [MCClients -> Kinds] :
               Rank[kinds[c1]] <= Rank[kinds[c2]] /\ Rank[kinds[c2]] <= Rank[kinds[c3]]}

=============================================================================
