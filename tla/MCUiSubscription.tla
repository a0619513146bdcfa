-------------------------- MODULE MCUiSubscription --------------------------
(* Two windows, of which the first has a child and in it a second, which   *)
(* is too deep for a walk.                                                 *)
EXTENDS UiSubscription

CONSTANTS root, child, deep, dialog

MCItems == {root, child, deep, dialog}

MCPath == [i \in MCItems |-> CASE i = root   -> <<root>>
                               [] i = child  -> <<root, child>>
                               [] i = deep   -> <<root, child, deep>>
                               [] i = dialog -> <<dialog>>]

=============================================================================
