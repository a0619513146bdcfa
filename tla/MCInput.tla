------------------------------ MODULE MCInput ------------------------------
(***************************************************************************)
(* Two windows. In the first, a flickable panel with a pane that is longer *)
(* than it, and in that a button, its label and its click area; a group    *)
(* whose child reaches past it, over the button, when the group is raised; *)
(* and a modal dialog. In the second, a text field.                        *)
(***************************************************************************)
EXTENDS Input

CONSTANTS main, tool, root, group, cover, panel, pane, button, label, fill,
          overlay, dialog, ok, base, field, input, object

MCWindows == {main, tool}
MCItems == {root, group, cover, panel, pane, button, label, fill, overlay, dialog, ok,
            base, field, input}

MCParent == root :> Nothing @@ group :> root @@ cover :> group @@ panel :> root
    @@ pane :> panel @@ button :> pane @@ label :> button @@ fill :> button
    @@ overlay :> root @@ dialog :> overlay @@ ok :> dialog
    @@ base :> Nothing @@ field :> base @@ input :> field
MCContent == main :> root @@ tool :> base
MCBirth == [i \in MCItems |-> CASE i \in {panel, fill} -> 2 [] i = overlay -> 3 [] OTHER -> 1]
MCContentOf == [i \in MCItems |-> CASE i = panel -> pane [] i = field -> input [] OTHER -> Nothing]

Box == root :> <<0, 3>> @@ group :> <<3, 3>> @@ cover :> <<1, 3>> @@ panel :> <<0, 2>>
    @@ pane :> <<0, 4>> @@ button :> <<1, 2>> @@ label :> <<1, 1>> @@ fill :> <<1, 2>>
    @@ overlay :> <<0, 3>> @@ dialog :> <<0, 1>> @@ ok :> <<0, 0>>
    @@ base :> <<0, 3>> @@ field :> <<1, 2>> @@ input :> <<1, 2>>

(* The dialog is open or not.                                              *)
MCInitialScenes ==
    {[live |-> MCItems, shown |-> shown, enabled |-> MCItems, opaque |-> MCItems,
      z |-> [i \in MCItems |-> IF i = overlay THEN 2 ELSE 0], box |-> Box] : shown \in {MCItems, MCItems \ {dialog}}}

MCChanging == [shown |-> {dialog}, enabled |-> {panel}, opaque |-> {cover},
               z |-> {group}, box |-> {pane}, live |-> {label, dialog, input},
               windows |-> {main, tool}, focus |-> {input}]
=============================================================================
