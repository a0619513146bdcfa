----------------------------- MODULE MCUiQuery -----------------------------
(***************************************************************************)
(* A window that shares an id with one of its items; a button with the     *)
(* same text as its label, and a piece of its style; a view with two       *)
(* delegates, each with an item of its own, and a second view whose        *)
(* delegate has the same id and index; a table cell; and three instances   *)
(* of one component.                                                       *)
(***************************************************************************)
EXTENDS UiQuery, TLC

CONSTANTS main, root, button, label, piece, row0, row1, name0, name1, other, cell,
          first, second, third

MCItems == {root, button, label, piece, row0, row1, name0, name1, other, cell, first, second, third}
MCParent == main :> Nothing @@ root :> main @@ button :> root @@ label :> button @@ piece :> button
    @@ row0 :> root @@ row1 :> root @@ name0 :> row0 @@ name1 :> row1 @@ other :> root @@ cell :> root
    @@ first :> root @@ second :> root @@ third :> root

Anything == [id |-> Nothing, objectName |-> Nothing, sourceLocation |-> Nothing, text |-> Nothing,
             type |-> {}, style |-> FALSE, delegate |-> FALSE]

Row == [Anything EXCEPT !.id = "row", !.sourceLocation = "rows", !.delegate = TRUE]
Instance == [Anything EXCEPT !.sourceLocation = "part", !.type = {"Part"}]

MCObject ==
    main :> [Anything EXCEPT !.id = "main", !.sourceLocation = "window"]
    @@ root :> Anything
    @@ button :> [Anything EXCEPT !.id = "save", !.text = "Save", !.type = {"Button"}]
    @@ label :> [Anything EXCEPT !.text = "Save", !.type = {"Label"}]
    @@ piece :> [Anything EXCEPT !.id = "main", !.type = {"Button"}, !.style = TRUE]
    @@ row0 :> Row @@ row1 :> Row
    @@ name0 :> [Anything EXCEPT !.sourceLocation = "name"]
    @@ name1 :> [Anything EXCEPT !.sourceLocation = "name"]
    @@ other :> [Row EXCEPT !.sourceLocation = "others", !.objectName = "other"]
    @@ cell :> [Anything EXCEPT !.objectName = "cell", !.sourceLocation = "cells"]
    @@ first :> Instance @@ second :> Instance @@ third :> Instance

(* Where the rows and the cell are: as at first; when the rows have        *)
(* changed places; and when a row was inserted before everything, for      *)
(* which there is no delegate yet.                                         *)
MCNodes == MCItems \cup {main}
Order(at, there) ==
    LET index == at @@ other :> 0 @@ cell :> 0
    IN  [index |-> [n \in MCNodes |-> IF n \in DOMAIN index THEN index[n] ELSE Nothing],
         cell  |-> [n \in MCNodes |-> IF n = cell THEN there ELSE Nothing]]
AtFirst == Order(row0 :> 0 @@ row1 :> 1, <<0, 1>>)
MCOrders == {AtFirst, Order(row0 :> 1 @@ row1 :> 0, <<0, 1>>), Order(row0 :> 1 @@ row1 :> 2, <<1, 1>>)}

(* The count of selectors sees all that a query finds.                     *)
ASSUME Counts == Unmistakable

(* Some objects are there from the start, in this order of ids.            *)
Births == main :> 1 @@ root :> 2 @@ button :> 3 @@ label :> 4 @@ piece :> 5 @@ row0 :> 6 @@ row1 :> 7
    @@ name0 :> 8 @@ name1 :> 9 @@ other :> 10 @@ cell :> 11 @@ first :> 12 @@ second :> 13 @@ third :> 14

MCInitialScenes ==
    {[live   |-> MCNodes \ {third},
      shown  |-> MCNodes \ hidden,
      place  |-> Births,
      order  |-> AtFirst,
      number |-> [n \in MCNodes |-> IF n \in {second, third} THEN 0 ELSE Births[n]],
      value  |-> [i \in {other, button} |-> 0]] : hidden \in {{}, {other}}}

MCChanging == [live |-> {row0, other, first, third}, shown |-> {other, row0},
               place |-> {first, second}]

MCAsked == {Plain("id", "row"), Plain("id", "main"), Plain("text", "Save"), Plain("type", "Button"),
            Plain("type", "Part")}

State(sel, state) == [selector |-> sel, state |-> state, op |-> Nothing, value |-> Nothing]
Property(sel, op, v) == [selector |-> sel, state |-> "", op |-> op, value |-> v]
MCConditions ==
    {State(Plain("id", "row"), "notFound"), State(Plain("objectName", "other"), "found"),
     Property(Plain("id", "row"), "=", 1), Property(Plain("text", "Save"), "!=", 0),
     Property(Plain("objectName", "other"), ">", 0), Property(Plain("objectName", "cell"), "=", 1)}
=============================================================================
