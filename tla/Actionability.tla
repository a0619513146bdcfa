--------------------------- MODULE Actionability ---------------------------
(***************************************************************************)
(* The evidence the agent gives, and requires before it sends input, that  *)
(* an item can be acted on at a point: the reasons why not. An item that   *)
(* covers the point is looked for by walking the item tree from the top.   *)
(***************************************************************************)
EXTENDS Scene

(* isPlausibleInputBlocker                                                 *)
PlausibleBlocker(s, i) ==
    Visible(s, i) /\ IsEnabled(s, i) /\ i \in s.opaque /\ i \in Surfaces \cup Controls

(* A surface that covers the whole target and is attached to a container   *)
(* of the target is the target's own click area, not an occluder.          *)
OwnClickArea(s, i, target) ==
    i \in Surfaces /\ Encloses(s, i, target) /\ Parent[i] \in Ancestors[target]

(* Mutant: "pruning every child that misses the point" (F-028).            *)
ReachedInBox(s, i, p) == {c \in PaintOrderChildren(s, i) : ContainsPoint(s, c, p)}

(* The children that a press, or something in them, may be offered to: a   *)
(* child that misses the point is only ruled out if it clips.              *)
Reached(s, i, p) ==
    {c \in PaintOrderChildren(s, i) : c \in Clips => ContainsPoint(s, c, p)}

(* topmostInputBlockerAt: the children of an item are asked from the top   *)
(* one down, and the first that has something to say decides: a part of    *)
(* the target clears it, an ancestor of the target passes the question on, *)
(* another child names a blocker inside it or else itself.                 *)
TopmostInputBlockerAt(s, root, p, target) ==
    LET Clears(c) == ContainsPoint(s, c, p) /\ c \in Subtree(target)
        Leads(c)  == c \in Ancestors[target]
        Blocks(c) == ContainsPoint(s, c, p) /\ PlausibleBlocker(s, c)
        blocker[i \in Items] ==
            LET reached  == Reached(s, i, p)
                inside   == [c \in reached |-> IF Clears(c) THEN Nothing ELSE blocker[c]]
                deciding == {c \in reached :
                                Clears(c) \/ Leads(c) \/ inside[c] # Nothing \/ Blocks(c)}
                first    == Topmost(s, deciding)
            IN  CASE deciding = {} -> Nothing
                  [] deciding # {} /\ (Clears(first) \/ Leads(first) \/ inside[first] # Nothing)
                     -> inside[first]
                  [] OTHER -> IF OwnClickArea(s, first, target) THEN Nothing ELSE first
    IN  blocker[root]

(* The modal popups that are open in a window: children of its overlay.    *)
OpenModals(s, w) ==
    {q \in Modals : WindowOf[q] = w /\ Parent[q] \in Overlays /\ Visible(s, q)}

InModalPopup(s, i) == \E q \in OpenModals(s, WindowOf[i]) : i \in Subtree(q)

ModalPopupBlocks(s, i) == OpenModals(s, WindowOf[i]) # {} /\ ~InModalPopup(s, i)

(* What speaks against the point: only the first of these is looked at.    *)
PointReasons(s, i, p) ==
    CASE WindowOf[i] = Nothing -> {"no_window"}
      [] WindowOf[i] # Nothing /\ ~InWindow(p) -> {"outside_viewport"}
      [] WindowOf[i] # Nothing /\ InWindow(p) /\ ModalPopupBlocks(s, i) -> {"blocked_by_modal_popup"}
      [] OTHER -> {r \in {"blocked_by_item"} :
                      /\ ~InModalPopup(s, i)
                      /\ TopmostInputBlockerAt(s, Content[WindowOf[i]], p, i) # Nothing}

(* reasonsForObject. Where the code lists both, "disabled" stands for      *)
(* "disabled_ancestor" too: enabled is false below a disabled item.        *)
Reasons(s, i, p) ==
    PointReasons(s, i, p) \cup
    {r \in {"not_visible", "opacity_zero", "zero_size", "disabled", "opacity_zero_ancestor"} :
        CASE r = "not_visible"           -> ~Visible(s, i)
          [] r = "opacity_zero"          -> i \notin s.opaque
          [] r = "zero_size"             -> s.box[i][2] < s.box[i][1]
          [] r = "disabled"              -> ~IsEnabled(s, i)
          [] r = "opacity_zero_ancestor" -> ~(Ancestors[i] \subseteq s.opaque)}
=============================================================================
