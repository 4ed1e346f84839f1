----------------------------- MODULE FocusStack -----------------------------
(***************************************************************************)
(* Keyboard focus and the modal stack (backbone/focus_manager.cpp,         *)
(* modal_state.cpp) as operators on values.                                *)
(*                                                                         *)
(* A focus context is the list Tab walks through, the pointer into it and  *)
(* whether the first navigation has armed it.  The other operators take a  *)
(* record s whose field contexts is the stack of contexts, innermost last  *)
(* and each one known by the name of its list, and whose field modals is   *)
(* the stack of open modals.  The two stacks are independent in the code:  *)
(* what keeps them in step is the discipline of their callers.             *)
(***************************************************************************)
EXTENDS Naturals, Sequences

(* --------------------------- one focus context -------------------------- *)

\* register_focus_list: nothing is focused until the first navigation.
Registered(list) == [list |-> list, pointer |-> 1, armed |-> FALSE]

IndexIn(list, stop) == CHOOSE i \in DOMAIN list : list[i] = stop

Holds(list, stop) == \E i \in DOMAIN list : list[i] = stop

\* push_focus_context: armed from the start, on its initial stop.
Pushed(list, stop) ==
  [list |-> list, pointer |-> IF Holds(list, stop) THEN IndexIn(list, stop) ELSE 1, armed |-> TRUE]

\* snap_focus_to: a target that is not in the list is ignored.
Snapped(context, stop) ==
  IF Holds(context.list, stop)
  THEN [context EXCEPT !.pointer = IndexIn(context.list, stop), !.armed = TRUE]
  ELSE context

\* advance_focus: the first navigation arms the context without moving past its end.
AdvanceFocus(context, reverse) ==
  LET n == Len(context.list)
  IN IF n = 0 THEN context
     ELSE [context EXCEPT
             !.armed = TRUE,
             !.pointer = IF context.armed THEN (IF reverse THEN ((@ + n - 2) % n) + 1 ELSE (@ % n) + 1)
                         ELSE IF reverse THEN n ELSE 1]

\* get_focused_element, in keyboard mode.
IsFocused(context, stop) ==
  /\ context.armed
  /\ context.list # <<>>
  /\ context.list[context.pointer] = stop

(* ----------------------- the stacks of a whole screen ------------------- *)

kMaxModalDepth == 8

\* The list that Tab and the activate keys work on.
Active(s) == s.contexts[Len(s.contexts)]

TopModal(s) == IF s.modals = <<>> THEN "None" ELSE s.modals[Len(s.modals)]

IsAnyModalOpen(s) == s.modals # <<>>

\* register_focus_list replaces the active list, whatever owns it.
RegisterList(s, list) == [s EXCEPT !.contexts[Len(s.contexts)] = list]

PushContext(s, list) == [s EXCEPT !.contexts = Append(@, list)]

\* pop_focus_context: the base context stays.
PopContext(s) ==
  IF Len(s.contexts) = 1 THEN s ELSE [s EXCEPT !.contexts = SubSeq(@, 1, Len(@) - 1)]

\* notify_modal_opened: at the cap the modal is not recorded.
NotifyOpened(s, id) ==
  IF Len(s.modals) = kMaxModalDepth THEN s ELSE [s EXCEPT !.modals = Append(@, id)]

\* notify_modal_closed pops the top, whichever modal the caller means.
NotifyClosed(s) ==
  IF s.modals = <<>> THEN s ELSE [s EXCEPT !.modals = SubSeq(@, 1, Len(@) - 1)]

\* push_modal_focus, then the notification.
Opened(s, id, list) == NotifyOpened(PushContext(s, list), id)

Closed(s) == NotifyClosed(PopContext(s))

\* The list of an open modal is exchanged: pop it, push the new one.
Relaid(s, list) == PushContext(PopContext(s), list)
=============================================================================
