---------------------------- MODULE EventRouter ----------------------------
(***************************************************************************)
(* The router of key events (backbone/event_router.cpp).  Every component  *)
(* installs its handlers at boot under one of four priorities and with the *)
(* condition under which they are alive; a key goes to the first live      *)
(* handler that claims it.  What the handlers look at belongs to the       *)
(* module that extends this one.                                           *)
(***************************************************************************)
EXTENDS SequencesExt

HandlerPriority ==
  [TutorialOverlay |-> 0, ModalLayer |-> 1, ScreenContext |-> 2, BackgroundCatchAll |-> 3]

Handler(tag, layer) == [tag |-> tag, priority |-> HandlerPriority[layer]]

\* insert_sorted: at the first slot that is not of a higher layer, so that the newest
\* handler of a layer runs first.
InsertSorted(handlers, new) ==
  LET slot == CHOOSE i \in 1..Len(handlers) + 1 :
                /\ \A j \in 1..i - 1 : handlers[j].priority < new.priority
                /\ i <= Len(handlers) => handlers[i].priority >= new.priority
  IN  InsertAt(handlers, slot, new)

\* The router after these handlers were registered one after the other.
InstalledInOrder(installs) ==
  LET router[n \in 0..Len(installs)] ==
        IF n = 0 THEN <<>> ELSE InsertSorted(router[n - 1], installs[n])
  IN  router[Len(installs)]

\* dispatch_key_event: which handler takes a key that the ones in `claims` would.
Dispatch(handlers, claims) ==
  LET takers == {i \in DOMAIN handlers : handlers[i].tag \in claims}
  IN  IF takers = {} THEN "None" ELSE handlers[CHOOSE i \in takers : \A j \in takers : i <= j].tag
=============================================================================
