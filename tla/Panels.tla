------------------------------- MODULE Panels -------------------------------
(***************************************************************************)
(* The modal panels (modal/, settings/settings_modal.cpp,                  *)
(* settings/account_modal.cpp): what opening, closing and re-laying a      *)
(* panel does to the two stacks and to the panel's own flags, and what the *)
(* stops of each panel do.  A stop is a control the keyboard can focus;    *)
(* the mouse reaches the same controls.                                    *)
(*                                                                         *)
(* The record ui holds the stacks of FocusStack and, next to them:         *)
(*   fresh       modal_just_opened, the guard against the opening click    *)
(*   confirm     what Yes of the open confirmation does                    *)
(*   report      the leaderboard's report panel is up; closing and         *)
(*               submitting are its two requests, served when it is drawn  *)
(*   mode, forgot  auth_mode and forgot_open: the form the auth modal shows *)
(*   doc, switch   the legal document shown, and the request to swap it    *)
(*   registry    which Settings modal the shared Settings registry is      *)
(*               filled for: its stops act, those of another do not        *)
(* Calls made in a row by the code are composed as functions of ui.        *)
(***************************************************************************)
EXTENDS FocusStack

VARIABLES
  ui,         \* the stacks and the panels' flags
  member      \* an account is signed in

PanelIds ==
  {"Settings", "Section", "Doc", "Shop", "Leaderboard", "Help", "Confirm", "Auth", "Fallback"}
AuthForms == {"SignIn", "SignUp", "Forgot"}
Docs == {"None", "About", "Terms", "Privacy"}
Confirms == {"Leave", "Skip", "ResetAll", "ResetSection", "Delete", "Harmless"}

NoPanel ==
  [contexts |-> <<"None">>, modals |-> <<>>, fresh |-> FALSE, confirm |-> "None",
   report |-> FALSE, closing |-> FALSE, submitting |-> FALSE,
   mode |-> "SignIn", forgot |-> FALSE, doc |-> "None", switch |-> FALSE, registry |-> "Empty"]

(* ---------------------- the focus lists of the panels -------------------- *)

\* auth_focus_list, and the form render_auth_body draws.
FormOf(u) == IF u.forgot THEN "Forgot" ELSE u.mode

SettingsList == IF member THEN "SettingsMember" ELSE "SettingsGuest"

\* push_modal_focus: the list a panel is opened with.
ListFor(u, id) ==
  CASE id = "Settings" -> SettingsList
    [] id = "Doc" -> IF u.doc = "About" THEN "DocAbout" ELSE "DocLegal"
    [] id = "Auth" -> FormOf(u)
    [] OTHER -> id

\* Which panel a list belongs to.
PanelLists(id) ==
  CASE id = "Settings" -> {"SettingsMember", "SettingsGuest"}
    [] id = "Doc" -> {"DocAbout", "DocLegal"}
    [] id = "Auth" -> AuthForms
    [] id = "Leaderboard" -> {"Leaderboard", "Report"}
    [] OTHER -> {id}

\* Stops that more than one form of the auth modal has, besides the X.
FormStops(form) ==
  CASE form = "SignIn" -> {"Password", "Submit", "SwapLink", "ForgotLink"}
    [] form = "SignUp" -> {"Password", "Submit", "SwapLink", "TosConsent"}
    [] form = "Forgot" -> {"Send", "Back"}

(* --------------------------- opening and closing ------------------------ *)

\* What the panel does when it has been pushed.
OnOpen(u, id) ==
  CASE id = "Settings" -> [u EXCEPT !.registry = "Settings"]
    [] id \in {"Section", "Doc"} -> [u EXCEPT !.registry = id]
    [] id = "Auth" -> [u EXCEPT !.forgot = FALSE]
    [] OTHER -> u

\* Mutant: the panel is not put on the modal stack.
OpenModalBug(u, id) == OnOpen([PushContext(u, ListFor(u, id)) EXCEPT !.fresh = TRUE], id)

\* open_modal: its list is asked for before on_open runs.
OpenModal(u, id) == OnOpen([Opened(u, id, ListFor(u, id)) EXCEPT !.fresh = TRUE], id)

\* A sub-modal gives the registry back to Settings, whether or not it is open.  What
\* the next opening sets anyway (the document, the auth mode) is forgotten here.
OnClose(u, id) ==
  CASE id = "Settings" -> [u EXCEPT !.registry = "Empty"]
    [] id = "Section" -> [u EXCEPT !.registry = "Settings"]
    [] id = "Doc" -> [u EXCEPT !.registry = "Settings", !.doc = "None"]
    [] id = "Auth" -> [u EXCEPT !.mode = "SignIn"]
    [] OTHER -> u

\* close_modal: the top panel, whichever it is.
CloseModal(u) ==
  IF IsAnyModalOpen(u)
  THEN [Closed(OnClose(u, TopModal(u))) EXCEPT !.fresh = FALSE, !.confirm = "None"]
  ELSE u

OpenConfirm(u, what) == [OpenModal(u, "Confirm") EXCEPT !.confirm = what]

\* open_leaderboard_modal: its navigation state starts over.
OpenLeaderboard(u) ==
  OpenModal([u EXCEPT !.report = FALSE, !.closing = FALSE, !.submitting = FALSE], "Leaderboard")

OpenDoc(u, doc) == OpenModal([u EXCEPT !.doc = doc], "Doc")

\* open_sign_in_modal and open_sign_up_modal: the mode is kept, forgot_open is not reset yet.
OpenAuth(u, mode) == OpenModal([u EXCEPT !.mode = mode], "Auth")

\* open_clipboard_fallback pushes by itself: no open-frame guard.
OpenFallback(u) == Opened(u, "Fallback", "Fallback")

\* close_clipboard_fallback: the top of both stacks, whatever it is by now.
CloseFallback(u) == Closed(u)

\* do_relayout of the auth modal.
ShowForm(u, form) ==
  LET v == IF form = "Forgot" THEN [u EXCEPT !.forgot = TRUE]
                              ELSE [u EXCEPT !.mode = form, !.forgot = FALSE]
  IN Relaid(v, FormOf(v))

\* The report panel takes over the leaderboard's context, and gives it back.
OpenReport(u) ==
  Relaid([u EXCEPT !.report = TRUE, !.closing = FALSE, !.submitting = FALSE], "Report")
CloseReport(u) ==
  Relaid([u EXCEPT !.report = FALSE, !.closing = FALSE, !.submitting = FALSE], "Leaderboard")

\* The deferred transitions, after the board and its report panel are drawn: a
\* submission that fails leaves the panel up.
ServeReport(u) ==
  IF u.submitting THEN {CloseReport(u), [u EXCEPT !.submitting = FALSE]}
  ELSE IF u.closing THEN {CloseReport(u)}
  ELSE {u}

\* Mutant: the account rows of the focus list are never rebuilt.
RefreshAccountSectionBug(u) == u

\* refresh_account_section_if_auth_changed, before Settings draws its body.
RefreshAccountSection(u) ==
  IF Active(u) = SettingsList THEN u ELSE Relaid(u, SettingsList)

(* ------------------------- stops that stay in ui ------------------------ *)

\* The stops of a panel that change nothing but ui.
SettingsOpens(u) ==
  {OpenConfirm(u, "ResetAll"), OpenConfirm(u, "Harmless"), OpenModal(u, "Section"),
   OpenDoc(u, "About"), OpenDoc(u, "Terms")}

\* The account rows, for a guest and for a member; a failed health check shows the banner.
AccountRows(u, rows) ==
  IF rows = "SettingsMember"
  THEN {OpenConfirm(u, "Harmless"), OpenConfirm(u, "Delete")}
  ELSE {OpenAuth(u, "SignIn"), OpenAuth(u, "SignUp")}

\* Reset of the section picker: it closes before the confirmation opens.
SectionReset(u) == OpenConfirm(CloseModal(u), "ResetSection")

\* The swap button of the document viewer, served when it is drawn next.
RequestDocSwitch(u) == [u EXCEPT !.switch = TRUE]

ServeDocSwitch(u) ==
  IF u.switch
  THEN [u EXCEPT !.switch = FALSE, !.doc = IF @ = "Terms" THEN "Privacy" ELSE "Terms"]
  ELSE u

\* swap_to_leaderboard and swap_to_shop.
SwapTo(u, id) ==
  IF id = "Shop" THEN OpenModal(CloseModal(u), "Shop") ELSE OpenLeaderboard(CloseModal(u))

\* The guest's own row closes the board and asks to sign in or up.
YourRowSignsIn(u) == {OpenAuth(CloseModal(u), mode) : mode \in {"SignIn", "SignUp"}}

\* Links of an auth form: to another form, or to the legal documents.
FormLinks(u, stops) ==
  UNION {IF "SwapLink" \in stops /\ ~u.forgot
           THEN {ShowForm(u, IF u.mode = "SignIn" THEN "SignUp" ELSE "SignIn")} ELSE {},
         IF "ForgotLink" \in stops THEN {ShowForm(u, "Forgot")} ELSE {},
         IF "Back" \in stops THEN {ShowForm(u, "SignIn")} ELSE {},
         IF "TosConsent" \in stops THEN {OpenDoc(u, "Terms")} ELSE {}}

PanelTypeOK ==
  /\ ui.fresh \in BOOLEAN /\ ui.report \in BOOLEAN /\ ui.closing \in BOOLEAN
  /\ ui.submitting \in BOOLEAN /\ ui.forgot \in BOOLEAN /\ ui.switch \in BOOLEAN
  /\ ui.confirm \in Confirms \cup {"None"}
  /\ ui.mode \in {"SignIn", "SignUp"}
  /\ ui.doc \in Docs
  /\ ui.registry \in {"Empty", "Settings", "Section", "Doc"}
  /\ \A i \in DOMAIN ui.modals : ui.modals[i] \in PanelIds
  /\ Len(ui.contexts) >= 1
  /\ member \in BOOLEAN

PanelInit == ui = NoPanel /\ member \in BOOLEAN
=============================================================================
